SPECIFICATION Spec
CONSTANTS
    x = x
    y = y
    z = z
    Bucket = {2, 4}
    DescSize = 1
    StartOffset = 1
    PoolMaxOffset = 9
    Name = {x, y, z}
    Size = {1, 2, 3}
    Value = {1}
    MaxNumEntries = 2
    SerialMax = 3
    HeaderSize = 1
    NONE = NONE
    ZERO = ZERO
    TORN = TORN
    JUNK = JUNK
INVARIANTS
    PoolExact
    InitialisedBeforeUse
    RegistrySaved
    BlocksAccounted
    HandleNamesOwn
    PreservedUnlessDangling
SYMMETRY
    Names
VIEW
    LiveView
