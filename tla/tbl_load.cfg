SPECIFICATION Spec
CONSTANTS
    App = {owner, user}
    NoApp = NoApp
    TblName = {crit, plain}
    Opt <- LoadTables
    owner = owner
    user = user
    crit = crit
    plain = plain
    dump = dump
    userdef = userdef
    g1 = g1
    g2 = g2
    b1 = b1
    NumTables = 2
    NumHandles = 2
    NumLoads = 1
    NumVals = 1
    NumCrit = 1
    PoolSize = 2
    Good = {g1}
    Bad = {b1}
    ZERO = ZERO
    TORN = TORN
    USER = USER
    NULL = NULL
    EMPTY = EMPTY
VIEW LoadView
INVARIANTS
    MemoryAccounted
    
    
    CriticalSaved

    
