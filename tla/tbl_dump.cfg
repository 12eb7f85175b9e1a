SPECIFICATION Spec
CONSTANTS
    App = {owner, user}
    NoApp = NoApp
    TblName = {dump, plain, userdef}
    Opt <- DumpTables
    owner = owner
    user = user
    crit = crit
    plain = plain
    dump = dump
    userdef = userdef
    g1 = g1
    g2 = g2
    b1 = b1
    NumTables = 2
    NumHandles = 3
    NumLoads = 2
    NumVals = 1
    NumCrit = 0
    PoolSize = 2
    Good = {}
    Bad = {}
    ZERO = ZERO
    TORN = TORN
    USER = USER
    NULL = NULL
    EMPTY = EMPTY
VIEW DumpView
INVARIANTS
    
    DumpRequestKnown
