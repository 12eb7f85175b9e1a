SPECIFICATION FairSpec
CONSTANTS
    A = A
    B = B
    Names = {A, B}
    MaxApps = 2
    MaxTasks = 2
    KillTimer = 2
    Elapsed = {1}
    LastApp = 3
    LastTask = 4
INVARIANTS
    NamesUnique
    RunningRegistered
    LiveRegistered
    CountsExact
    ModulesMatch
PROPERTIES
    RestartKept
    RemovalEnds
