SPECIFICATION FairSpec
CONSTANTS
    AtToneMET = AtToneMET
    AtToneLatch = AtToneLatch
    Field <- MCField
    Value = {0, 1}
    Stores <- MCStores
    Reader = {task}
    Retries = 1
    VersionCount = 8
INVARIANTS
    ReadConsistent
    RetryOnlyAfterDepth
PROPERTIES
    ReadEnds
