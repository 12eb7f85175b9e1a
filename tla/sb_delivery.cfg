SPECIFICATION Spec
CONSTANTS
    t1 = t1
    t2 = t2
    t3 = t3
    a1 = a1
    a2 = a2
    Task = {t1, t2, t3}
    App = {a1, a2}
    AppOf <- DeliveryAppOf
    Roles <- DeliveryRoles
    MsgId = {m1}
    TlmId = {m1}
    Buf = {b1, b2}
    NULL = NULL
    NoApp = NoApp
    CFE_PLATFORM_SB_MAX_PIPES = 2
    CFE_PLATFORM_SB_MAX_MSG_IDS = 2
    CFE_PLATFORM_SB_MAX_DEST_PER_PKT = 2
    MaxPipeId = 2
    QueueDepth = 2
    MsgLim <- DeliveryMsgLim
    MaxSeq = 2
INVARIANTS
    SequenceInOrder
    GaugesExact
PROPERTIES
    ContentStable
SYMMETRY BufSymmetry
