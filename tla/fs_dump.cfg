SPECIFICATION FairSpec
CONSTANTS
    m1 = m1
    m2 = m2
    m3 = m3
    m4 = m4
    n1 = n1
    n2 = n2
    NamesFor <- Names
    Meta = {m1, m2, m3, m4}
    Name = {n1, n2}
    NULL = NULL
    CFE_FS_MAX_BACKGROUND_FILE_WRITES = 4
    CountModulus = 4
    CFE_FS_BACKGROUND_MAX_CREDIT = 1
    Elapsed = {0, 1}
    HeaderSize = 1
    RecordSize <- Sizes
    LastRecord = 1
INVARIANTS
    RingExact
    FileStaysNamed
    CreditBounded
PROPERTIES
    ImplementsQueue
    NoSilentEnd
    RequestsEnd
