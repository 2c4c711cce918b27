CONSTANTS
    TxInit = 5
    ISN = 2
    SeqMod = 64
    StreamLen = 3
    MaxPay = 2
    MaxChunk = 2
    RxCap = 12
    PrebufCap = 4
    SeenCap = 4
    BufSizes = {1, 2}
    TxLimit = 7
    EarlyFrames = 1
    RetxAnyTime = FALSE
    Misreads <- MisreadSet
    Stale <- NoStale
    MaxLate = 0
    LateAnyTime = FALSE
    Faults <- StreamFaults
SPECIFICATION FairSpec
INVARIANTS FramingKept AckedIsKept
PROPERTY ImplementsStream
CHECK_DEADLOCK FALSE
