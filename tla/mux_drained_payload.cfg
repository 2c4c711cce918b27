CONSTANTS
    TxInit = 5
    ISN = 2
    SeqMod = 64
    StreamLen = 3
    MaxPay = 2
    MaxChunk = 2
    RxCap = 12
    PrebufCap = 4
    SeenCap = 4
    BufSizes = {2}
    TxLimit = 7
    EarlyFrames = 2
    RetxAnyTime = FALSE
    Misreads <- MisreadSet
    Stale <- NoStale
    MaxLate = 0
    LateAnyTime = FALSE
    Faults <- NoFaults
SPECIFICATION Spec
INVARIANT PrebufInOrder
CHECK_DEADLOCK FALSE
