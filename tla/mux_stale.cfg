CONSTANTS
    TxInit = 5
    ISN = 2
    SeqMod = 64
    StreamLen = 2
    MaxPay = 1
    MaxChunk = 2
    RxCap = 3
    PrebufCap = 1
    SeenCap = 2
    BufSizes = {1}
    TxLimit = 7
    EarlyFrames = 2
    RetxAnyTime = TRUE
    Misreads <- MisreadSet
    Stale <- StaleSet
    MaxLate = 1
    LateAnyTime = TRUE
    Faults <- NoFaults
SPECIFICATION Spec
INVARIANT HandshakeSound
CHECK_DEADLOCK FALSE
