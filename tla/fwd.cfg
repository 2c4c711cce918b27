CONSTANTS
    TxInit = 100
    ISN = 10
    PhoneFrames = 2
    TcpChunks = 2
    Lens = {2}
    MaxFaults = 1
    Joined <- PosixJoined
SPECIFICATION FairSpec
INVARIANTS TypeOK ContextAlive TxContiguous AckedIsForwarded OneAfterStop
PROPERTIES EndsTogether
CHECK_DEADLOCK FALSE
