CONSTANTS
    Devices = {d1, d2}
    HostIds = {h1, h2, h3, h4, h5, h6, h7, h8, h9}
    None = None
    NoFile = NoFile
    Torn = Torn
    Faults <- PairingFaults
SPECIFICATION FairSpec
INVARIANTS TypeOK PairedIsRemembered
PROPERTIES GoodRecordKept NeverPairsTwice PairsAgain
