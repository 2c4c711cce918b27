CONSTANT MaxStack = 3
SPECIFICATION FairSpec
INVARIANTS TypeOK EnabledMeansReady
PROPERTIES DisconnectNoticed CommandFinishes
CHECK_DEADLOCK FALSE
