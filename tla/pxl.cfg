CONSTANTS
    Apps = {a1, a2}
    MaxFaults = 2
SPECIFICATION FairSpec
INVARIANTS TypeOK OnlyWholeInstalled AcceptedMeansRunning
PROPERTIES CommandHonest DaemonHonest ListHonest DaemonComesUp
CHECK_DEADLOCK FALSE
