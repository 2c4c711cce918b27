CONSTANTS
    v1 = v1
    v2 = v2
    Paths = {p1, p2}
    LongPaths = {long}
    Values = {v1, v2}
    Blocks <- TwoLengths
    ShortTail = {v2}
    MaxHandles = 1
    MaxRest = 2
    MaxLeft = 1
    NoFile = NoFile
    Folder = Folder
    Torn = Torn
    Faults = {"big"}
    MaxFaults = 1
SPECIFICATION Spec

PROPERTIES WriteReported
CHECK_DEADLOCK FALSE
