SPECIFICATION Spec
CONSTANTS
    Ids = {a1}
    Reqs = {q1, q2}
    Nobody = nobody
    Purger = purger
    Backends <- MCS3
    Sizes <- MCSizes
    NoSize <- MCNoSize
    Bodies <- MCBodies
    PartSize = 2
    Threshold = 1
    MaxSize = 3
    MaxRequests = 4
    MaxFaults = 1
CHECK_DEADLOCK FALSE
PROPERTIES EachSettles
