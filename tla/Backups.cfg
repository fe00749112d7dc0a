SPECIFICATION Spec
CONSTANTS
    Workers = {w}
    Operators = {o}
    Atts = {a1}
    Keep = 2
    Backends = {"local", "s3"}
    MaxRuns = 3
    MaxJobs = 1
    MaxWrites = 1
    MaxFaults = 1
CHECK_DEADLOCK FALSE
INVARIANTS TypeOK NewestWhole ReadyMeansBundle SafetyKept DrillPredicts RestoreHonest
