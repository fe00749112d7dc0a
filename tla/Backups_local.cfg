SPECIFICATION Spec
CONSTANTS
    Workers = {w}
    Operators = {o}
    Atts = {a1}
    Keep = 2
    Backends = {"local"}
    MaxRuns = 2
    MaxJobs = 1
    MaxWrites = 2
    MaxFaults = 1
CHECK_DEADLOCK FALSE
INVARIANTS OldRowsKeepObjects
