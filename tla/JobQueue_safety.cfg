SPECIFICATION Spec
CONSTANTS
    w1 = w1
    w2 = w2
    Workers = {w1, w2}
    Kinds = {"purge", "backup", "scan"}
    Scan = "scan"
    Repeating = {"backup", "scan"}
    IfAbsent = {"backup"}
    Boot <- MCServerAndWorker
    Rules = {1, 3}
    Payload <- MCMixed
    Nobody = Nobody
    Batch = 2
    MaxAttempts = 2
    MaxJobs = 4
    MaxMonth = 0
    MaxCrashes = 1
    MaxFails = 0
    MaxErrors = 1
INVARIANTS
    TypeOK
    OneHolder
    EachAdvanceBooked
    NotEarly
    FewPending
CHECK_DEADLOCK FALSE
