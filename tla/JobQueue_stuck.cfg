SPECIFICATION FairSpec
CONSTANTS
    w1 = w1
    w2 = w2
    Workers = {w1}
    Kinds = {"purge", "backup", "scan"}
    Scan = "scan"
    Repeating = {"backup", "scan"}
    IfAbsent = {"backup"}
    Boot <- MCBackupOnly
    Rules = {}
    Payload <- MCMixed
    Nobody = Nobody
    Batch = 1
    MaxAttempts = 2
    MaxJobs = 3
    MaxMonth = 0
    MaxCrashes = 1
    MaxFails = 0
    MaxErrors = 0
PROPERTIES
    GoesOn
CHECK_DEADLOCK FALSE
