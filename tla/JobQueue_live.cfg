SPECIFICATION FairSpec
CONSTANTS
    w1 = w1
    w2 = w2
    Workers = {w1, w2}
    Kinds = {"purge", "backup", "scan"}
    Scan = "scan"
    Repeating = {"backup", "scan"}
    IfAbsent = {"backup"}
    Boot <- MCOneStarter
    Rules = {1, 2}
    Payload <- MCMixed
    Nobody = Nobody
    Batch = 1
    MaxAttempts = 2
    MaxJobs = 5
    MaxMonth = 1
    MaxCrashes = 0
    MaxFails = 1
    MaxErrors = 0
PROPERTIES
    GoesOnUndisturbed
    DueIsBooked
CHECK_DEADLOCK FALSE
