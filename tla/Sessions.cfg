SPECIFICATION Spec
CONSTANTS
    MaxRequests = 3
    MaxSessions = 3
    MaxBooks = 3
    MaxFaults = 1
    MaxLogouts = 1
CHECK_DEADLOCK FALSE
INVARIANTS TypeOK NoFork LateAnswerDropped NotKickedOut OneBook
PROPERTIES CallsEnd
