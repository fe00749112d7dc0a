SPECIFICATION Spec
CONSTANTS
    MaxRequests = 3
    MaxSessions = 2
    MaxBooks = 3
    MaxFaults = 0
    MaxLogouts = 1
CHECK_DEADLOCK FALSE
INVARIANTS LogoutSticks
