CONSTANTS
    NumSessions = 1
    IoThreads = 1
    MaxRequests = 2
    MaxPackets = 1
SPECIFICATION Spec
INVARIANTS RejectionSentBeforeClose
CHECK_DEADLOCK FALSE
