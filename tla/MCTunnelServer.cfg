CONSTANTS
    NumSessions = 2
    IoThreads = 2
    MaxRequests = 3
    MaxPackets = 2
SPECIFICATION Spec
INVARIANTS TypeOK DeadQueueBounded AnswerAccepted
PROPERTIES TunnelledOnlyToOwner
CHECK_DEADLOCK FALSE
