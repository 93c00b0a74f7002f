CONSTANTS
    NumSessions = 2
    IoThreads = 2
    MaxRequests = 2
    MaxPackets = 1
SPECIFICATION FairSpec
PROPERTIES FramesLeave ShutdownQuiesces
CHECK_DEADLOCK FALSE
