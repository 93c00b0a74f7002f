CONSTANTS
    MaxTransports = 2
    MaxSends = 1
    MaxKills = 1
SPECIFICATION Spec
INVARIANTS TypeOK OneAttempt NoRoutingLoop  
CHECK_DEADLOCK FALSE
