CONSTANTS
    MaxTransports = 2
    MaxSends = 1
    MaxKills = 0
SPECIFICATION Spec
INVARIANTS ServerRouteFirst
CHECK_DEADLOCK FALSE
