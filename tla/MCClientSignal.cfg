CONSTANTS
    MaxTransports = 2
    MaxSends = 1
    MaxKills = 0
SPECIFICATION Spec
INVARIANTS StopRestores
CHECK_DEADLOCK FALSE
