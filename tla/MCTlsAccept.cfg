CONSTANTS
    Span = 4
    Base = 1
    MaxConns = 1
SPECIFICATION Spec
PROPERTIES WsAcceptFollowsSsl
CHECK_DEADLOCK FALSE
