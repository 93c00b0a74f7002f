CONSTANTS
    TimeSpan = 10
    Window = 2
    NumSessions = 2
    Mtu = 65535
    Sizes = {19, 65535}
    Secrets = {"none", "key"}
    Clocks = {1, 2, 6, 7}
    MaxPackets = 2
SPECIFICATION MCSpec
INVARIANTS TunnelTypeOK FramesDecode  AddressOfCurrent 
PROPERTIES  AskedIsAnswered
CHECK_DEADLOCK FALSE
