CONSTANTS
    Span = 4
    Base = 3
    MaxConns = 5
    NumRules = 2
    MaxCopies = 2
    MaxBeside = 1
    MaxFaults = 2
SPECIFICATION FairProcessSpec
INVARIANTS ProcessTypeOK RouteTableConsistent OwnRoute ServerAddressSpared
           RulesOnce ServesOnlyConfigured DescriptorsOwned
PROPERTIES  SignalEnds ServiceRecovers
CHECK_DEADLOCK FALSE
