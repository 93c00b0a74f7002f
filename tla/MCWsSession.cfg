CONSTANTS
    Sessions = {s1}
    Senders = {t1, t2}
    Msgs = {m1, m2}
    MaxSends = 4
SPECIFICATION FairSpec
INVARIANTS TypeOK SingleWriter Conserved NoLostWakeup
PROPERTIES  EveryFrameLeaves ImplementsFifoLink
CHECK_DEADLOCK FALSE
