\* The clock stops at MaxTime, and everything with it; two hosts on the bus.
SPECIFICATION MCSpec
CONSTANTS
    Parts = {"timer", "bus"}
    Half = 8
    TickHalf = 2
    Bases <- MCBases
    NrHosts = 2
    Signals <- MCSignals
    Values = {0, 1}
    MaxTime = 28
INVARIANT TimerInv
PROPERTIES NoEarlyTick DueTickPending Addressed
CHECK_DEADLOCK FALSE
