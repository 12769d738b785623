\* get_elapsed_time is interrupted between its two loads.
SPECIFICATION MCSpec
CONSTANTS
    Parts = {"timer"}
    Half = 8
    TickHalf = 2
    Bases <- MCBases
    NrHosts = 2
    Signals <- MCSignals
    Values = {0, 1}
    MaxTime = 30
INVARIANTS ElapsedInCall
CHECK_DEADLOCK FALSE
