\* Three stages: exceptions and debug requests.
SPECIFICATION Safety
CONSTANTS
    NPc = 2
    Vector <- MCVector
    Instrs <- DebugInstrs
    WritebackStage = TRUE
    BranchTargetALU = TRUE
    DataIndTiming = FALSE
    Irqs = {FALSE}
    Nmis = {FALSE}
    DebugReqs = {TRUE, FALSE}
PROPERTIES PreciseTraps NeverDoubleSet
