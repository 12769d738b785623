\* Three stages, an interrupt always pending, NMIs that come and go.
SPECIFICATION Spec
CONSTANTS
    NPc = 1
    Vector <- MCVector
    Instrs <- LiveInstrs
    WritebackStage = TRUE
    BranchTargetALU = TRUE
    DataIndTiming = FALSE
    Irqs = {TRUE}
    Nmis = {TRUE, FALSE}
    DebugReqs = {FALSE}
PROPERTIES EnablingIsSeen Progress
