\* The two stages that are built: exceptions and interrupts.
SPECIFICATION Safety
CONSTANTS
    NPc = 2
    Vector <- MCVector
    Instrs <- InterruptInstrs
    WritebackStage = FALSE
    BranchTargetALU = FALSE
    DataIndTiming = TRUE
    Irqs = {TRUE, FALSE}
    Nmis = {TRUE, FALSE}
    DebugReqs = {FALSE}
INVARIANT PipelineInv
PROPERTIES PreciseTraps NoAbandonedAccess
