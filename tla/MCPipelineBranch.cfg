\* Three stages without an adder for branch targets.
SPECIFICATION Safety
CONSTANTS
    NPc = 2
    Vector <- MCVector
    Instrs <- DebugInstrs
    WritebackStage = TRUE
    BranchTargetALU = FALSE
    DataIndTiming = FALSE
    Irqs = {FALSE}
    Nmis = {FALSE}
    DebugReqs = {FALSE}
INVARIANT BranchSetWithTarget
