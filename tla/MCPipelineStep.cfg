\* An interrupt taken while single stepping.
SPECIFICATION Safety
CONSTANTS
    NPc = 2
    Vector <- MCVector
    Instrs <- StepInstrs
    WritebackStage = FALSE
    BranchTargetALU = FALSE
    DataIndTiming = TRUE
    Irqs = {TRUE, FALSE}
    Nmis = {FALSE}
    DebugReqs = {TRUE, FALSE}
PROPERTY NoInterruptWhileStepping
