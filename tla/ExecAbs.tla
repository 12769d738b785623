------------------------------ MODULE ExecAbs ------------------------------
(***************************************************************************)
(* What the execution unit promises the ID stage: an instruction is        *)
(* issued, nothing else is issued before it is done, and it is done by     *)
(* writing back exactly the result the instruction set defines for it.     *)
(* How many cycles that takes is left open, that it happens is not.        *)
(***************************************************************************)
EXTENDS IsaRef

CONSTANTS
    Instrs,      \* the instructions the program may issue
    MaxInstr,    \* bound: how many instructions a behaviour issues
    NoInstr      \* no instruction in the stage

VARIABLES
    instr,       \* the instruction being executed
    rf_wdata,    \* last result written back
    issued       \* instructions issued so far (bound)

vars == <<instr, rf_wdata, issued>>

Init ==
    /\ instr = NoInstr
    /\ rf_wdata = 0
    /\ issued = 0

Issue ==
    /\ instr = NoInstr
    /\ issued < MaxInstr
    /\ instr' \in Instrs
    /\ issued' = issued + 1
    /\ UNCHANGED rf_wdata

Retire ==
    /\ instr # NoInstr
    /\ rf_wdata' = Ref(instr)
    /\ instr' = NoInstr
    /\ UNCHANGED issued

Next == Issue \/ Retire

Safety == Init /\ [][Next]_vars

Spec == Safety /\ WF_vars(Retire)
=============================================================================
