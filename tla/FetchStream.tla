---------------------------- MODULE FetchStream ----------------------------
(***************************************************************************)
(* What the instruction fetch promises the ID stage: since the last branch *)
(* it delivers the instructions found at and after the branch target, one  *)
(* after the other and none twice, each read after that branch, and marked *)
(* as failed exactly when a word it lies in could not be read.             *)
(*                                                                         *)
(* Addresses count half words; they wrap at 2 * NWords.                    *)
(***************************************************************************)
EXTENDS Naturals

CONSTANTS
    NWords,      \* words of instruction memory
    Layouts      \* layouts of the code

VARIABLES
    layout,      \* layout of the code (does not change)
    pc,          \* address of the next instruction
    delivered    \* the last instruction delivered

vars == <<layout, pc, delivered>>

HalfAddr   == 0..(2 * NWords - 1)
WordOf(h)  == h \div 2
Forward(h, n) == (h + n) % (2 * NWords)

Failed(w) == w \in layout.failing

(* An instruction whose first word failed counts as a long one. *)
Compressed(h) == h \in layout.compressed /\ ~Failed(WordOf(h))

LastWord(h) == IF Compressed(h) THEN WordOf(h) ELSE WordOf(Forward(h, 1))

Instruction(h) ==
    [addr  |-> h,
     first |-> WordOf(h),
     last  |-> LastWord(h),
     err   |-> Failed(WordOf(h)) \/ Failed(LastWord(h)),
     plus2 |-> ~Failed(WordOf(h)) /\ Failed(LastWord(h)),
     old   |-> FALSE]

Nothing == [addr |-> 0, first |-> 0, last |-> 0, err |-> FALSE, plus2 |-> FALSE,
            old |-> FALSE]

Init ==
    /\ layout \in Layouts
    /\ pc \in HalfAddr
    /\ delivered = Nothing

Branch ==
    /\ pc' \in HalfAddr
    /\ UNCHANGED <<layout, delivered>>

Deliver ==
    /\ delivered' = Instruction(pc)
    /\ pc' = Forward(pc, IF Compressed(pc) THEN 1 ELSE 2)
    /\ UNCHANGED layout

Next == Branch \/ Deliver

Spec == Init /\ [][Next]_vars
=============================================================================
