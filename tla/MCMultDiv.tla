----------------------------- MODULE MCMultDiv -----------------------------
(***************************************************************************)
(* The unit on six-bit words, with lanes of one bit.  A program is one     *)
(* instruction of the M extension with any operands, or a sequence of      *)
(* instructions of every kind: how they meet in the shared registers.      *)
(***************************************************************************)
EXTENDS MultDiv

VARIABLE sequence       \* the program is a sequence

mcvars == <<vars, sequence>>

Instr(ops, A, B) == [op : ops, a : A, b : B, sa : BOOLEAN, sb : BOOLEAN]

MCMixed ==
    Instr(MulOps \cup DivOps, {33, 63}, {0, 11})
    \cup Instr({"KYBER_MUL", "KYBER_SUB"}, {9, 1}, {9})
    \cup Instr({"KYBER_ADD"}, {9}, {8})
    \cup Instr({"KYBER_CBD2"}, {7}, {0})
    \cup Instr({"KYBER_COMPRESS"}, {1}, {2})

MCWord == Instr(MulOps \cup DivOps, 0..(W - 1), 0..(W - 1))

MCInstrs == MCMixed \cup MCWord

MCInit == Init /\ sequence \in BOOLEAN

MCIssue ==
    /\ instr = NoInstr
    /\ issued < IF sequence THEN MaxInstr ELSE 1
    /\ \E i \in IF sequence THEN MCMixed ELSE MCWord : Accept(i)

MCNext == (MCIssue \/ Held \/ MultStep \/ DivStep) /\ UNCHANGED sequence

MCSpec == MCInit /\ [][MCNext]_mcvars /\ WF_mcvars((MultStep \/ DivStep) /\ UNCHANGED sequence)
=============================================================================
