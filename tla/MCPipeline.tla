----------------------------- MODULE MCPipeline -----------------------------
(***************************************************************************)
(* Programs for the pipeline: those of the interrupt runs know no debug    *)
(* mode, those of the debug run neither load nor change mstatus.mie.       *)
(***************************************************************************)
EXTENDS Pipeline

Plain(op) == [NoInstr EXCEPT !.op = op]

Jumps == {[Plain("JUMP") EXCEPT !.target = 0],
          [Plain("BRANCH") EXCEPT !.taken = TRUE, !.target = 0], Plain("BRANCH")}

InterruptInstrs ==
    Jumps \cup {Plain(op) : op \in {"MULDIV", "LOAD", "STORE", "MIE_SET", "MIE_CLR",
                                    "SEEN_CLR", "MRET", "WFI", "ECALL", "FETCH_ERR"}}

DebugInstrs ==
    {[Plain("BRANCH") EXCEPT !.taken = TRUE, !.target = 0], Plain("BRANCH")}
    \cup {Plain(op) : op \in {"STORE", "MRET", "DRET", "WFI", "EBREAK"}}
    \cup {[Plain("DCSR_SET") EXCEPT !.mask = {"step", "ebreakm"}],
          [Plain("DCSR_CLR") EXCEPT !.mask = {"step"}]}

(* One instruction for every way to wait; the ALU's reads what was loaded. *)
LiveInstrs ==
    {Plain(op) : op \in {"MULDIV", "LOAD", "STORE", "WFI", "MIE_SET", "MIE_CLR", "MRET",
                         "ILLEGAL"}}
    \cup {[Plain("BRANCH") EXCEPT !.taken = TRUE, !.target = 0],
          [Plain("ALU") EXCEPT !.dep = TRUE]}

(* A debugger sets dcsr.step and returns. *)
StepInstrs ==
    {Plain(op) : op \in {"ALU", "DRET", "MIE_SET"}}
    \cup {[Plain("DCSR_SET") EXCEPT !.mask = {"step"}]}

MCVector == [v \in VectorNames |-> IF v \in {"boot", "exc", "nmi"} THEN 0 ELSE NPc - 1]
=============================================================================
