-------------------------------- MODULE Isa --------------------------------
(***************************************************************************)
(* Instructions as far as the control of the pipeline tells them apart,    *)
(* and what they do to the program counter and the control and status      *)
(* registers.  Addresses count instructions and wrap at NPc.               *)
(***************************************************************************)
EXTENDS Naturals

CONSTANTS
    NPc,         \* number of instruction addresses
    Vector,      \* boot address and handlers, a function on VectorNames
    Instrs       \* the instructions of the program

VectorNames == {"boot", "exc", "irq", "nmi", "debug", "debug_exc"}
Pc == 0..(NPc - 1)

ASSUME AddressAssumption == NPc \in Nat \ {0} /\ Vector \in [VectorNames -> Pc]

MemOps  == {"LOAD", "STORE"}
MieOps  == {"MIE_SET", "MIE_CLR"}              \* csrs, csrc mstatus.mie
DcsrOps == {"DCSR_SET", "DCSR_CLR"}            \* csrs, csrc dcsr
CsrOps  == MieOps \cup DcsrOps \cup {"SEEN_CLR"}
                                   \* csrc cpuctrlsts.sync_exc_seen
Ops     == {"ALU", "MULDIV", "BRANCH", "JUMP", "MRET", "DRET", "WFI", "ECALL",
            "EBREAK", "ILLEGAL", "FETCH_ERR"} \cup MemOps \cup CsrOps

DcsrBits == {"step", "ebreakm", "ebreaku"}

(***************************************************************************)
(* taken and target: of a branch or jump (fence.i jumps to the next        *)
(* instruction); mask: the bits a DcsrOps instruction sets or clears; dep: *)
(* the instruction reads a register the one before it writes.              *)
(***************************************************************************)
Instr == [op : Ops, taken : BOOLEAN, target : Pc, mask : SUBSET DcsrBits,
          dep : BOOLEAN]

ASSUME InstrsAssumption == Instrs \subseteq Instr

NoInstr == [op |-> "NONE", taken |-> FALSE, target |-> 0, mask |-> {}, dep |-> FALSE]

Succ(p) == (p + 1) % NPc

NextPc(i, p) ==
    IF i.op = "JUMP" \/ (i.op = "BRANCH" /\ i.taken) THEN i.target ELSE Succ(p)

(* Machine level CSRs and MRET need M mode, dcsr and DRET debug mode. *)
IllegalInsn(i, priv, debug) ==
    \/ i.op = "ILLEGAL"
    \/ i.op \in MieOps \cup {"SEEN_CLR", "MRET"} /\ priv # "M"
    \/ i.op \in DcsrOps /\ (priv # "M" \/ ~debug)
    \/ i.op = "DRET" /\ ~debug

MieAfter(i, mie) ==
    CASE i.op = "MIE_SET" -> TRUE
      [] i.op = "MIE_CLR" -> FALSE
      [] OTHER -> mie

DcsrAfter(i, on) ==
    CASE i.op = "DCSR_SET" -> on \cup i.mask
      [] i.op = "DCSR_CLR" -> on \ i.mask
      [] OTHER -> on

SeenAfter(i, seen) == seen /\ i.op # "SEEN_CLR"

(* double_fault_seen_o: an exception, and none returned from since the last. *)
Fault(seen) == IF seen THEN "double" ELSE "exc"

(***************************************************************************)
(* What the pipeline reports of a cycle: an access that completed in the   *)
(* write-back stage, the instruction that retired, the trap that was taken.*)
(***************************************************************************)
Event == [mem : BOOLEAN, retired : Instrs \cup {NoInstr},
          trap : {"none", "exc", "double", "irq", "nmi", "debug", "redebug"}]
NoEvent == [mem |-> FALSE, retired |-> NoInstr, trap |-> "none"]

(* Single stepping: an instruction retires, or traps, once. *)
Stepping(dcsr, debug) == ~debug /\ "step" \in dcsr.on
Stepped(e) == e.mem \/ e.retired # NoInstr \/ e.trap \in {"exc", "double"}
=============================================================================
