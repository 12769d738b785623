-------------------------------- MODULE Hart --------------------------------
(***************************************************************************)
(* What the pipeline promises a program: instructions retire one after the *)
(* other from the program counter on; exceptions, interrupts and debug     *)
(* requests are taken between two of them and save the address of the      *)
(* first that did not retire.                                              *)
(***************************************************************************)
EXTENDS Isa

VARIABLES
    pc,               \* the first instruction that has not retired
    priv_lvl_q,       \* privilege level
    mstatus, mepc,    \* trap state
    mstack,           \* trap state as it was before the last trap
    sync_exc_seen,    \* an exception was taken and no trap returned from since
    nmi_mode_q,       \* in the handler of a non-maskable interrupt
    debug_mode_q,
    dcsr, depc,       \* debug state
    event,            \* what happened last
    stepped           \* has an instruction been stepped since debug mode was left?

csrs == <<priv_lvl_q, mstatus, mepc, mstack, sync_exc_seen, nmi_mode_q, debug_mode_q,
          dcsr, depc>>
vars == <<pc, csrs, event, stepped>>

Init ==
    /\ pc = Vector["boot"]
    /\ priv_lvl_q = "M"
    /\ mstatus = [mie |-> FALSE, mpie |-> TRUE, mpp |-> "U"]
    /\ mepc = 0
    /\ mstack = [mpie |-> TRUE, mpp |-> "U", epc |-> 0]
    /\ sync_exc_seen = FALSE /\ nmi_mode_q = FALSE /\ debug_mode_q = FALSE
    /\ dcsr = [on |-> {}, prv |-> "M"]
    /\ depc = 0
    /\ event = NoEvent /\ stepped = FALSE

(* Does instruction i run to its end, without a trap and without a jump back? *)
Ordinary(i) ==
    /\ ~IllegalInsn(i, priv_lvl_q, debug_mode_q)
    /\ i.op \notin {"ECALL", "EBREAK", "FETCH_ERR", "MRET", "DRET"}

(* At most one access and one instruction after it complete in a step. *)
Retire ==
    /\ event' \in Event /\ event'.trap = "none"
    /\ event'.mem \/ event'.retired # NoInstr
    /\ LET i == event'.retired
           p == IF event'.mem THEN Succ(pc) ELSE pc
       IN  /\ i # NoInstr => Ordinary(i)
           /\ pc' = IF i # NoInstr THEN NextPc(i, p) ELSE p
           /\ mstatus' = [mstatus EXCEPT !.mie = MieAfter(i, @)]
           /\ dcsr' = [dcsr EXCEPT !.on = DcsrAfter(i, @)]
           /\ sync_exc_seen' = SeenAfter(i, sync_exc_seen)
    /\ UNCHANGED <<priv_lvl_q, mepc, mstack, nmi_mode_q, debug_mode_q, depc>>

Mret ==
    /\ event'.retired.op = "MRET" /\ priv_lvl_q = "M"
    /\ pc' = mepc
    /\ priv_lvl_q' = mstatus.mpp
    /\ mstatus' = [mie  |-> mstatus.mpie,
                   mpie |-> IF nmi_mode_q THEN mstack.mpie ELSE TRUE,
                   mpp  |-> IF nmi_mode_q THEN mstack.mpp ELSE "U"]
    /\ mepc' = IF nmi_mode_q THEN mstack.epc ELSE mepc
    /\ nmi_mode_q' = FALSE /\ sync_exc_seen' = FALSE
    /\ UNCHANGED <<mstack, debug_mode_q, dcsr, depc>>

Dret ==
    /\ event'.retired.op = "DRET" /\ debug_mode_q
    /\ pc' = depc
    /\ priv_lvl_q' = dcsr.prv
    /\ debug_mode_q' = FALSE
    /\ UNCHANGED <<mstatus, mepc, mstack, sync_exc_seen, nmi_mode_q, dcsr, depc>>

(* The trap state of the instruction at pc. *)
Save ==
    /\ mepc' = pc
    /\ mstatus' = [mie |-> FALSE, mpie |-> mstatus.mie, mpp |-> priv_lvl_q]
    /\ mstack' = [mpie |-> mstatus.mpie, mpp |-> mstatus.mpp, epc |-> mepc]

Exception ==
    /\ priv_lvl_q' = "M"
    /\ IF debug_mode_q
       THEN /\ pc' = Vector["debug_exc"]
            /\ event' = [NoEvent EXCEPT !.trap = "exc"]
            /\ UNCHANGED <<mepc, mstatus, mstack, sync_exc_seen>>
       ELSE /\ pc' = Vector["exc"] /\ Save
            /\ event' = [NoEvent EXCEPT !.trap = Fault(sync_exc_seen)]
            /\ sync_exc_seen' = TRUE
    /\ UNCHANGED <<nmi_mode_q, debug_mode_q, dcsr, depc>>

Interrupt ==
    /\ ~debug_mode_q /\ ~nmi_mode_q
    /\ \/ mstatus.mie /\ event' = [NoEvent EXCEPT !.trap = "irq"]
       \/ event' = [NoEvent EXCEPT !.trap = "nmi"]
    /\ nmi_mode_q' = (event'.trap = "nmi")
    /\ pc' = Vector[event'.trap]
    /\ priv_lvl_q' = "M"
    /\ Save
    /\ UNCHANGED <<sync_exc_seen, debug_mode_q, dcsr, depc>>

EnterDebug ==
    /\ ~debug_mode_q
    /\ event' = [NoEvent EXCEPT !.trap = "debug"]
    /\ pc' = Vector["debug"]
    /\ depc' = pc
    /\ dcsr' = [dcsr EXCEPT !.prv = priv_lvl_q]
    /\ debug_mode_q' = TRUE
    /\ priv_lvl_q' = "M"
    /\ UNCHANGED <<mstatus, mepc, mstack, sync_exc_seen, nmi_mode_q>>

(* EBREAK in debug mode. *)
ReenterDebug ==
    /\ debug_mode_q
    /\ event' = [NoEvent EXCEPT !.trap = "redebug"]
    /\ pc' = Vector["debug"]
    /\ UNCHANGED csrs

Quiet == event' = NoEvent /\ UNCHANGED <<pc, csrs>>

(* A debugger that steps gets control back after one instruction. *)
Step ==
    LET stepping == Stepping(dcsr, debug_mode_q)
    IN  /\ stepped => ~Stepped(event')
        /\ stepping => ~(event'.mem /\ event'.retired # NoInstr)
        /\ stepped' = (stepping /\ (stepped \/ Stepped(event')))

Next ==
    /\ \/ Retire \/ Mret \/ Dret \/ Exception \/ Interrupt
       \/ EnterDebug \/ ReenterDebug \/ Quiet
    /\ Step

Safety == Init /\ [][Next]_vars
=============================================================================
