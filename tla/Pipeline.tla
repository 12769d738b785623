------------------------------ MODULE Pipeline ------------------------------
(***************************************************************************)
(* The control of the core: the IF-ID register, the ID stage with its      *)
(* state machine and stalls (ibex_id_stage.sv), the write-back stage       *)
(* (ibex_wb_stage.sv), the controller (ibex_controller.sv) and the CSRs    *)
(* that traps save and restore (ibex_cs_registers.sv).  One step is one    *)
(* clock edge; the inputs of a cycle are the record in.                    *)
(*                                                                         *)
(* The instruction fetch is FetchStream: pc_if is the address it delivers  *)
(* next.  The execution unit is ExecAbs and the load/store unit MemAccess: *)
(* of a cycle they say only whether they are done, and with what error.    *)
(* Branch predictor, triggers, dummy instructions and the PMP are off, as  *)
(* in the system that is built.                                            *)
(***************************************************************************)
EXTENDS Isa

CONSTANTS
    WritebackStage,     \* third pipeline stage
    BranchTargetALU,    \* adder of its own for branch targets
    DataIndTiming,      \* CSR bit data_ind_timing_i: branches take two cycles
    Irqs, Nmis, DebugReqs  \* the levels irq_pending_i, irq_nm_ext_i, debug_req_i take

ASSUME ParameterAssumption ==
    /\ {WritebackStage, BranchTargetALU, DataIndTiming} \subseteq BOOLEAN
    /\ Irqs \subseteq BOOLEAN /\ Nmis \subseteq BOOLEAN /\ DebugReqs \subseteq BOOLEAN

VARIABLES
    ctrl_fsm_cs,               \* state of the controller
    nmi_mode_q, debug_mode_q,
    do_single_step_q, enter_debug_mode_prio_q,
    load_err_q, store_err_q, exc_req_q,
    intg_pending,              \* load_intg_err_irq_pending_q
    pc_if,                     \* next instruction of the fetch
    instr_id, pc_id,           \* IF-ID register; NoInstr when not valid
    id_fsm_q,                  \* state of the ID stage
    branch_set_raw_q, branch_jump_set_done_q,
    wb, pc_wb,                 \* type and address of the instruction in write-back
    priv_lvl_q, mstatus, mepc, mstack, dcsr, depc,
    sync_exc_seen,             \* of cpuctrlsts
    event,                     \* what this cycle did to the program (ghost)
    stepped                    \* has it done so since the debugger let it step? (ghost)

ctrl  == <<ctrl_fsm_cs, nmi_mode_q, debug_mode_q, do_single_step_q,
           enter_debug_mode_prio_q, load_err_q, store_err_q, exc_req_q, intg_pending>>
front == <<pc_if, instr_id, pc_id>>
idwb  == <<id_fsm_q, branch_set_raw_q, branch_jump_set_done_q, wb, pc_wb>>
trap  == <<mstatus, mepc, mstack, sync_exc_seen>>
csrs  == <<priv_lvl_q, trap, dcsr, depc>>
vars  == <<ctrl, front, idwb, csrs, event, stepped>>

States == {"RESET", "BOOT_SET", "WAIT_SLEEP", "SLEEP", "FIRST_FETCH", "DECODE",
           "FLUSH", "IRQ_TAKEN", "DBG_TAKEN_IF", "DBG_TAKEN_ID"}

instr_valid == instr_id # NoInstr
IsMem       == instr_id.op \in MemOps
FirstCycle  == id_fsm_q = "FIRST_CYCLE"

-----------------------------------------------------------------------------
(***************************************************************************)
(* Inputs of a cycle.  fetch: an instruction is there; irq, nmi, dbg: the  *)
(* levels of the request lines; ex: ex_valid_i; lsu: lsu_req_done_i if a   *)
(* request is made; resp: the response of the load/store unit, "half" an   *)
(* integrity error of the first word of a misaligned load.  junk: what the *)
(* ALU's adder holds while it compares the operands of a branch.           *)
(***************************************************************************)
AccessInWb == wb \in MemOps
AccessInId == IsMem /\ ~FirstCycle

Answers(op) == IF op = "LOAD" THEN {"none", "ok", "err", "intg"} ELSE {"none", "ok", "err"}
Half        == IF instr_id.op = "LOAD" THEN {"half"} ELSE {}

Responses ==
    CASE WritebackStage /\ AccessInWb -> Answers(wb)
      [] WritebackStage /\ ~AccessInWb /\ AccessInId -> {"none"} \cup Half
      [] ~WritebackStage /\ AccessInId -> Answers(instr_id.op) \cup Half
      [] OTHER -> {"none"}

Input ==
    [fetch : BOOLEAN, irq : Irqs, nmi : Nmis, dbg : DebugReqs,
     ex   : IF instr_id.op = "MULDIV" THEN BOOLEAN ELSE {TRUE},
     lsu  : IF WritebackStage /\ IsMem THEN BOOLEAN ELSE {FALSE},
     resp : Responses,
     junk : IF WritebackStage /\ ~BranchTargetALU /\ branch_set_raw_q /\ FirstCycle
            THEN Pc ELSE {0}]

lsu_resp_valid(in) == in.resp \in {"ok", "err", "intg"}
lsu_err(in)        == in.resp = "err"
load_intg_err(in)  == in.resp \in {"intg", "half"}

-----------------------------------------------------------------------------
(* The write-back stage. *)
ready_wb(in) == wb = "NONE" \/ lsu_resp_valid(in)

outstanding_memory_access(in) == AccessInWb /\ ~lsu_resp_valid(in)

wb_exception(in) == WritebackStage /\ (load_err_q \/ store_err_q \/ lsu_err(in))

(***************************************************************************)
(* The ID stage.  The next cycles of an instruction follow from whether it *)
(* is executing, and whether it is as far as is known before the response  *)
(* of this cycle (instr_executing_spec).                                   *)
(***************************************************************************)
illegal_insn == IllegalInsn(instr_id, priv_lvl_q, debug_mode_q)

(* exc_req_d *)
id_exception ==
    /\ instr_id.op \in {"ECALL", "EBREAK", "FETCH_ERR"} \/ illegal_insn
    /\ ctrl_fsm_cs # "FLUSH"

stall_ld_hz == wb = "LOAD" /\ instr_id.dep

instr_executing_spec ==
    instr_valid /\ instr_id.op # "FETCH_ERR" /\ ctrl_fsm_cs = "DECODE" /\ ~stall_ld_hz

instr_executing(in) ==
    /\ instr_executing_spec
    /\ WritebackStage => /\ ~wb_exception(in) /\ ~id_exception
                         /\ ~outstanding_memory_access(in)

lsu_req_done(in) == in.lsu /\ instr_executing(in)

(* Mutant of stall_mem: an access stalls for its request only. *)
StallForRequest(in) == IsMem /\ FirstCycle

stall_mem(in) ==
    IF WritebackStage
    THEN instr_valid /\ (outstanding_memory_access(in) \/ (IsMem /\ ~lsu_req_done(in)))
    ELSE IsMem /\ (~lsu_resp_valid(in) \/ FirstCycle)

multicycle_done(in) ==
    CASE ~IsMem -> in.ex
      [] IsMem /\ WritebackStage -> ~stall_mem(in)
      [] IsMem /\ ~WritebackStage -> lsu_resp_valid(in)

(* Does an instruction other than an access need a second cycle? *)
SecondCycle(in) ==
    \/ instr_id.op = "MULDIV" /\ ~in.ex
    \/ instr_id.op = "BRANCH" /\ (DataIndTiming \/ (~BranchTargetALU /\ instr_id.taken))
    \/ instr_id.op = "JUMP" /\ ~BranchTargetALU

(* id_fsm_q stays when the instruction is not executing. *)
NextIdFsm(in) ==
    CASE ~instr_executing(in) -> id_fsm_q
      [] instr_executing(in) /\ FirstCycle ->
           IF (IF IsMem THEN ~(WritebackStage /\ lsu_req_done(in)) ELSE SecondCycle(in))
           THEN "MULTI_CYCLE" ELSE "FIRST_CYCLE"
      [] instr_executing(in) /\ ~FirstCycle ->
           IF multicycle_done(in) /\ ready_wb(in) THEN "FIRST_CYCLE" ELSE "MULTI_CYCLE"

(* stall_multdiv, stall_jump, stall_branch *)
StallMultiCycle(in) ==
    /\ instr_executing_spec
    /\ instr_id.op \in {"MULDIV", "BRANCH", "JUMP"}
    /\ IF FirstCycle THEN SecondCycle(in) ELSE ~(multicycle_done(in) /\ ready_wb(in))

(* Mutant of stall_id: multi-cycle instructions do not stall. *)
StallForMemory(in) == stall_ld_hz \/ stall_mem(in)

stall_id(in) == stall_ld_hz \/ stall_mem(in) \/ StallMultiCycle(in)

(* In DECODE, where flush_id is low; elsewhere nothing executes. *)
instr_done(in) == ~stall_id(in) /\ instr_executing(in)

stall(in) == stall_id(in) \/ (instr_done(in) /\ ~ready_wb(in))

csr_op_en(in) == instr_id.op \in CsrOps /\ instr_done(in) /\ ready_wb(in)

(* Setting bits of mstatus flushes, as clearing bits of dcsr does. *)
(* Mutant of FlushOps: enabling interrupts does not flush. *)
FlushDebugOps == {"DCSR_CLR"}

FlushOps == {"MIE_SET", "DCSR_CLR"}
csr_pipe_flush(in) == csr_op_en(in) /\ instr_id.op \in FlushOps

branch_set_raw_d ==
    /\ instr_executing_spec /\ FirstCycle
    /\ instr_id.op = "BRANCH" /\ (instr_id.taken \/ DataIndTiming)

branch_set_raw == IF BranchTargetALU /\ ~DataIndTiming THEN branch_set_raw_d
                                                        ELSE branch_set_raw_q

jump_set_raw == instr_executing_spec /\ FirstCycle /\ instr_id.op = "JUMP"

(* Mutant of jump_or_branch_set: a jump sets the PC as long as it is in its first cycle. *)
SetEveryCycle == branch_set_raw \/ jump_set_raw

(* branch_set, jump_set *)
jump_or_branch_set == (branch_set_raw \/ jump_set_raw) /\ ~branch_jump_set_done_q

(***************************************************************************)
(* Without an adder of its own, a branch target is computed in the second  *)
(* cycle, after the comparison.                                            *)
(***************************************************************************)
branch_target(in) ==
    IF instr_id.op = "BRANCH" /\ ~BranchTargetALU /\ FirstCycle
    THEN in.junk ELSE NextPc(instr_id, pc_id)

-----------------------------------------------------------------------------
(* The controller. *)
irq_nm(in) == in.nmi \/ intg_pending \/ load_intg_err(in)

(* Mutant of handle_irq: interrupts are not masked in the handler of an NMI. *)
HandleInNmi(in) == ~debug_mode_q /\ (irq_nm(in) \/ (in.irq /\ mstatus.mie))

handle_irq(in) ==
    ~debug_mode_q /\ ~nmi_mode_q /\ (irq_nm(in) \/ (in.irq /\ mstatus.mie))

(* Mutant of do_single_step_d: forgotten when the instruction has left ID. *)
SingleStepForgotten == instr_valid /\ ~debug_mode_q /\ "step" \in dcsr.on

do_single_step_d ==
    IF instr_valid THEN ~debug_mode_q /\ "step" \in dcsr.on ELSE do_single_step_q

(* enter_debug_mode, enter_debug_mode_prio_d *)
enter_debug_mode(in) == (in.dbg \/ do_single_step_d) /\ ~debug_mode_q

ebreak_into_debug == (IF priv_lvl_q = "M" THEN "ebreakm" ELSE "ebreaku") \in dcsr.on

(* EBREAK with nothing of higher priority: ebrk_insn_prio in FLUSH. *)
EbreakTaken == instr_id.op = "EBREAK" /\ ~load_err_q /\ ~store_err_q

special_req_pc_change(in) ==
    instr_id.op \in {"MRET", "DRET"} \/ id_exception \/ lsu_err(in)

special_req(in) ==
    special_req_pc_change(in) \/ instr_id.op = "WFI" \/ csr_pipe_flush(in)

id_wb_pending(in) == instr_valid \/ ~ready_wb(in)

(***************************************************************************)
(* The registers of the controller that are written in every state.        *)
(* entering: the handler of an NMI is entered in this cycle.               *)
(***************************************************************************)
Requests(in, entering) ==
    /\ do_single_step_q' = do_single_step_d
    /\ enter_debug_mode_prio_q' = enter_debug_mode(in)
    /\ exc_req_q' = id_exception
    /\ \/ ~lsu_err(in) /\ load_err_q' = FALSE /\ store_err_q' = FALSE
       \/ /\ lsu_err(in)
          /\ LET op == IF WritebackStage THEN wb ELSE instr_id.op
             IN  load_err_q' = (op = "LOAD") /\ store_err_q' = (op = "STORE")
    /\ intg_pending' = IF intg_pending THEN ~(entering /\ ~in.nmi) ELSE load_intg_err(in)

(***************************************************************************)
(* The IF-ID register: an instruction is taken when the ID stage is ready, *)
(* but squashed when the PC is set in the same cycle.                      *)
(***************************************************************************)
Advance(in, ready, clear, pc_set, addr) ==
    LET new == in.fetch /\ ready
    IN  /\ pc_if' = IF pc_set THEN addr ELSE IF new THEN Succ(pc_if) ELSE pc_if
        /\ pc_id' = IF new THEN pc_if ELSE pc_id
        /\ branch_jump_set_done_q' =
               ((branch_set_raw \/ jump_set_raw \/ branch_jump_set_done_q) /\ ~clear)
        /\ branch_set_raw_q' = branch_set_raw_d
        /\ \/ new /\ ~pc_set /\ instr_id' \in Instrs
           \/ ~(new /\ ~pc_set) /\ instr_id' = IF clear THEN NoInstr ELSE instr_id

(* An instruction that is done passes to write-back, which keeps an access *)
(* until it is answered.                                                   *)
WriteBack(in) ==
    LET passes == WritebackStage /\ instr_done(in)
    IN  /\ wb' = CASE ~ready_wb(in) -> wb
                   [] ready_wb(in) /\ passes /\ IsMem -> instr_id.op
                   [] OTHER -> "NONE"
        /\ pc_wb' = IF passes THEN pc_id ELSE pc_wb

(* Outside DECODE nothing executes. *)
Still(in) == WriteBack(in) /\ UNCHANGED id_fsm_q

KeepPc(in, ready, clear) == Advance(in, ready, clear, FALSE, 0)
SetPc(in, ready, addr)   == Advance(in, ready, TRUE, TRUE, addr)

(* csr_save_cause_o with the address of the instruction that did not retire. *)
SaveTrap(pc) ==
    /\ mepc' = pc
    /\ mstatus' = [mie |-> FALSE, mpie |-> mstatus.mie, mpp |-> priv_lvl_q]
    /\ mstack' = [mpie |-> mstatus.mpie, mpp |-> mstatus.mpp, epc |-> mepc]

-----------------------------------------------------------------------------
Init ==
    /\ ctrl_fsm_cs = "RESET"
    /\ nmi_mode_q = FALSE /\ debug_mode_q = FALSE
    /\ do_single_step_q = FALSE /\ enter_debug_mode_prio_q = FALSE
    /\ load_err_q = FALSE /\ store_err_q = FALSE /\ exc_req_q = FALSE
    /\ intg_pending = FALSE
    /\ pc_if \in Pc /\ pc_id \in Pc /\ pc_wb \in Pc
    /\ instr_id = NoInstr
    /\ id_fsm_q = "FIRST_CYCLE"
    /\ branch_set_raw_q = FALSE /\ branch_jump_set_done_q = FALSE
    /\ wb = "NONE"
    /\ priv_lvl_q = "M"
    /\ mstatus = [mie |-> FALSE, mpie |-> TRUE, mpp |-> "U"]
    /\ mepc = 0
    /\ mstack = [mpie |-> TRUE, mpp |-> "U", epc |-> 0]
    /\ dcsr = [on |-> {}, prv |-> "M"]
    /\ depc = 0 /\ sync_exc_seen = FALSE
    /\ event = NoEvent /\ stepped = FALSE

(* RESET, BOOT_SET: the fetch starts at the boot address. *)
Boot(in) ==
    /\ \/ ctrl_fsm_cs = "RESET" /\ ctrl_fsm_cs' = "BOOT_SET"
       \/ ctrl_fsm_cs = "BOOT_SET" /\ ctrl_fsm_cs' = "FIRST_FETCH"
    /\ SetPc(in, TRUE, Vector["boot"])
    /\ Requests(in, FALSE)
    /\ event' = NoEvent
    /\ Still(in) /\ UNCHANGED <<nmi_mode_q, debug_mode_q, csrs>>

(* WAIT_SLEEP, SLEEP: IF halted and ID flushed until something is pending. *)
(* Mutant of Wakes: only an interrupt that will be taken wakes the core. *)
WakesEnabled(in) == handle_irq(in) \/ in.dbg \/ debug_mode_q \/ "step" \in dcsr.on

Wakes(in) ==
    irq_nm(in) \/ in.irq \/ in.dbg \/ debug_mode_q \/ "step" \in dcsr.on

Sleep(in) ==
    /\ \/ ctrl_fsm_cs = "WAIT_SLEEP" /\ ctrl_fsm_cs' = "SLEEP"
       \/ /\ ctrl_fsm_cs = "SLEEP"
          /\ ctrl_fsm_cs' = IF Wakes(in) THEN "FIRST_FETCH" ELSE "SLEEP"
    /\ KeepPc(in, FALSE, TRUE)
    /\ Requests(in, FALSE)
    /\ event' = NoEvent
    /\ Still(in) /\ UNCHANGED <<nmi_mode_q, debug_mode_q, csrs>>

FirstFetch(in) ==
    LET halt_if == enter_debug_mode(in) \/ handle_irq(in)
    IN  /\ ctrl_fsm_cs = "FIRST_FETCH"
        /\ ctrl_fsm_cs' = CASE enter_debug_mode(in) -> "DBG_TAKEN_IF"
                            [] ~enter_debug_mode(in) /\ handle_irq(in) -> "IRQ_TAKEN"
                            [] ~halt_if /\ ~stall(in) -> "DECODE"
                            [] OTHER -> "FIRST_FETCH"
        /\ Requests(in, FALSE)
        /\ event' = NoEvent
        /\ Still(in) /\ UNCHANGED <<nmi_mode_q, debug_mode_q, csrs>>
        /\ KeepPc(in, ~stall(in) /\ ~halt_if, ~stall(in))

-----------------------------------------------------------------------------
(***************************************************************************)
(* DECODE.  Instructions that only leave through FLUSH retire there; an    *)
(* access retires with its response.                                       *)
(***************************************************************************)
RetiresInDecode(in) ==
    /\ instr_done(in)
    /\ ~id_exception /\ ~lsu_err(in)
    /\ instr_id.op \notin {"MRET", "DRET", "WFI"} \cup MemOps

DecodeEvent(in) ==
    [mem     |-> lsu_resp_valid(in) /\ ~lsu_err(in),
     retired |-> IF RetiresInDecode(in) THEN instr_id ELSE NoInstr,
     trap    |-> "none"]

WriteCsrs(in) ==
    LET i == IF csr_op_en(in) /\ ~illegal_insn THEN instr_id ELSE NoInstr
    IN  /\ mstatus' = [mstatus EXCEPT !.mie = MieAfter(i, @)]
        /\ dcsr' = [dcsr EXCEPT !.on = DcsrAfter(i, @)]
        /\ sync_exc_seen' = SeenAfter(i, sync_exc_seen)
        /\ UNCHANGED <<priv_lvl_q, mepc, mstack, depc>>

LeavesToFlush(in) == special_req(in) /\ (ready_wb(in) \/ wb_exception(in))

AtRest(in) == ~stall(in) /\ ~special_req(in) /\ ~id_wb_pending(in)

NextInDecode(in) ==
    CASE LeavesToFlush(in) -> "FLUSH"
      [] AtRest(in) /\ enter_debug_mode(in) -> "DBG_TAKEN_IF"
      [] AtRest(in) /\ ~enter_debug_mode(in) /\ handle_irq(in) -> "IRQ_TAKEN"
      [] OTHER -> "DECODE"

halt_if(in) ==
    /\ enter_debug_mode(in) \/ handle_irq(in)
    /\ stall(in) \/ id_wb_pending(in) \/ AtRest(in)

id_in_ready(in) == ~stall(in) /\ ~halt_if(in) /\ ~special_req(in)

Decode(in) ==
    /\ ctrl_fsm_cs = "DECODE"
    /\ ctrl_fsm_cs' = NextInDecode(in)
    /\ id_fsm_q' = NextIdFsm(in)
    /\ WriteBack(in)
    /\ WriteCsrs(in)
    /\ Requests(in, FALSE)
    /\ event' = DecodeEvent(in)
    /\ Advance(in, id_in_ready(in), ~stall(in) /\ ~special_req(in),
               jump_or_branch_set, branch_target(in))
    /\ UNCHANGED <<nmi_mode_q, debug_mode_q>>

-----------------------------------------------------------------------------
(* The interrupt may have gone in between: then nothing happens. *)
IrqTaken(in) ==
    /\ ctrl_fsm_cs = "IRQ_TAKEN"
    /\ ctrl_fsm_cs' = "DECODE"
    /\ IF handle_irq(in)
       THEN LET line == IF irq_nm(in) THEN "nmi" ELSE "irq"
            IN  /\ SetPc(in, ~stall(in), Vector[line])
                /\ SaveTrap(pc_if)
                /\ priv_lvl_q' = "M"
                /\ nmi_mode_q' = (line = "nmi")
                /\ Requests(in, line = "nmi")
                /\ event' = [NoEvent EXCEPT !.trap = line]
       ELSE /\ KeepPc(in, ~stall(in), ~stall(in))
            /\ Requests(in, FALSE)
            /\ event' = NoEvent
            /\ UNCHANGED <<nmi_mode_q, priv_lvl_q, mstatus, mepc, mstack>>
    /\ Still(in) /\ UNCHANGED <<sync_exc_seen, debug_mode_q, dcsr, depc>>

EnterDebugAt(pc) ==
    /\ depc' = pc
    /\ dcsr' = [dcsr EXCEPT !.prv = priv_lvl_q]
    /\ priv_lvl_q' = "M"
    /\ event' = [NoEvent EXCEPT !.trap = "debug"]

DbgTakenIf(in) ==
    /\ ctrl_fsm_cs = "DBG_TAKEN_IF"
    /\ ctrl_fsm_cs' = "DECODE"
    /\ SetPc(in, ~stall(in), Vector["debug"])
    /\ EnterDebugAt(pc_if)
    /\ debug_mode_q' = TRUE
    /\ Requests(in, FALSE)
    /\ Still(in) /\ UNCHANGED <<nmi_mode_q, trap>>

(* EBREAK: in debug mode nothing is saved. *)
DbgTakenId(in) ==
    /\ ctrl_fsm_cs = "DBG_TAKEN_ID"
    /\ ctrl_fsm_cs' = "DECODE"
    /\ SetPc(in, ~stall(in), Vector["debug"])
    /\ IF ebreak_into_debug /\ ~debug_mode_q
       THEN EnterDebugAt(pc_id)
       ELSE /\ event' = [NoEvent EXCEPT !.trap = "redebug"]
            /\ UNCHANGED <<depc, dcsr, priv_lvl_q>>
    /\ debug_mode_q' = TRUE
    /\ Requests(in, FALSE)
    /\ Still(in) /\ UNCHANGED <<nmi_mode_q, trap>>

-----------------------------------------------------------------------------
(***************************************************************************)
(* FLUSH.  A request to enter debug mode of the cycle before comes after   *)
(* the trap or return, so that it saves the address that one set.          *)
(***************************************************************************)
ExcInFlush == exc_req_q \/ load_err_q \/ store_err_q

EbreakToDebug == ExcInFlush /\ EbreakTaken /\ (debug_mode_q \/ ebreak_into_debug)

AfterFlush(otherwise) ==
    IF enter_debug_mode_prio_q /\ ~(ExcInFlush /\ EbreakTaken /\ ebreak_into_debug)
    THEN "DBG_TAKEN_IF" ELSE otherwise

ExceptionPc == IF WritebackStage /\ (load_err_q \/ store_err_q) THEN pc_wb ELSE pc_id

FlushException(in) ==
    /\ ctrl_fsm_cs = "FLUSH" /\ ExcInFlush /\ ~EbreakToDebug
    /\ ctrl_fsm_cs' = AfterFlush("DECODE")
    /\ SetPc(in, FALSE, Vector[IF debug_mode_q THEN "debug_exc" ELSE "exc"])
    /\ IF debug_mode_q
       THEN event' = [NoEvent EXCEPT !.trap = "exc"] /\ UNCHANGED trap
       ELSE /\ event' = [NoEvent EXCEPT !.trap = Fault(sync_exc_seen)]
            /\ SaveTrap(ExceptionPc)
            /\ sync_exc_seen' = TRUE
    /\ priv_lvl_q' = "M"
    /\ Requests(in, FALSE)
    /\ Still(in) /\ UNCHANGED <<nmi_mode_q, debug_mode_q, dcsr, depc>>

FlushEbreak(in) ==
    /\ ctrl_fsm_cs = "FLUSH" /\ EbreakToDebug
    /\ ctrl_fsm_cs' = AfterFlush("DBG_TAKEN_ID")
    /\ KeepPc(in, FALSE, ~stall(in))
    /\ Requests(in, FALSE)
    /\ event' = NoEvent
    /\ Still(in) /\ UNCHANGED <<nmi_mode_q, debug_mode_q, csrs>>

FlushMret(in) ==
    /\ ctrl_fsm_cs = "FLUSH" /\ ~ExcInFlush /\ instr_id.op = "MRET"
    /\ ctrl_fsm_cs' = AfterFlush("DECODE")
    /\ SetPc(in, FALSE, mepc)
    /\ priv_lvl_q' = mstatus.mpp
    /\ IF nmi_mode_q
       THEN /\ mstatus' = [mie |-> mstatus.mpie, mpie |-> mstack.mpie, mpp |-> mstack.mpp]
            /\ mepc' = mstack.epc
       ELSE /\ mstatus' = [mie |-> mstatus.mpie, mpie |-> TRUE, mpp |-> "U"]
            /\ UNCHANGED mepc
    /\ nmi_mode_q' = FALSE /\ sync_exc_seen' = FALSE
    /\ Requests(in, FALSE)
    /\ event' = [NoEvent EXCEPT !.retired = instr_id]
    /\ Still(in) /\ UNCHANGED <<debug_mode_q, mstack, dcsr, depc>>

FlushDret(in) ==
    /\ ctrl_fsm_cs = "FLUSH" /\ ~ExcInFlush /\ instr_id.op = "DRET"
    /\ ctrl_fsm_cs' = AfterFlush("DECODE")
    /\ SetPc(in, FALSE, depc)
    /\ priv_lvl_q' = dcsr.prv
    /\ debug_mode_q' = FALSE
    /\ Requests(in, FALSE)
    /\ event' = [NoEvent EXCEPT !.retired = instr_id]
    /\ Still(in) /\ UNCHANGED <<nmi_mode_q, trap, dcsr, depc>>

(***************************************************************************)
(* WFI, and the CSR instructions that flush and have retired in DECODE.    *)
(* (The branch that would take an interrupt here is never taken:           *)
(* csr_pipe_flush needs an executing instruction.)                         *)
(***************************************************************************)
FlushOnly(in) ==
    /\ ctrl_fsm_cs = "FLUSH" /\ ~ExcInFlush /\ instr_id.op \notin {"MRET", "DRET"}
    /\ ctrl_fsm_cs' = AfterFlush(IF instr_id.op = "WFI" THEN "WAIT_SLEEP" ELSE "DECODE")
    /\ KeepPc(in, FALSE, TRUE)
    /\ Requests(in, FALSE)
    /\ event' = IF instr_id.op = "WFI" THEN [NoEvent EXCEPT !.retired = instr_id]
                                       ELSE NoEvent
    /\ Still(in) /\ UNCHANGED <<nmi_mode_q, debug_mode_q, csrs>>

-----------------------------------------------------------------------------
Cycle(in) ==
    /\ \/ Boot(in) \/ Sleep(in) \/ FirstFetch(in) \/ Decode(in)
       \/ IrqTaken(in) \/ DbgTakenIf(in) \/ DbgTakenId(in)
       \/ FlushException(in) \/ FlushEbreak(in) \/ FlushMret(in) \/ FlushDret(in)
       \/ FlushOnly(in)
    /\ stepped' = (Stepping(dcsr, debug_mode_q) /\ (stepped \/ Stepped(event')))

Next == \E in \in Input : Cycle(in)

Safety == Init /\ [][Next]_vars

(***************************************************************************)
(* The clock runs; execution units and memory answer; the fetch keeps an   *)
(* instruction it has until ID takes it.                                   *)
(***************************************************************************)
Fairness ==
    /\ WF_vars(Next)
    /\ WF_vars(\E in \in Input : in.ex /\ Cycle(in))
    /\ WF_vars(\E in \in Input : in.lsu /\ Cycle(in))
    /\ WF_vars(\E in \in Input : in.resp # "none" /\ Cycle(in))
    /\ SF_vars(\E in \in Input : in.fetch /\ Cycle(in) /\ instr_id' # NoInstr)

Spec == Safety /\ Fairness

-----------------------------------------------------------------------------
Levels == {"M", "U"}

TypeOK ==
    /\ ctrl_fsm_cs \in States
    /\ {nmi_mode_q, debug_mode_q, do_single_step_q, enter_debug_mode_prio_q,
        load_err_q, store_err_q, exc_req_q, intg_pending, branch_set_raw_q,
        branch_jump_set_done_q, sync_exc_seen} \subseteq BOOLEAN
    /\ {pc_if, pc_id, pc_wb, mepc, depc} \subseteq Pc
    /\ instr_id \in Instrs \cup {NoInstr}
    /\ id_fsm_q \in {"FIRST_CYCLE", "MULTI_CYCLE"}
    /\ wb \in {"NONE"} \cup MemOps
    /\ priv_lvl_q \in Levels
    /\ mstatus \in [mie : BOOLEAN, mpie : BOOLEAN, mpp : Levels]
    /\ mstack \in [mpie : BOOLEAN, mpp : Levels, epc : Pc]
    /\ dcsr \in [on : SUBSET DcsrBits, prv : Levels]
    /\ event \in Event /\ stepped \in BOOLEAN

(***************************************************************************)
(* The first instruction that has not retired: in write-back while it may  *)
(* still fail, in ID unless it only waits there for the flush, or the next *)
(* of the fetch.                                                           *)
(***************************************************************************)
FlushingRetired ==
    ctrl_fsm_cs = "FLUSH" /\ ~ExcInFlush /\ instr_id.op \in FlushOps

ArchPc ==
    CASE ctrl_fsm_cs \in {"RESET", "BOOT_SET"} -> Vector["boot"]
      [] WritebackStage /\ (AccessInWb \/ load_err_q \/ store_err_q) -> pc_wb
      [] ~(WritebackStage /\ (AccessInWb \/ load_err_q \/ store_err_q))
           /\ ((instr_valid /\ ~FlushingRetired) \/ ctrl_fsm_cs = "DBG_TAKEN_ID") -> pc_id
      [] OTHER -> pc_if

(***************************************************************************)
(* Precise traps: whatever the fetch, the execution units, the memory and  *)
(* the request lines do, instructions retire in order and once, and every  *)
(* exception, interrupt and debug entry saves the address of the first one *)
(* that did not.  While a debugger steps, nothing but the entry to debug   *)
(* mode follows an instruction that retired or trapped                     *)
(* (ibex_controller.sv, ibex_id_stage.sv).                                 *)
(***************************************************************************)
Hart == INSTANCE Hart WITH pc <- ArchPc
PreciseTraps == Hart!Safety

(***************************************************************************)
(* Outside DECODE nothing is in flight: the controller leaves it only when *)
(* no access is outstanding, takes interrupts and debug requests with an   *)
(* empty ID stage, and an instruction in ID is in its first cycle.         *)
(***************************************************************************)
AtRestOutsideDecode ==
    /\ AccessInWb => ctrl_fsm_cs = "DECODE"
    /\ ctrl_fsm_cs # "DECODE" => FirstCycle
    /\ instr_valid => ctrl_fsm_cs \in {"DECODE", "FLUSH"}

PipelineInv == TypeOK /\ AtRestOutsideDecode

(***************************************************************************)
(* An access whose request was made is never abandoned: it is waited for   *)
(* until it completes or fails, whatever is requested meanwhile.  (An      *)
(* access given up would be made twice, after the return from the trap.)   *)
(***************************************************************************)
AccessInFlight == AccessInWb \/ (instr_valid /\ AccessInId)

NoAbandonedAccess ==
    [][AccessInFlight /\ ~AccessInFlight' =>
          event'.mem \/ load_err_q' \/ store_err_q']_vars

(***************************************************************************)
(* "Holding branch_set/jump_set high for more than one cycle" is ensured   *)
(* "never" to happen, although a branch behind an access may wait in its   *)
(* first cycle (ibex_id_stage.sv, NeverDoubleBranch, NeverDoubleJump).     *)
(***************************************************************************)
NeverDoubleSet == [][jump_or_branch_set => ~jump_or_branch_set']_vars

(***************************************************************************)
(* An interrupt that is pending when interrupts are enabled is taken       *)
(* before another instruction retires, even one that disables them again   *)
(* (ibex_id_stage.sv, csr_pipeline_flushes).  For a line that stays up.    *)
(***************************************************************************)
EnablingIsSeen ==
    [][(Irqs = {TRUE} /\ mstatus.mie /\ ~debug_mode_q /\ ~nmi_mode_q)
          => event'.retired = NoInstr /\ ~event'.mem]_vars

(***************************************************************************)
(* No combination of stalls, flushes and waits stops the pipeline for      *)
(* good: again and again an access completes, an instruction retires or a  *)
(* trap is taken.  For an interrupt line that stays up, which ends sleep.  *)
(***************************************************************************)
Progress == []<>(event # NoEvent)

(***************************************************************************)
(* "Interrupts always disabled during single stepping"                     *)
(* (ibex_cs_registers.sv, dcsr.stepie).                                    *)
(***************************************************************************)
NoInterruptWhileStepping ==
    [][event'.trap = "irq" => "step" \notin dcsr.on]_vars

(***************************************************************************)
(* Without an adder for branch targets, a branch sets the PC in "the next  *)
(* cycle where branch target is calculated" (ibex_id_stage.sv,             *)
(* g_branch_set_flop), which is its second.                                *)
(***************************************************************************)
BranchSetWithTarget ==
    (ctrl_fsm_cs = "DECODE" /\ branch_set_raw /\ ~branch_jump_set_done_q)
        => BranchTargetALU \/ ~FirstCycle
=============================================================================
