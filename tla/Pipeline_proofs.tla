-------------------------- MODULE Pipeline_proofs --------------------------
(***************************************************************************)
(* The pipeline for every program, both numbers of stages, with and        *)
(* without an adder for branch targets, and whatever the fetch, the        *)
(* execution units, the memory and the request lines do.                   *)
(*                                                                         *)
(* IInv, what is in flight, rests on the ID stage: an instruction that     *)
(* takes more cycles has nothing before it in write-back, so that no error *)
(* of an older access can send the controller away while it is under way,  *)
(* and an error is remembered only for the FLUSH that follows.             *)
(*                                                                         *)
(* PreciseInv adds the order of the stages, what FLUSH knows of the        *)
(* instruction it finds, and what single stepping holds back; with it      *)
(* every step of the pipeline is a step of Hart, the program executed one  *)
(* instruction after the other.                                            *)
(***************************************************************************)
EXTENDS Pipeline, TLAPS

MultiOps == {"MULDIV", "BRANCH", "JUMP"} \cup MemOps

Flight ==
    /\ ~WritebackStage => wb = "NONE"
    /\ load_err_q \/ store_err_q => ctrl_fsm_cs = "FLUSH"
    /\ ~FirstCycle => instr_id.op \in MultiOps /\ wb = "NONE"
    /\ branch_set_raw_q => ctrl_fsm_cs \in {"DECODE", "FLUSH"}

IInv == TypeOK /\ AtRestOutsideDecode /\ Flight

-----------------------------------------------------------------------------
LEMMA SuccInPc == ASSUME NEW p \in Pc PROVE Succ(p) \in Pc
<1>1. NPc \in Nat /\ NPc > 0 /\ p \in Nat
  BY AddressAssumption DEF Pc
<1> DEFINE s == p + 1
<1>2. s \in Nat
  BY <1>1
<1> HIDE DEF s
<1>3. s % NPc \in 0..(NPc - 1)
  BY <1>1, <1>2
<1> QED
  BY <1>3 DEF s, Succ, Pc

LEMMA Zero == 0 \in Pc
  BY AddressAssumption DEF Pc

LEMMA Instructions ==
    /\ Instrs \subseteq Instr
    /\ NoInstr.op = "NONE" /\ ~NoInstr.dep
    /\ \A i \in Instrs : /\ i.op \in Ops /\ i.target \in Pc /\ i.mask \subseteq DcsrBits
                         /\ i # NoInstr
<1>1. NoInstr.op = "NONE" /\ ~NoInstr.dep
  BY DEF NoInstr
<1>2. "NONE" \notin Ops
  BY DEF Ops, MemOps, CsrOps, MieOps, DcsrOps
<1>3. \A i \in Instr : i.op \in Ops /\ i.target \in Pc /\ i.mask \subseteq DcsrBits
  BY DEF Instr
<1> QED
  BY <1>1, <1>2, <1>3, InstrsAssumption

LEMMA NextPcInPc ==
    ASSUME NEW i \in Instrs \cup {NoInstr}, NEW p \in Pc
    PROVE  NextPc(i, p) \in Pc
<1>1. i.op \in {"JUMP", "BRANCH"} => i.target \in Pc
  BY Instructions
<1> QED
  BY <1>1, SuccInPc DEF NextPc

(* What the inputs of a cycle can be. *)
LEMMA Inputs ==
    ASSUME NEW in \in Input
    PROVE  /\ in.fetch \in BOOLEAN /\ in.irq \in BOOLEAN /\ in.nmi \in BOOLEAN
           /\ in.dbg \in BOOLEAN /\ in.ex \in BOOLEAN /\ in.lsu \in BOOLEAN
           /\ in.junk \in Pc
           /\ ~(WritebackStage /\ IsMem) => ~in.lsu
           /\ instr_id.op # "MULDIV" => in.ex
           /\ in.resp \in Responses
<1>1. WritebackStage \in BOOLEAN /\ Irqs \subseteq BOOLEAN /\ Nmis \subseteq BOOLEAN
      /\ DebugReqs \subseteq BOOLEAN
  BY ParameterAssumption
<1>2. in.fetch \in BOOLEAN /\ in.irq \in Irqs /\ in.nmi \in Nmis /\ in.dbg \in DebugReqs
  BY DEF Input
<1>3. in.ex \in (IF instr_id.op = "MULDIV" THEN BOOLEAN ELSE {TRUE})
  BY DEF Input
<1>4. in.lsu \in (IF WritebackStage /\ IsMem THEN BOOLEAN ELSE {FALSE})
  BY DEF Input
<1>5. in.junk \in (IF WritebackStage /\ ~BranchTargetALU /\ branch_set_raw_q /\ FirstCycle
                   THEN Pc ELSE {0})
  BY DEF Input
<1>6. in.resp \in Responses
  BY DEF Input
<1> QED
  BY <1>1, <1>2, <1>3, <1>4, <1>5, <1>6, Zero

(* Who is answered: the access in write-back, or without it the one in ID. *)
LEMMA Answered ==
    ASSUME NEW in \in Input
    PROVE  /\ lsu_err(in) => lsu_resp_valid(in)
           /\ lsu_resp_valid(in) => IF WritebackStage THEN AccessInWb ELSE AccessInId
           /\ load_intg_err(in) \in BOOLEAN
<1>1. in.resp \in Responses
  BY Inputs
<1>2. CASE WritebackStage /\ AccessInWb
  BY <1>2 DEF lsu_err, lsu_resp_valid, load_intg_err
<1>3. CASE WritebackStage /\ ~AccessInWb /\ AccessInId
  <2>1. in.resp \in {"none", "half"}
    BY <1>1, <1>3 DEF Responses, Half
  <2> QED
    BY <2>1 DEF lsu_err, lsu_resp_valid, load_intg_err
<1>4. CASE ~WritebackStage /\ AccessInId
  BY <1>4 DEF lsu_err, lsu_resp_valid, load_intg_err
<1>5. CASE ~((WritebackStage /\ AccessInWb) \/ AccessInId)
  <2>1. in.resp = "none"
    BY <1>1, <1>5 DEF Responses
  <2> QED
    BY <2>1 DEF lsu_err, lsu_resp_valid, load_intg_err
<1> QED
  BY <1>2, <1>3, <1>4, <1>5

-----------------------------------------------------------------------------
(* Types, part by part. *)
LEMMA RequestTypes ==
    ASSUME TypeOK, NEW in \in Input, NEW entering \in BOOLEAN, Requests(in, entering)
    PROVE  /\ do_single_step_q' \in BOOLEAN /\ enter_debug_mode_prio_q' \in BOOLEAN
           /\ exc_req_q' \in BOOLEAN /\ load_err_q' \in BOOLEAN /\ store_err_q' \in BOOLEAN
           /\ intg_pending' \in BOOLEAN
<1>1. do_single_step_q \in BOOLEAN /\ intg_pending \in BOOLEAN
  BY DEF TypeOK
<1>2. do_single_step_d \in BOOLEAN
  BY <1>1 DEF do_single_step_d
<1>3. enter_debug_mode(in) \in BOOLEAN /\ id_exception \in BOOLEAN
  BY DEF enter_debug_mode, id_exception
<1>4. load_err_q' \in BOOLEAN /\ store_err_q' \in BOOLEAN
  BY DEF Requests
<1>5. load_intg_err(in) \in BOOLEAN
  BY Answered
<1>6. intg_pending' \in BOOLEAN
  BY <1>1, <1>5 DEF Requests
<1> QED
  BY <1>2, <1>3, <1>4, <1>6 DEF Requests

LEMMA AdvanceTypes ==
    ASSUME TypeOK, NEW in \in Input, NEW ready \in BOOLEAN, NEW clear \in BOOLEAN,
           NEW pc_set \in BOOLEAN, NEW addr \in Pc,
           Advance(in, ready, clear, pc_set, addr)
    PROVE  /\ pc_if' \in Pc /\ pc_id' \in Pc /\ instr_id' \in Instrs \cup {NoInstr}
           /\ branch_jump_set_done_q' \in BOOLEAN /\ branch_set_raw_q' \in BOOLEAN
<1>1. pc_if \in Pc /\ pc_id \in Pc /\ instr_id \in Instrs \cup {NoInstr}
  BY DEF TypeOK
<1>2. pc_if' \in Pc /\ pc_id' \in Pc
  BY <1>1, SuccInPc DEF Advance
<1>3. instr_id' \in Instrs \cup {NoInstr}
  BY <1>1 DEF Advance
<1>4. branch_set_raw_d \in BOOLEAN
  BY DEF branch_set_raw_d
<1> QED
  BY <1>2, <1>3, <1>4 DEF Advance

LEMMA WriteBackTypes ==
    ASSUME TypeOK, NEW in \in Input, WriteBack(in)
    PROVE  wb' \in {"NONE"} \cup MemOps /\ pc_wb' \in Pc
<1>1. wb \in {"NONE"} \cup MemOps /\ pc_wb \in Pc /\ pc_id \in Pc
  BY DEF TypeOK
<1>2. pc_wb' \in Pc
  BY <1>1 DEF WriteBack
<1>3. CASE ~ready_wb(in)
  BY <1>1, <1>2, <1>3 DEF WriteBack
<1>4. CASE ready_wb(in) /\ WritebackStage /\ instr_done(in) /\ IsMem
  BY <1>2, <1>4 DEF WriteBack, IsMem
<1>5. CASE ready_wb(in) /\ ~(WritebackStage /\ instr_done(in) /\ IsMem)
  BY <1>2, <1>5 DEF WriteBack
<1> QED
  BY <1>3, <1>4, <1>5

LEMMA SaveTrapTypes ==
    ASSUME TypeOK, NEW pc \in Pc, SaveTrap(pc)
    PROVE  /\ mepc' \in Pc
           /\ mstatus' \in [mie : BOOLEAN, mpie : BOOLEAN, mpp : Levels]
           /\ mstack' \in [mpie : BOOLEAN, mpp : Levels, epc : Pc]
<1>1. /\ mstatus.mie \in BOOLEAN /\ mstatus.mpie \in BOOLEAN /\ mstatus.mpp \in Levels
      /\ priv_lvl_q \in Levels /\ mepc \in Pc
  BY DEF TypeOK
<1> QED
  BY <1>1 DEF SaveTrap

(* Events. *)
LEMMA Events ==
    /\ NoEvent \in Event
    /\ \A t \in {"exc", "double", "irq", "nmi", "debug", "redebug"} :
          [NoEvent EXCEPT !.trap = t] \in Event
    /\ \A i \in Instrs \cup {NoInstr} : [NoEvent EXCEPT !.retired = i] \in Event
  BY DEF NoEvent, Event

(* TypeOK in the parts that the steps disturb. *)
RequestsOK ==
    /\ do_single_step_q \in BOOLEAN /\ enter_debug_mode_prio_q \in BOOLEAN
    /\ exc_req_q \in BOOLEAN /\ load_err_q \in BOOLEAN /\ store_err_q \in BOOLEAN
    /\ intg_pending \in BOOLEAN

FrontOK ==
    /\ pc_if \in Pc /\ pc_id \in Pc /\ instr_id \in Instrs \cup {NoInstr}
    /\ branch_jump_set_done_q \in BOOLEAN /\ branch_set_raw_q \in BOOLEAN

IdWbOK ==
    /\ id_fsm_q \in {"FIRST_CYCLE", "MULTI_CYCLE"}
    /\ wb \in {"NONE"} \cup MemOps /\ pc_wb \in Pc

TrapOK ==
    /\ mepc \in Pc /\ sync_exc_seen \in BOOLEAN
    /\ mstatus \in [mie : BOOLEAN, mpie : BOOLEAN, mpp : Levels]
    /\ mstack \in [mpie : BOOLEAN, mpp : Levels, epc : Pc]

DebugOK == depc \in Pc /\ dcsr \in [on : SUBSET DcsrBits, prv : Levels]

ModesOK ==
    /\ ctrl_fsm_cs \in States
    /\ nmi_mode_q \in BOOLEAN /\ debug_mode_q \in BOOLEAN
    /\ priv_lvl_q \in Levels

LEMMA Parts ==
    /\ TypeOK <=> RequestsOK /\ FrontOK /\ IdWbOK /\ TrapOK /\ DebugOK /\ ModesOK
                  /\ event \in Event /\ stepped \in BOOLEAN
    /\ TypeOK' <=> (RequestsOK /\ FrontOK /\ IdWbOK /\ TrapOK /\ DebugOK /\ ModesOK)'
                   /\ event' \in Event /\ stepped' \in BOOLEAN
<1>1. TypeOK <=> RequestsOK /\ FrontOK /\ IdWbOK /\ TrapOK /\ DebugOK /\ ModesOK
                 /\ event \in Event /\ stepped \in BOOLEAN
  BY DEF TypeOK, RequestsOK, FrontOK, IdWbOK, TrapOK, DebugOK, ModesOK
<1>2. TypeOK' <=> (RequestsOK /\ FrontOK /\ IdWbOK /\ TrapOK /\ DebugOK /\ ModesOK)'
                  /\ event' \in Event /\ stepped' \in BOOLEAN
  BY DEF TypeOK, RequestsOK, FrontOK, IdWbOK, TrapOK, DebugOK, ModesOK
<1> QED
  BY <1>1, <1>2

LEMMA SetPcTypes ==
    ASSUME TypeOK, NEW in \in Input, NEW ready \in BOOLEAN, NEW addr \in Pc,
           SetPc(in, ready, addr)
    PROVE  FrontOK'
  BY AdvanceTypes DEF SetPc, FrontOK

LEMMA KeepPcTypes ==
    ASSUME TypeOK, NEW in \in Input, NEW ready \in BOOLEAN, NEW clear \in BOOLEAN,
           KeepPc(in, ready, clear)
    PROVE  FrontOK'
  BY AdvanceTypes, Zero DEF KeepPc, FrontOK

LEMMA StillTypes ==
    ASSUME TypeOK, NEW in \in Input, Still(in)
    PROVE  IdWbOK'
<1>1. id_fsm_q \in {"FIRST_CYCLE", "MULTI_CYCLE"}
  BY DEF TypeOK
<1> QED
  BY <1>1, WriteBackTypes DEF Still, IdWbOK

LEMMA RequestsType ==
    ASSUME TypeOK, NEW in \in Input, NEW entering \in BOOLEAN, Requests(in, entering)
    PROVE  RequestsOK'
  BY RequestTypes DEF RequestsOK

LEMMA StallBoolean ==
    ASSUME NEW in \in Input
    PROVE  /\ stall(in) \in BOOLEAN /\ (~stall(in)) \in BOOLEAN
           /\ special_req(in) \in BOOLEAN /\ handle_irq(in) \in BOOLEAN
           /\ enter_debug_mode(in) \in BOOLEAN
  BY DEF stall, special_req, handle_irq, enter_debug_mode

LEMMA Vectors == \A v \in VectorNames : Vector[v] \in Pc
  BY AddressAssumption

LEMMA BootTypes ==
    ASSUME TypeOK, NEW in \in Input, Boot(in)
    PROVE  /\ (RequestsOK /\ FrontOK /\ IdWbOK /\ TrapOK /\ DebugOK /\ ModesOK)'
           /\ event' \in Event
<1>1. RequestsOK' /\ IdWbOK'
  BY RequestsType, StillTypes DEF Boot
<1>2. FrontOK'
  BY SetPcTypes, Vectors DEF Boot, VectorNames
<1>3. (TrapOK /\ DebugOK)'
  BY Parts DEF Boot, csrs, trap, TrapOK, DebugOK
<1>4. ModesOK'
  BY Parts DEF Boot, csrs, ModesOK, States
<1>5. event' \in Event
  BY Events DEF Boot
<1> QED
  BY <1>1, <1>2, <1>3, <1>4, <1>5

LEMMA SleepTypes ==
    ASSUME TypeOK, NEW in \in Input, Sleep(in)
    PROVE  /\ (RequestsOK /\ FrontOK /\ IdWbOK /\ TrapOK /\ DebugOK /\ ModesOK)'
           /\ event' \in Event
<1>1. RequestsOK' /\ IdWbOK'
  BY RequestsType, StillTypes DEF Sleep
<1>2. FrontOK'
  BY KeepPcTypes DEF Sleep
<1>3. (TrapOK /\ DebugOK)'
  BY Parts DEF Sleep, csrs, trap, TrapOK, DebugOK
<1>4. ModesOK'
  BY Parts DEF Sleep, csrs, ModesOK, States
<1>5. event' \in Event
  BY Events DEF Sleep
<1> QED
  BY <1>1, <1>2, <1>3, <1>4, <1>5

LEMMA FirstFetchTypes ==
    ASSUME TypeOK, NEW in \in Input, FirstFetch(in)
    PROVE  /\ (RequestsOK /\ FrontOK /\ IdWbOK /\ TrapOK /\ DebugOK /\ ModesOK)'
           /\ event' \in Event
<1>1. RequestsOK' /\ IdWbOK'
  BY RequestsType, StillTypes DEF FirstFetch
<1>2. FrontOK'
  <2> DEFINE halted == enter_debug_mode(in) \/ handle_irq(in)
  <2>1. (~stall(in) /\ ~halted) \in BOOLEAN /\ (~stall(in)) \in BOOLEAN
    OBVIOUS
  <2>2. KeepPc(in, ~stall(in) /\ ~halted, ~stall(in))
    BY DEF FirstFetch
  <2> QED
    BY <2>1, <2>2, KeepPcTypes
<1>3. (TrapOK /\ DebugOK)'
  BY Parts DEF FirstFetch, csrs, trap, TrapOK, DebugOK
<1>4. ModesOK'
  <2>1. ctrl_fsm_cs' \in States
    <3>1. CASE enter_debug_mode(in)
      BY <3>1 DEF FirstFetch, States
    <3>2. CASE ~enter_debug_mode(in) /\ handle_irq(in)
      BY <3>2 DEF FirstFetch, States
    <3>3. CASE ~enter_debug_mode(in) /\ ~handle_irq(in) /\ ~stall(in)
      BY <3>3 DEF FirstFetch, States
    <3>4. CASE ~enter_debug_mode(in) /\ ~handle_irq(in) /\ stall(in)
      BY <3>4 DEF FirstFetch, States
    <3> QED
      BY <3>1, <3>2, <3>3, <3>4
  <2> QED
    BY <2>1, Parts DEF FirstFetch, csrs, ModesOK
<1>5. event' \in Event
  BY Events DEF FirstFetch
<1> QED
  BY <1>1, <1>2, <1>3, <1>4, <1>5

LEMMA MieAfterBoolean ==
    ASSUME NEW i \in Instrs \cup {NoInstr}, NEW mie \in BOOLEAN
    PROVE  MieAfter(i, mie) \in BOOLEAN
<1>1. CASE i.op = "MIE_SET"
  BY <1>1 DEF MieAfter
<1>2. CASE i.op = "MIE_CLR"
  BY <1>2 DEF MieAfter
<1>3. CASE i.op \notin {"MIE_SET", "MIE_CLR"}
  BY <1>3 DEF MieAfter
<1> QED
  BY <1>1, <1>2, <1>3

LEMMA DcsrAfterBits ==
    ASSUME NEW i \in Instrs \cup {NoInstr}, NEW on \in SUBSET DcsrBits
    PROVE  DcsrAfter(i, on) \in SUBSET DcsrBits
<1>0. i.mask \subseteq DcsrBits
  <2>1. NoInstr.mask \subseteq DcsrBits
    BY DEF NoInstr
  <2> QED
    BY <2>1, Instructions
<1>1. CASE i.op = "DCSR_SET"
  BY <1>0, <1>1 DEF DcsrAfter
<1>2. CASE i.op = "DCSR_CLR"
  BY <1>0, <1>2 DEF DcsrAfter
<1>3. CASE i.op \notin {"DCSR_SET", "DCSR_CLR"}
  BY <1>3 DEF DcsrAfter
<1> QED
  BY <1>1, <1>2, <1>3

LEMMA WriteCsrsTypes ==
    ASSUME TypeOK, NEW in \in Input, WriteCsrs(in)
    PROVE  /\ TrapOK' /\ DebugOK' /\ priv_lvl_q' \in Levels
<1> DEFINE i == IF csr_op_en(in) /\ ~illegal_insn THEN instr_id ELSE NoInstr
<1>1. i \in Instrs \cup {NoInstr}
  BY DEF TypeOK
<1>2. /\ mstatus' = [mstatus EXCEPT !.mie = MieAfter(i, @)]
      /\ dcsr' = [dcsr EXCEPT !.on = DcsrAfter(i, @)]
      /\ UNCHANGED <<priv_lvl_q, mepc, mstack, depc>>
  BY DEF WriteCsrs
<1> HIDE DEF i
<1>3. mstatus' \in [mie : BOOLEAN, mpie : BOOLEAN, mpp : Levels]
  <2>1. MieAfter(i, mstatus.mie) \in BOOLEAN
    BY <1>1, MieAfterBoolean DEF TypeOK
  <2>2. mstatus' = [mstatus EXCEPT !.mie = MieAfter(i, mstatus.mie)]
    BY <1>2
  <2> QED
    BY <2>1, <2>2 DEF TypeOK
<1>4. sync_exc_seen' \in BOOLEAN
  BY DEF WriteCsrs, SeenAfter
<1>5. dcsr' \in [on : SUBSET DcsrBits, prv : Levels]
  <2>1. DcsrAfter(i, dcsr.on) \in SUBSET DcsrBits
    BY <1>1, DcsrAfterBits DEF TypeOK
  <2>2. dcsr' = [dcsr EXCEPT !.on = DcsrAfter(i, dcsr.on)]
    BY <1>2
  <2> QED
    BY <2>1, <2>2 DEF TypeOK
<1> QED
  BY <1>2, <1>3, <1>4, <1>5 DEF TypeOK, TrapOK, DebugOK

LEMMA NextIdFsmType ==
    ASSUME TypeOK, NEW in \in Input
    PROVE  NextIdFsm(in) \in {"FIRST_CYCLE", "MULTI_CYCLE"}
<1>1. CASE ~instr_executing(in)
  BY <1>1 DEF NextIdFsm, TypeOK
<1>2. CASE instr_executing(in) /\ FirstCycle
  BY <1>2 DEF NextIdFsm
<1>3. CASE instr_executing(in) /\ ~FirstCycle
  BY <1>3 DEF NextIdFsm
<1> QED
  BY <1>1, <1>2, <1>3

LEMMA NextInDecodeState ==
    ASSUME NEW in \in Input
    PROVE  NextInDecode(in) \in {"FLUSH", "DBG_TAKEN_IF", "IRQ_TAKEN", "DECODE"}
<1>1. CASE LeavesToFlush(in)
  BY <1>1 DEF NextInDecode, LeavesToFlush, AtRest
<1>2. CASE ~LeavesToFlush(in) /\ AtRest(in) /\ enter_debug_mode(in)
  BY <1>2 DEF NextInDecode
<1>3. CASE ~LeavesToFlush(in) /\ AtRest(in) /\ ~enter_debug_mode(in) /\ handle_irq(in)
  BY <1>3 DEF NextInDecode
<1>4. CASE ~(LeavesToFlush(in) \/ (AtRest(in) /\ (enter_debug_mode(in) \/ handle_irq(in))))
  BY <1>4 DEF NextInDecode
<1> QED
  BY <1>1, <1>2, <1>3, <1>4

LEMMA DecodeTypes ==
    ASSUME TypeOK, NEW in \in Input, Decode(in)
    PROVE  /\ (RequestsOK /\ FrontOK /\ IdWbOK /\ TrapOK /\ DebugOK /\ ModesOK)'
           /\ event' \in Event
<1>1. RequestsOK'
  BY RequestsType DEF Decode
<1>2. IdWbOK'
  BY WriteBackTypes, NextIdFsmType DEF Decode, IdWbOK
<1>3. FrontOK'
  <2>1. branch_target(in) \in Pc
    BY Inputs, NextPcInPc DEF branch_target, TypeOK
  <2> DEFINE clear == ~stall(in) /\ ~special_req(in)
  <2>2. id_in_ready(in) \in BOOLEAN /\ clear \in BOOLEAN /\ jump_or_branch_set \in BOOLEAN
    BY DEF id_in_ready, jump_or_branch_set
  <2>3. Advance(in, id_in_ready(in), clear, jump_or_branch_set, branch_target(in))
    BY DEF Decode
  <2> HIDE DEF clear
  <2> QED
    BY <2>1, <2>2, <2>3, AdvanceTypes DEF FrontOK
<1>4. TrapOK' /\ DebugOK' /\ priv_lvl_q' \in Levels
  BY WriteCsrsTypes DEF Decode
<1>5. ModesOK'
  BY <1>4, NextInDecodeState, Parts DEF Decode, ModesOK, States
<1>6. event' \in Event
  <2>1. event' = DecodeEvent(in)
    BY DEF Decode
  <2>2. (lsu_resp_valid(in) /\ ~lsu_err(in)) \in BOOLEAN
    OBVIOUS
  <2>3. (IF RetiresInDecode(in) THEN instr_id ELSE NoInstr) \in Instrs \cup {NoInstr}
    BY DEF TypeOK
  <2> QED
    BY <2>1, <2>2, <2>3 DEF DecodeEvent, Event
<1> QED
  BY <1>1, <1>2, <1>3, <1>4, <1>5, <1>6

LEMMA IrqTakenTypes ==
    ASSUME TypeOK, NEW in \in Input, IrqTaken(in)
    PROVE  /\ (RequestsOK /\ FrontOK /\ IdWbOK /\ TrapOK /\ DebugOK /\ ModesOK)'
           /\ event' \in Event
<1>1. IdWbOK' /\ DebugOK'
  BY StillTypes, Parts DEF IrqTaken, DebugOK
<1>2. ctrl_fsm_cs' \in States /\ debug_mode_q' \in BOOLEAN
  BY Parts DEF IrqTaken, States, ModesOK
<1>3. CASE handle_irq(in)
  <2> DEFINE line == IF irq_nm(in) THEN "nmi" ELSE "irq"
  <2>1. line \in {"nmi", "irq"} /\ (line = "nmi") \in BOOLEAN
    OBVIOUS
  <2>2. /\ SetPc(in, ~stall(in), Vector[line])
        /\ SaveTrap(pc_if)
        /\ priv_lvl_q' = "M"
        /\ nmi_mode_q' = (line = "nmi")
        /\ Requests(in, line = "nmi")
        /\ event' = [NoEvent EXCEPT !.trap = line]
    BY <1>3 DEF IrqTaken
  <2> HIDE DEF line
  <2>3. Vector[line] \in Pc
    BY <2>1, Vectors DEF VectorNames
  <2>4. FrontOK'
    BY <2>2, <2>3, SetPcTypes, StallBoolean
  <2>5. TrapOK'
    BY <2>2, SaveTrapTypes DEF TrapOK, TypeOK, IrqTaken
  <2>6. RequestsOK'
    BY <2>1, <2>2, RequestsType
  <2>7. event' \in Event
    BY <2>1, <2>2, Events
  <2> QED
    BY <1>1, <1>2, <2>1, <2>2, <2>4, <2>5, <2>6, <2>7 DEF ModesOK, Levels
<1>4. CASE ~handle_irq(in)
  <2>1. /\ KeepPc(in, ~stall(in), ~stall(in))
        /\ Requests(in, FALSE)
        /\ event' = NoEvent
        /\ UNCHANGED <<nmi_mode_q, priv_lvl_q, mstatus, mepc, mstack, sync_exc_seen>>
    BY <1>4 DEF IrqTaken
  <2>2. FrontOK'
    BY <2>1, KeepPcTypes, StallBoolean
  <2>3. RequestsOK'
    BY <2>1, RequestsType
  <2> QED
    BY <1>1, <1>2, <2>1, <2>2, <2>3, Events, Parts DEF ModesOK, TrapOK
<1> QED
  BY <1>3, <1>4

LEMMA EnterDebugTypes ==
    ASSUME TypeOK, NEW pc \in Pc, EnterDebugAt(pc)
    PROVE  DebugOK' /\ priv_lvl_q' \in Levels /\ event' \in Event
  BY Events DEF EnterDebugAt, DebugOK, Levels, TypeOK

LEMMA DebugTypes ==
    ASSUME TypeOK, NEW in \in Input, DbgTakenIf(in) \/ DbgTakenId(in)
    PROVE  /\ (RequestsOK /\ FrontOK /\ IdWbOK /\ TrapOK /\ DebugOK /\ ModesOK)'
           /\ event' \in Event
<1>1. /\ SetPc(in, ~stall(in), Vector["debug"]) /\ Requests(in, FALSE) /\ Still(in)
      /\ UNCHANGED <<nmi_mode_q, trap>> /\ debug_mode_q' = TRUE /\ ctrl_fsm_cs' = "DECODE"
  BY DEF DbgTakenIf, DbgTakenId
<1>2. RequestsOK' /\ IdWbOK' /\ FrontOK'
  BY <1>1, RequestsType, StillTypes, SetPcTypes, StallBoolean, Vectors DEF VectorNames
<1>3. TrapOK'
  BY <1>1, Parts DEF trap, TrapOK
<1>4. DebugOK' /\ priv_lvl_q' \in Levels /\ event' \in Event
  <2>1. CASE EnterDebugAt(pc_if) \/ EnterDebugAt(pc_id)
    BY <2>1, EnterDebugTypes DEF TypeOK
  <2>2. CASE /\ event' = [NoEvent EXCEPT !.trap = "redebug"]
             /\ UNCHANGED <<depc, dcsr, priv_lvl_q>>
    BY <2>2, Events, Parts DEF DebugOK, ModesOK
  <2> QED
    BY <2>1, <2>2 DEF DbgTakenIf, DbgTakenId
<1> QED
  BY <1>1, <1>2, <1>3, <1>4, Parts DEF ModesOK, States

LEMMA AfterFlushState ==
    ASSUME NEW otherwise \in States
    PROVE  AfterFlush(otherwise) \in States
  BY DEF AfterFlush, States

LEMMA FlushExceptionTypes ==
    ASSUME TypeOK, NEW in \in Input, FlushException(in)
    PROVE  /\ (RequestsOK /\ FrontOK /\ IdWbOK /\ TrapOK /\ DebugOK /\ ModesOK)'
           /\ event' \in Event
<1>1. RequestsOK' /\ IdWbOK' /\ DebugOK'
  BY RequestsType, StillTypes, Parts DEF FlushException, DebugOK
<1>2. FrontOK'
  <2> DEFINE addr == Vector[IF debug_mode_q THEN "debug_exc" ELSE "exc"]
  <2>1. addr \in Pc
    BY Vectors DEF VectorNames
  <2>2. SetPc(in, FALSE, addr)
    BY DEF FlushException
  <2> HIDE DEF addr
  <2> QED
    BY <2>1, <2>2, SetPcTypes
<1>3. TrapOK'
  <2>1. ExceptionPc \in Pc
    BY DEF ExceptionPc, TypeOK
  <2>2. CASE debug_mode_q
    BY <2>2, Parts DEF FlushException, trap, TrapOK
  <2>3. CASE ~debug_mode_q
    BY <2>1, <2>3, SaveTrapTypes DEF FlushException, TrapOK
  <2> QED
    BY <2>2, <2>3
<1>4. ModesOK'
  <2>1. ctrl_fsm_cs' \in States
    BY AfterFlushState DEF FlushException, States
  <2> QED
    BY <2>1, Parts DEF FlushException, ModesOK, Levels
<1>5. event' \in Event
  <2>1. Fault(sync_exc_seen) \in {"exc", "double"}
    BY DEF Fault
  <2> QED
    BY <2>1, Events DEF FlushException
<1> QED
  BY <1>1, <1>2, <1>3, <1>4, <1>5

LEMMA FlushEbreakTypes ==
    ASSUME TypeOK, NEW in \in Input, FlushEbreak(in)
    PROVE  /\ (RequestsOK /\ FrontOK /\ IdWbOK /\ TrapOK /\ DebugOK /\ ModesOK)'
           /\ event' \in Event
<1>1. RequestsOK' /\ IdWbOK' /\ FrontOK'
  BY RequestsType, StillTypes, KeepPcTypes, StallBoolean DEF FlushEbreak
<1>2. (TrapOK /\ DebugOK)'
  BY Parts DEF FlushEbreak, csrs, trap, TrapOK, DebugOK
<1>3. ModesOK'
  <2>1. ctrl_fsm_cs' \in States
    BY AfterFlushState DEF FlushEbreak, States
  <2> QED
    BY <2>1, Parts DEF FlushEbreak, ModesOK, csrs
<1>4. event' \in Event
  BY Events DEF FlushEbreak
<1> QED
  BY <1>1, <1>2, <1>3, <1>4

LEMMA FlushMretTypes ==
    ASSUME TypeOK, NEW in \in Input, FlushMret(in)
    PROVE  /\ (RequestsOK /\ FrontOK /\ IdWbOK /\ TrapOK /\ DebugOK /\ ModesOK)'
           /\ event' \in Event
<1>1. RequestsOK' /\ IdWbOK' /\ FrontOK'
  BY RequestsType, StillTypes, SetPcTypes DEF FlushMret, TypeOK
<1>2. DebugOK'
  BY Parts DEF FlushMret, DebugOK
<1>3. /\ mstatus.mpie \in BOOLEAN /\ mstack.mpie \in BOOLEAN
      /\ mstatus.mpp \in Levels /\ mstack.mpp \in Levels /\ mstack.epc \in Pc
      /\ "U" \in Levels
  BY DEF TypeOK, Levels
<1>4. TrapOK'
  <2>1. mstack' = mstack
    BY DEF FlushMret
  <2>2. CASE nmi_mode_q
    <3>1. mstatus' = [mie |-> mstatus.mpie, mpie |-> mstack.mpie, mpp |-> mstack.mpp]
      BY <2>2 DEF FlushMret
    <3>2. mepc' = mstack.epc /\ sync_exc_seen' = FALSE
      BY <2>2 DEF FlushMret
    <3>3. mstack \in [mpie : BOOLEAN, mpp : Levels, epc : Pc]
      BY DEF TypeOK
    <3> QED
      BY <1>3, <2>1, <3>1, <3>2, <3>3 DEF TrapOK
  <2>3. CASE ~nmi_mode_q
    <3>1. mstatus' = [mie |-> mstatus.mpie, mpie |-> TRUE, mpp |-> "U"]
      BY <2>3 DEF FlushMret
    <3>2. /\ mepc' = mepc /\ mepc \in Pc /\ sync_exc_seen' = FALSE
          /\ mstack \in [mpie : BOOLEAN, mpp : Levels, epc : Pc]
      BY <2>3 DEF FlushMret, TypeOK
    <3> QED
      BY <1>3, <2>1, <3>1, <3>2 DEF TrapOK
  <2> QED
    BY <2>2, <2>3
<1>5. ModesOK'
  <2>1. ctrl_fsm_cs' \in States
    BY AfterFlushState DEF FlushMret, States
  <2> QED
    BY <1>3, <2>1, Parts DEF FlushMret, ModesOK
<1>6. event' \in Event
  BY Events DEF FlushMret, TypeOK
<1> QED
  BY <1>1, <1>2, <1>4, <1>5, <1>6

LEMMA FlushDretTypes ==
    ASSUME TypeOK, NEW in \in Input, FlushDret(in)
    PROVE  /\ (RequestsOK /\ FrontOK /\ IdWbOK /\ TrapOK /\ DebugOK /\ ModesOK)'
           /\ event' \in Event
<1>1. RequestsOK' /\ IdWbOK' /\ FrontOK'
  BY RequestsType, StillTypes, SetPcTypes DEF FlushDret, TypeOK
<1>2. (TrapOK /\ DebugOK)'
  BY Parts DEF FlushDret, trap, TrapOK, DebugOK
<1>3. ModesOK'
  <2>1. ctrl_fsm_cs' \in States
    BY AfterFlushState DEF FlushDret, States
  <2>2. dcsr.prv \in Levels
    BY DEF TypeOK
  <2> QED
    BY <2>1, <2>2, Parts DEF FlushDret, ModesOK
<1>4. event' \in Event
  BY Events DEF FlushDret, TypeOK
<1> QED
  BY <1>1, <1>2, <1>3, <1>4

LEMMA FlushOnlyTypes ==
    ASSUME TypeOK, NEW in \in Input, FlushOnly(in)
    PROVE  /\ (RequestsOK /\ FrontOK /\ IdWbOK /\ TrapOK /\ DebugOK /\ ModesOK)'
           /\ event' \in Event
<1>1. RequestsOK' /\ IdWbOK' /\ FrontOK'
  BY RequestsType, StillTypes, KeepPcTypes DEF FlushOnly
<1>2. (TrapOK /\ DebugOK)'
  BY Parts DEF FlushOnly, csrs, trap, TrapOK, DebugOK
<1>3. ModesOK'
  <2> DEFINE next == IF instr_id.op = "WFI" THEN "WAIT_SLEEP" ELSE "DECODE"
  <2>1. next \in States
    BY DEF States
  <2>2. ctrl_fsm_cs' = AfterFlush(next)
    BY DEF FlushOnly
  <2> HIDE DEF next
  <2>3. ctrl_fsm_cs' \in States
    BY <2>1, <2>2, AfterFlushState
  <2> QED
    BY <2>3, Parts DEF FlushOnly, ModesOK, csrs
<1>4. event' \in Event
  BY Events DEF FlushOnly, TypeOK
<1> QED
  BY <1>1, <1>2, <1>3, <1>4

LEMMA TypeStep ==
    ASSUME TypeOK, NEW in \in Input, Cycle(in)
    PROVE  TypeOK'
<1>1. /\ (RequestsOK /\ FrontOK /\ IdWbOK /\ TrapOK /\ DebugOK /\ ModesOK)'
      /\ event' \in Event
  BY BootTypes, SleepTypes, FirstFetchTypes, DecodeTypes, IrqTakenTypes, DebugTypes,
     FlushExceptionTypes, FlushEbreakTypes, FlushMretTypes, FlushDretTypes, FlushOnlyTypes
     DEF Cycle
<1>2. stepped' \in BOOLEAN
  BY DEF Cycle
<1> QED
  BY <1>1, <1>2, Parts

-----------------------------------------------------------------------------
(* Outside DECODE nothing executes, nothing is answered, nothing waits. *)
LEMMA OutsideDecode ==
    ASSUME IInv, NEW in \in Input, ctrl_fsm_cs # "DECODE"
    PROVE  /\ wb = "NONE" /\ ready_wb(in) /\ FirstCycle
           /\ ~lsu_resp_valid(in) /\ ~lsu_err(in)
           /\ ~instr_executing_spec /\ ~instr_executing(in) /\ ~instr_done(in)
           /\ ~branch_set_raw_d /\ ~jump_set_raw
<1>1. wb = "NONE" /\ FirstCycle /\ ~AccessInWb
  BY DEF IInv, TypeOK, AtRestOutsideDecode, AccessInWb
<1>2. ~lsu_resp_valid(in) /\ ~lsu_err(in)
  BY <1>1, Answered DEF AccessInId
<1>3. ~instr_executing_spec
  BY DEF instr_executing_spec
<1>4. ~instr_executing(in)
  BY <1>3 DEF instr_executing
<1> QED
  BY <1>1, <1>2, <1>3, <1>4 DEF ready_wb, instr_done, branch_set_raw_d, jump_set_raw

LEMMA EmptyIdDoesNotStall ==
    ASSUME NEW in \in Input, ~instr_valid
    PROVE  ~stall(in) /\ ~IsMem /\ ~instr_executing_spec /\ ~instr_done(in)
<1>1. instr_id.op = "NONE" /\ ~instr_id.dep
  BY Instructions DEF instr_valid
<1>2. ~IsMem /\ ~stall_ld_hz
  BY <1>1 DEF IsMem, MemOps, stall_ld_hz
<1>3. ~instr_executing_spec
  BY DEF instr_executing_spec
<1>4. ~stall_mem(in)
  BY <1>2 DEF stall_mem
<1>5. ~StallMultiCycle(in) /\ ~instr_done(in)
  BY <1>3 DEF StallMultiCycle, instr_done, instr_executing
<1> QED
  BY <1>2, <1>3, <1>4, <1>5 DEF stall, stall_id

(* What every step outside DECODE does to the stages. *)
LEMMA OutsideStill ==
    ASSUME IInv, NEW in \in Input, ctrl_fsm_cs # "DECODE", Still(in),
           NEW entering \in BOOLEAN, Requests(in, entering)
    PROVE  wb' = "NONE" /\ FirstCycle' /\ ~load_err_q' /\ ~store_err_q'
<1>1. ready_wb(in) /\ ~instr_done(in) /\ FirstCycle /\ ~lsu_err(in)
  BY OutsideDecode
<1>2. wb' = "NONE"
  BY <1>1 DEF Still, WriteBack
<1>3. FirstCycle'
  BY <1>1 DEF Still, FirstCycle
<1> QED
  BY <1>1, <1>2, <1>3 DEF Requests

LEMMA SetPcEmpties ==
    ASSUME NEW in \in Input, NEW ready \in BOOLEAN, NEW addr, SetPc(in, ready, addr)
    PROVE  /\ instr_id' = NoInstr /\ branch_set_raw_q' = branch_set_raw_d
           /\ ~branch_jump_set_done_q'
  BY DEF SetPc, Advance

LEMMA KeepPcEmpties ==
    ASSUME NEW in \in Input, KeepPc(in, FALSE, TRUE)
    PROVE  /\ instr_id' = NoInstr /\ branch_set_raw_q' = branch_set_raw_d
           /\ ~branch_jump_set_done_q'
  BY DEF KeepPc, Advance

(* An EBREAK in FLUSH is cleared when the controller enters debug mode. *)
LEMMA EbreakDoesNotStall ==
    ASSUME IInv, NEW in \in Input, ctrl_fsm_cs # "DECODE", instr_id.op = "EBREAK"
    PROVE  ~stall(in)
<1>1. wb = "NONE" /\ ~instr_executing_spec /\ ~instr_done(in)
  BY OutsideDecode
<1>2. ~IsMem /\ ~AccessInWb
  BY <1>1 DEF IsMem, AccessInWb, MemOps
<1>3. ~stall_ld_hz /\ ~stall_mem(in)
  BY <1>1, <1>2 DEF stall_ld_hz, stall_mem, outstanding_memory_access
<1> QED
  BY <1>1, <1>3 DEF stall, stall_id, StallMultiCycle

(* FLUSH leaves an empty ID stage. *)
LEMMA FlushEmpties ==
    ASSUME IInv, NEW in \in Input, ctrl_fsm_cs = "FLUSH",
           FlushException(in) \/ FlushEbreak(in) \/ FlushMret(in) \/ FlushDret(in)
             \/ FlushOnly(in)
    PROVE  /\ instr_id' = NoInstr /\ ~branch_set_raw_q'
           /\ Still(in) /\ Requests(in, FALSE)
<1>1. ~branch_set_raw_d
  BY OutsideDecode
<1>2. CASE FlushException(in) \/ FlushMret(in) \/ FlushDret(in)
  BY <1>1, <1>2, SetPcEmpties DEF FlushException, FlushMret, FlushDret
<1>3. CASE FlushEbreak(in)
  <2>1. instr_id.op = "EBREAK"
    BY <1>3 DEF FlushEbreak, EbreakToDebug, EbreakTaken
  <2>2. ~stall(in)
    BY <2>1, EbreakDoesNotStall
  <2>3. KeepPc(in, FALSE, TRUE)
    BY <1>3, <2>2 DEF FlushEbreak
  <2> QED
    BY <1>1, <1>3, <2>3, KeepPcEmpties DEF FlushEbreak
<1>4. CASE FlushOnly(in)
  BY <1>1, <1>4, KeepPcEmpties DEF FlushOnly
<1> QED
  BY <1>2, <1>3, <1>4

LEMMA OutsideStep ==
    ASSUME IInv, NEW in \in Input, ctrl_fsm_cs # "DECODE", Cycle(in)
    PROVE  (AtRestOutsideDecode /\ Flight)'
<1>1. SUFFICES /\ wb' = "NONE" /\ FirstCycle' /\ ~load_err_q' /\ ~store_err_q'
               /\ instr_valid' => ctrl_fsm_cs' = "DECODE"
               /\ ~branch_set_raw_q'
  BY DEF AtRestOutsideDecode, Flight, AccessInWb, MemOps
<1>2. ~branch_set_raw_d
  BY OutsideDecode
<1>3. CASE Boot(in)
  BY <1>2, <1>3, OutsideStill, SetPcEmpties DEF Boot, instr_valid
<1>4. CASE Sleep(in)
  BY <1>2, <1>4, OutsideStill, KeepPcEmpties DEF Sleep, instr_valid
<1>5. CASE FirstFetch(in)
  <2>1. ~instr_valid
    BY <1>5 DEF FirstFetch, IInv, AtRestOutsideDecode
  <2>2. ~stall(in)
    BY <2>1, EmptyIdDoesNotStall
  <2>3. branch_set_raw_q' = branch_set_raw_d /\ Still(in) /\ Requests(in, FALSE)
    BY <1>5 DEF FirstFetch, KeepPc, Advance
  <2>4. CASE enter_debug_mode(in) \/ handle_irq(in)
    <3>1. KeepPc(in, FALSE, TRUE)
      BY <1>5, <2>2, <2>4 DEF FirstFetch
    <3> QED
      BY <1>2, <2>3, <3>1, KeepPcEmpties, OutsideStill DEF instr_valid
  <2>5. CASE ~(enter_debug_mode(in) \/ handle_irq(in))
    <3>1. ctrl_fsm_cs' = "DECODE"
      BY <1>5, <2>2, <2>5 DEF FirstFetch
    <3> QED
      BY <1>2, <2>3, <3>1, OutsideStill
  <2> QED
    BY <2>4, <2>5
<1>6. CASE IrqTaken(in)
  <2>1. ctrl_fsm_cs' = "DECODE" /\ Still(in)
    BY <1>6 DEF IrqTaken
  <2>2. branch_set_raw_q' = branch_set_raw_d
    BY <1>6 DEF IrqTaken, SetPc, KeepPc, Advance
  <2>3. \E entering \in BOOLEAN : Requests(in, entering)
    <3>1. CASE handle_irq(in)
      BY <1>6, <3>1 DEF IrqTaken
    <3>2. CASE ~handle_irq(in)
      BY <1>6, <3>2 DEF IrqTaken
    <3> QED
      BY <3>1, <3>2
  <2> QED
    BY <1>2, <2>1, <2>2, <2>3, OutsideStill
<1>7. CASE DbgTakenIf(in) \/ DbgTakenId(in)
  <2>1. ctrl_fsm_cs' = "DECODE" /\ Still(in) /\ Requests(in, FALSE)
        /\ branch_set_raw_q' = branch_set_raw_d
    BY <1>7 DEF DbgTakenIf, DbgTakenId, SetPc, Advance
  <2> QED
    BY <1>2, <2>1, OutsideStill
<1>8. CASE FlushException(in) \/ FlushEbreak(in) \/ FlushMret(in) \/ FlushDret(in)
             \/ FlushOnly(in)
  <2>1. ctrl_fsm_cs = "FLUSH"
    BY <1>8 DEF FlushException, FlushEbreak, FlushMret, FlushDret, FlushOnly
  <2> QED
    BY <1>8, <2>1, FlushEmpties, OutsideStill DEF instr_valid
<1> QED
  BY <1>3, <1>4, <1>5, <1>6, <1>7, <1>8 DEF Cycle, Decode

-----------------------------------------------------------------------------
(***************************************************************************)
(* In DECODE.  An instruction under way executes: there is nothing before  *)
(* it that could keep it from doing so.                                    *)
(***************************************************************************)
LEMMA UnderWayExecutes ==
    ASSUME IInv, NEW in \in Input, ctrl_fsm_cs = "DECODE", ~FirstCycle
    PROVE  /\ instr_executing(in) /\ instr_valid /\ instr_id.op \in MultiOps
           /\ wb = "NONE" /\ ~stall_ld_hz
<1>1. instr_id.op \in MultiOps /\ wb = "NONE" /\ ~load_err_q /\ ~store_err_q
  BY DEF IInv, Flight
<1>2. instr_valid /\ ~stall_ld_hz /\ ~AccessInWb
  <2>1. instr_id.op # "NONE"
    BY <1>1 DEF MultiOps, MemOps
  <2> QED
    BY <1>1, <2>1, Instructions DEF instr_valid, stall_ld_hz, AccessInWb, MemOps
<1>3. instr_executing_spec
  BY <1>1, <1>2 DEF instr_executing_spec, MultiOps, MemOps
<1>4. ~id_exception
  BY <1>1 DEF id_exception, illegal_insn, IllegalInsn, MultiOps, MemOps, MieOps, DcsrOps
<1>5. WritebackStage => ~wb_exception(in)
  BY <1>1, <1>2, Answered DEF wb_exception
<1> QED
  BY <1>1, <1>2, <1>3, <1>4, <1>5 DEF instr_executing, outstanding_memory_access

LEMMA ExecutingIsReady ==
    ASSUME IInv, NEW in \in Input, instr_executing(in)
    PROVE  ready_wb(in) /\ instr_valid /\ instr_executing_spec
<1>1. instr_executing_spec /\ instr_valid
  BY DEF instr_executing, instr_executing_spec
<1>2. CASE WritebackStage
  BY <1>1, <1>2 DEF instr_executing, outstanding_memory_access, ready_wb, AccessInWb,
                    IInv, TypeOK
<1>3. CASE ~WritebackStage
  BY <1>1, <1>3 DEF ready_wb, IInv, Flight
<1> QED
  BY <1>2, <1>3, ParameterAssumption

(* An instruction with more cycles to come stalls, and nothing else happens. *)
LEMMA MoreCyclesStall ==
    ASSUME IInv, NEW in \in Input, ctrl_fsm_cs = "DECODE", NextIdFsm(in) = "MULTI_CYCLE"
    PROVE  /\ instr_valid /\ instr_id.op \in MultiOps
           /\ ready_wb(in) /\ stall_id(in) /\ ~special_req(in)
<1>1. instr_executing(in)
  <2>1. CASE ~FirstCycle
    BY <2>1, UnderWayExecutes
  <2>2. CASE FirstCycle /\ ~instr_executing(in)
    BY <2>2 DEF NextIdFsm, FirstCycle
  <2> QED
    BY <2>1, <2>2
<1>2. ready_wb(in) /\ instr_valid /\ instr_executing_spec
  BY <1>1, ExecutingIsReady
<1>3. instr_id.op \in MultiOps
  <2>1. CASE FirstCycle
    <3>1. IsMem \/ SecondCycle(in)
      BY <1>1, <2>1 DEF NextIdFsm
    <3> QED
      BY <3>1 DEF IsMem, SecondCycle, MultiOps
  <2>2. CASE ~FirstCycle
    BY <2>2, UnderWayExecutes
  <2> QED
    BY <2>1, <2>2
<1>4. stall_id(in) /\ (~WritebackStage /\ ~FirstCycle /\ IsMem => ~lsu_resp_valid(in))
  <2>1. CASE FirstCycle /\ IsMem
    BY <1>1, <1>2, <2>1 DEF NextIdFsm, stall_id, stall_mem
  <2>2. CASE FirstCycle /\ ~IsMem
    <3>1. SecondCycle(in)
      BY <1>1, <2>2 DEF NextIdFsm
    <3> QED
      BY <1>2, <1>3, <2>2, <3>1 DEF stall_id, StallMultiCycle, MultiOps, IsMem
  <2>3. CASE ~FirstCycle
    <3>1. ~multicycle_done(in)
      BY <1>1, <1>2, <2>3 DEF NextIdFsm
    <3>2. CASE ~IsMem
      BY <1>2, <1>3, <2>3, <3>1, <3>2 DEF stall_id, StallMultiCycle, MultiOps, IsMem
    <3>3. CASE IsMem /\ WritebackStage
      BY <3>1, <3>3 DEF multicycle_done, stall_id
    <3>4. CASE IsMem /\ ~WritebackStage
      BY <3>1, <3>4 DEF multicycle_done, stall_id, stall_mem
    <3> QED
      BY <3>2, <3>3, <3>4
  <2> QED
    BY <2>1, <2>2, <2>3
<1>5. ~id_exception
  BY <1>3 DEF id_exception, illegal_insn, IllegalInsn, MultiOps, MemOps, MieOps, DcsrOps
<1>6. ~lsu_err(in)
  <2>1. CASE WritebackStage
    BY <1>1, <2>1 DEF instr_executing, wb_exception
  <2>2. CASE ~WritebackStage
    BY <1>4, <2>2, Answered DEF AccessInId
  <2> QED
    BY <2>1, <2>2
<1>7. ~csr_pipe_flush(in)
  BY <1>3 DEF csr_pipe_flush, csr_op_en, CsrOps, MieOps, DcsrOps, MultiOps, MemOps
<1>8. instr_id.op \notin {"MRET", "DRET", "WFI"}
  BY <1>3 DEF MultiOps, MemOps
<1> QED
  BY <1>2, <1>3, <1>4, <1>5, <1>6, <1>7, <1>8 DEF special_req, special_req_pc_change

LEMMA MoreCyclesStay ==
    ASSUME IInv, NEW in \in Input, Decode(in), NextIdFsm(in) = "MULTI_CYCLE"
    PROVE  /\ ctrl_fsm_cs' = "DECODE" /\ instr_id' = instr_id
           /\ instr_valid /\ instr_id.op \in MultiOps /\ wb' = "NONE" /\ ~FirstCycle'
<1>1. /\ instr_valid /\ instr_id.op \in MultiOps
      /\ ready_wb(in) /\ stall_id(in) /\ ~special_req(in)
  BY MoreCyclesStall DEF Decode
<1>2. stall(in) /\ ~instr_done(in)
  BY <1>1 DEF stall, instr_done
<1>3. ctrl_fsm_cs' = "DECODE"
  <2>1. ~LeavesToFlush(in) /\ ~AtRest(in)
    BY <1>1, <1>2 DEF LeavesToFlush, AtRest
  <2> QED
    BY <2>1 DEF Decode, NextInDecode
<1>4. instr_id' = instr_id
  BY <1>2 DEF Decode, Advance, id_in_ready
<1>5. wb' = "NONE"
  BY <1>1, <1>2 DEF Decode, WriteBack
<1>6. ~FirstCycle'
  BY DEF Decode, FirstCycle
<1> QED
  BY <1>1, <1>3, <1>4, <1>5, <1>6

(* An access is handed to write-back only in a cycle that stays in DECODE. *)
LEMMA HandedOverInDecode ==
    ASSUME IInv, NEW in \in Input, Decode(in), AccessInWb'
    PROVE  ctrl_fsm_cs' = "DECODE"
<1>1. ~load_err_q /\ ~store_err_q
  BY DEF IInv, Flight, Decode
<1>2. wb_exception(in) => ready_wb(in)
  BY <1>1, Answered DEF wb_exception, ready_wb
<1>3. CASE ~ready_wb(in)
  <2>1. ~LeavesToFlush(in) /\ ~AtRest(in)
    BY <1>2, <1>3 DEF LeavesToFlush, AtRest, id_wb_pending
  <2> QED
    BY <2>1 DEF Decode, NextInDecode
<1>4. CASE ready_wb(in)
  <2>1. WritebackStage /\ instr_done(in) /\ IsMem
    BY <1>4 DEF Decode, WriteBack, AccessInWb, MemOps
  <2>2. instr_valid /\ ~id_exception /\ ~wb_exception(in)
    BY <2>1 DEF instr_done, instr_executing, instr_executing_spec
  <2>3. instr_id.op \notin {"MRET", "DRET", "WFI"} /\ ~csr_pipe_flush(in)
    BY <2>1 DEF IsMem, MemOps, csr_pipe_flush, csr_op_en, CsrOps, MieOps, DcsrOps
  <2>4. ~special_req(in)
    BY <2>1, <2>2, <2>3 DEF special_req, special_req_pc_change, wb_exception
  <2>5. ~LeavesToFlush(in) /\ ~AtRest(in)
    BY <2>2, <2>4 DEF LeavesToFlush, AtRest, id_wb_pending
  <2> QED
    BY <2>5 DEF Decode, NextInDecode
<1> QED
  BY <1>3, <1>4

LEMMA DecodeStep ==
    ASSUME IInv, NEW in \in Input, Decode(in), TypeOK'
    PROVE  (AtRestOutsideDecode /\ Flight)'
<1>0. ctrl_fsm_cs' = NextInDecode(in)
  BY DEF Decode
<1>1. ~FirstCycle' => /\ ctrl_fsm_cs' = "DECODE" /\ instr_id'.op \in MultiOps
                      /\ wb' = "NONE"
  <2>1. SUFFICES ASSUME ~FirstCycle'
                 PROVE  NextIdFsm(in) = "MULTI_CYCLE"
    BY MoreCyclesStay
  <2> QED
    BY <2>1, NextIdFsmType DEF Decode, FirstCycle, IInv
<1>2. instr_valid' => ctrl_fsm_cs' \in {"DECODE", "FLUSH"}
  <2>1. SUFFICES ASSUME ctrl_fsm_cs' \notin {"DECODE", "FLUSH"}
                 PROVE  instr_id' = NoInstr
    BY DEF instr_valid
  <2>2. AtRest(in) /\ (enter_debug_mode(in) \/ handle_irq(in))
    BY <1>0, <2>1 DEF NextInDecode
  <2>3. ~id_in_ready(in) /\ ~stall(in) /\ ~special_req(in)
    BY <2>2 DEF id_in_ready, halt_if, AtRest
  <2> QED
    BY <2>3 DEF Decode, Advance
<1>3. ~WritebackStage => wb' = "NONE"
  <2>1. ~WritebackStage => ready_wb(in)
    BY DEF IInv, Flight, ready_wb
  <2> QED
    BY <2>1 DEF Decode, WriteBack
<1>4. load_err_q' \/ store_err_q' => ctrl_fsm_cs' = "FLUSH"
  <2>1. SUFFICES ASSUME lsu_err(in)
                 PROVE  ctrl_fsm_cs' = "FLUSH"
    BY DEF Decode, Requests
  <2>2. ready_wb(in) /\ special_req(in)
    BY <2>1, Answered DEF ready_wb, special_req, special_req_pc_change
  <2>3. LeavesToFlush(in) /\ ~AtRest(in)
    BY <2>2 DEF LeavesToFlush, AtRest
  <2> QED
    BY <1>0, <2>3 DEF NextInDecode
<1>5. branch_set_raw_q' => ctrl_fsm_cs' \in {"DECODE", "FLUSH"}
  <2>1. SUFFICES ASSUME branch_set_raw_d
                 PROVE  ~AtRest(in)
    BY <1>0 DEF Decode, Advance, NextInDecode
  <2> QED
    BY <2>1 DEF branch_set_raw_d, instr_executing_spec, AtRest, id_wb_pending
<1>6. AccessInWb' => ctrl_fsm_cs' = "DECODE"
  BY HandedOverInDecode
<1> QED
  BY <1>1, <1>2, <1>3, <1>4, <1>5, <1>6 DEF AtRestOutsideDecode, Flight

-----------------------------------------------------------------------------
LEMMA InitInv == Init => IInv
<1> SUFFICES ASSUME Init PROVE IInv
  OBVIOUS
<1>1. TypeOK
  BY Zero, Events DEF Init, TypeOK, States, Levels
<1>2. AtRestOutsideDecode
  BY DEF Init, AtRestOutsideDecode, AccessInWb, MemOps, FirstCycle, instr_valid
<1>3. Flight
  BY DEF Init, Flight, FirstCycle
<1> QED
  BY <1>1, <1>2, <1>3 DEF IInv

LEMMA CycleInv ==
    ASSUME IInv, NEW in \in Input, Cycle(in)
    PROVE  IInv'
<1>1. TypeOK'
  BY TypeStep DEF IInv
<1>2. CASE ctrl_fsm_cs # "DECODE"
  BY <1>1, <1>2, OutsideStep DEF IInv
<1>3. CASE ctrl_fsm_cs = "DECODE"
  <2>1. Decode(in)
    BY <1>3 DEF Cycle, Boot, Sleep, FirstFetch, IrqTaken, DbgTakenIf, DbgTakenId,
                FlushException, FlushEbreak, FlushMret, FlushDret, FlushOnly
  <2> QED
    BY <1>1, <2>1, DecodeStep DEF IInv
<1> QED
  BY <1>2, <1>3

LEMMA StutterInv == IInv /\ UNCHANGED vars => IInv'
<1> SUFFICES ASSUME IInv, UNCHANGED vars PROVE IInv'
  OBVIOUS
<1> USE DEF vars, ctrl, front, idwb, csrs, trap
<1>1. TypeOK'
  BY DEF IInv, TypeOK
<1>2. AtRestOutsideDecode'
  BY DEF IInv, AtRestOutsideDecode, AccessInWb, FirstCycle, instr_valid
<1>3. Flight'
  BY DEF IInv, Flight, FirstCycle
<1> QED
  BY <1>1, <1>2, <1>3 DEF IInv

LEMMA Invariance == Safety => []IInv
<1>1. IInv /\ [Next]_vars => IInv'
  BY CycleInv, StutterInv DEF Next
<1> QED
  BY <1>1, InitInv, PTL DEF Safety

(***************************************************************************)
(* Whatever the program and the parameters, when the controller leaves     *)
(* DECODE no access is outstanding, no instruction is halfway through its  *)
(* cycles, and interrupts and debug requests find an empty ID stage        *)
(* (ibex_controller.sv, the transitions of DECODE).                        *)
(***************************************************************************)
THEOREM NothingInFlight == Safety => []PipelineInv
<1>1. IInv => PipelineInv
  BY DEF IInv, PipelineInv
<1> QED
  BY <1>1, Invariance, PTL

-----------------------------------------------------------------------------
(* An access under way in ID is handed over when its request is granted,   *)
(* and waits there otherwise.                                              *)
LEMMA AccessStaysInId ==
    ASSUME IInv, NEW in \in Input, Decode(in), AccessInId, ~lsu_resp_valid(in)
    PROVE  AccessInFlight'
<1>1. /\ instr_executing(in) /\ instr_valid /\ wb = "NONE" /\ ~stall_ld_hz /\ IsMem
      /\ ~FirstCycle
  BY UnderWayExecutes DEF AccessInId, Decode
<1>2. ready_wb(in)
  BY <1>1 DEF ready_wb
<1>3. CASE WritebackStage /\ ~stall_mem(in)
  <2>1. ~StallMultiCycle(in)
    BY <1>1 DEF StallMultiCycle, IsMem, MemOps
  <2>2. instr_done(in)
    BY <1>1, <1>3, <2>1 DEF instr_done, stall_id
  <2>3. wb' = instr_id.op
    BY <1>1, <1>2, <1>3, <2>2 DEF Decode, WriteBack
  <2> QED
    BY <1>1, <2>3 DEF AccessInFlight, AccessInWb, IsMem
<1>4. CASE ~(WritebackStage /\ ~stall_mem(in))
  <2>1. ~multicycle_done(in)
    <3>1. CASE WritebackStage
      BY <1>1, <1>4, <3>1 DEF multicycle_done
    <3>2. CASE ~WritebackStage
      BY <1>1, <3>2 DEF multicycle_done
    <3> QED
      BY <3>1, <3>2
  <2>2. NextIdFsm(in) = "MULTI_CYCLE"
    BY <1>1, <2>1 DEF NextIdFsm
  <2>3. instr_id' = instr_id /\ ~FirstCycle'
    BY <2>2, MoreCyclesStay
  <2> QED
    BY <1>1, <2>3 DEF AccessInFlight, AccessInId, IsMem, instr_valid
<1> QED
  BY <1>3, <1>4

LEMMA AccessIsWaitedFor ==
    ASSUME IInv, NEW in \in Input, Cycle(in), AccessInFlight, ~AccessInFlight'
    PROVE  event'.mem \/ load_err_q' \/ store_err_q'
<1>1. Decode(in)
  <2>1. ctrl_fsm_cs = "DECODE"
    BY DEF IInv, AtRestOutsideDecode, AccessInFlight, AccessInId
  <2> QED
    BY <2>1 DEF Cycle, Boot, Sleep, FirstFetch, IrqTaken, DbgTakenIf, DbgTakenId,
                FlushException, FlushEbreak, FlushMret, FlushDret, FlushOnly
<1>2. lsu_resp_valid(in)
  <2>1. SUFFICES ASSUME ~lsu_resp_valid(in)
                 PROVE  AccessInFlight'
    OBVIOUS
  <2>2. CASE AccessInWb
    <3>1. ~ready_wb(in)
      BY <2>1, <2>2 DEF ready_wb, AccessInWb, MemOps
    <3>2. wb' = wb
      BY <1>1, <3>1 DEF Decode, WriteBack
    <3> QED
      BY <2>2, <3>2 DEF AccessInFlight, AccessInWb
  <2>3. CASE AccessInId
    BY <1>1, <2>1, <2>3, AccessStaysInId
  <2> QED
    BY <2>2, <2>3 DEF AccessInFlight
<1>3. CASE ~lsu_err(in)
  <2>1. event' = DecodeEvent(in)
    BY <1>1 DEF Decode
  <2>2. event'.mem = (lsu_resp_valid(in) /\ ~lsu_err(in))
    BY <2>1 DEF DecodeEvent
  <2> QED
    BY <1>2, <1>3, <2>2
<1>4. CASE lsu_err(in)
  <2> DEFINE op == IF WritebackStage THEN wb ELSE instr_id.op
  <2>1. op \in MemOps
    BY <1>2, Answered DEF AccessInWb, AccessInId, IsMem
  <2>2. load_err_q' = (op = "LOAD") /\ store_err_q' = (op = "STORE")
    BY <1>1, <1>4 DEF Decode, Requests
  <2> QED
    BY <2>1, <2>2 DEF MemOps
<1> QED
  BY <1>3, <1>4

(***************************************************************************)
(* An access whose request was made is waited for until it completes or    *)
(* fails: no trap, flush, interrupt or debug request drops it              *)
(* (ibex_id_stage.sv, stall_mem; ibex_wb_stage.sv, wb_valid_d).            *)
(***************************************************************************)
THEOREM AccessNotAbandoned == Safety => NoAbandonedAccess
<1>1. IInv /\ [Next]_vars =>
         [AccessInFlight /\ ~AccessInFlight' =>
             event'.mem \/ load_err_q' \/ store_err_q']_vars
  BY AccessIsWaitedFor DEF Next
<1> QED
  BY <1>1, Invariance, PTL DEF Safety, NoAbandonedAccess

-----------------------------------------------------------------------------
(***************************************************************************)
(* The PC is set once by a branch or jump: as long as the instruction      *)
(* waits branch_jump_set_done_q masks the request, and when it goes the    *)
(* instruction fetched behind it is squashed.                              *)
(***************************************************************************)
LEMMA SetOnce ==
    ASSUME IInv, NEW in \in Input, Cycle(in), jump_or_branch_set
    PROVE  ~jump_or_branch_set'
<1>0. WritebackStage \in BOOLEAN /\ BranchTargetALU \in BOOLEAN /\ DataIndTiming \in BOOLEAN
  BY ParameterAssumption
<1>1. SUFFICES \/ branch_jump_set_done_q'
               \/ /\ instr_id' = NoInstr
                  /\ (BranchTargetALU /\ ~DataIndTiming) \/ ~branch_set_raw_q'
  BY DEF jump_or_branch_set, branch_set_raw, jump_set_raw, branch_set_raw_d,
         instr_executing_spec, instr_valid
<1>2. CASE ctrl_fsm_cs # "DECODE"
  <2>1. branch_set_raw_q
    BY <1>2, OutsideDecode DEF jump_or_branch_set, branch_set_raw
  <2>2. ctrl_fsm_cs = "FLUSH"
    BY <1>2, <2>1 DEF IInv, Flight
  <2>3. FlushException(in) \/ FlushEbreak(in) \/ FlushMret(in) \/ FlushDret(in)
          \/ FlushOnly(in)
    BY <2>2 DEF Cycle, Boot, Sleep, FirstFetch, Decode, IrqTaken, DbgTakenIf, DbgTakenId
  <2> QED
    BY <2>2, <2>3, FlushEmpties
<1>3. CASE ctrl_fsm_cs = "DECODE"
  <2>1. Decode(in)
    BY <1>3 DEF Cycle, Boot, Sleep, FirstFetch, IrqTaken, DbgTakenIf, DbgTakenId,
                FlushException, FlushEbreak, FlushMret, FlushDret, FlushOnly
  <2>2. CASE ~(~stall(in) /\ ~special_req(in))
    <3>1. branch_jump_set_done_q'
      BY <2>1, <2>2 DEF Decode, Advance, jump_or_branch_set
    <3> QED
      BY <3>1
  <2>3. CASE ~stall(in) /\ ~special_req(in)
    <3>1. instr_id' = NoInstr /\ branch_set_raw_q' = branch_set_raw_d
      BY <2>1, <2>3 DEF Decode, Advance
    <3>2. CASE ~branch_set_raw_d
      BY <3>1, <3>2
    <3>3. CASE branch_set_raw_d /\ BranchTargetALU /\ ~DataIndTiming
      BY <3>1, <3>3
    <3>4. CASE branch_set_raw_d /\ ~(BranchTargetALU /\ ~DataIndTiming)
      <4>1. SecondCycle(in)
        BY <3>4 DEF branch_set_raw_d, SecondCycle
      <4>2. StallMultiCycle(in)
        BY <3>4, <4>1 DEF branch_set_raw_d, StallMultiCycle
      <4> QED
        BY <2>3, <4>2 DEF stall, stall_id
    <3> QED
      BY <3>2, <3>3, <3>4
  <2> QED
    BY <2>2, <2>3
<1> QED
  BY <1>2, <1>3

(***************************************************************************)
(* A branch or jump never sets the PC in two cycles in a row, however long *)
(* it waits in its first cycle (ibex_id_stage.sv, NeverDoubleBranch,       *)
(* NeverDoubleJump).                                                       *)
(***************************************************************************)
THEOREM PcIsSetOnce == Safety => NeverDoubleSet
<1>1. IInv /\ [Next]_vars => [jump_or_branch_set => ~jump_or_branch_set']_vars
  BY SetOnce DEF Next
<1> QED
  BY <1>1, Invariance, PTL DEF Safety, NeverDoubleSet

-----------------------------------------------------------------------------
(* The abstract specification speaks of the same instructions and events. *)
LEMMA SameIsa ==
    /\ Hart!NoEvent = NoEvent /\ Hart!NoInstr = NoInstr /\ Hart!Event = Event
    /\ \A p : Hart!Succ(p) = Succ(p)
    /\ \A i, p : Hart!NextPc(i, p) = NextPc(i, p)
    /\ \A i, priv, debug : Hart!IllegalInsn(i, priv, debug) = IllegalInsn(i, priv, debug)
    /\ \A i, mie : Hart!MieAfter(i, mie) = MieAfter(i, mie)
    /\ \A i, on : Hart!DcsrAfter(i, on) = DcsrAfter(i, on)
    /\ \A i, seen : Hart!SeenAfter(i, seen) = SeenAfter(i, seen)
    /\ \A seen : Hart!Fault(seen) = Fault(seen)
    /\ \A d, debug : Hart!Stepping(d, debug) = Stepping(d, debug)
    /\ \A e : Hart!Stepped(e) = Stepped(e)
<1>1. Hart!NoInstr = NoInstr
  BY DEF Hart!NoInstr, NoInstr
<1>2. Hart!NoEvent = NoEvent /\ Hart!Event = Event
  BY <1>1 DEF Hart!NoEvent, NoEvent, Hart!Event, Event
<1>3. \A p : Hart!Succ(p) = Succ(p)
  BY DEF Hart!Succ, Succ
<1>4. \A i, p : Hart!NextPc(i, p) = NextPc(i, p)
  BY <1>3 DEF Hart!NextPc, NextPc
<1>5. \A i, priv, debug : Hart!IllegalInsn(i, priv, debug) = IllegalInsn(i, priv, debug)
  BY DEF Hart!IllegalInsn, IllegalInsn, Hart!MieOps, MieOps, Hart!DcsrOps, DcsrOps
<1>6. \A i, mie : Hart!MieAfter(i, mie) = MieAfter(i, mie)
  BY DEF Hart!MieAfter, MieAfter
<1>7. \A i, on : Hart!DcsrAfter(i, on) = DcsrAfter(i, on)
  BY DEF Hart!DcsrAfter, DcsrAfter
<1>8. \A i, seen : Hart!SeenAfter(i, seen) = SeenAfter(i, seen)
  BY DEF Hart!SeenAfter, SeenAfter
<1>9. \A seen : Hart!Fault(seen) = Fault(seen)
  BY DEF Hart!Fault, Fault
<1>10. \A d, debug : Hart!Stepping(d, debug) = Stepping(d, debug)
  BY DEF Hart!Stepping, Stepping
<1>11. \A e : Hart!Stepped(e) = Stepped(e)
  BY <1>1 DEF Hart!Stepped, Stepped
<1> QED
  BY <1>1, <1>2, <1>3, <1>4, <1>5, <1>6, <1>7, <1>8, <1>9, <1>10, <1>11

LEMMA HartInit == Init => Hart!Init
<1> SUFFICES ASSUME Init PROVE Hart!Init
  OBVIOUS
<1>1. ArchPc = Vector["boot"]
  BY DEF Init, ArchPc, AccessInWb, MemOps, instr_valid
<1> QED
  BY <1>1, SameIsa DEF Init, Hart!Init

LEMMA HartStutter == UNCHANGED vars => UNCHANGED Hart!vars
  BY DEF vars, ctrl, front, idwb, csrs, trap, Hart!vars, Hart!csrs, ArchPc, AccessInWb,
         instr_valid, FlushingRetired, ExcInFlush

-----------------------------------------------------------------------------
(***************************************************************************)
(* The order of the stages, which the fetch, ID and write-back keep: the   *)
(* instruction in ID comes before what is fetched and after the access in  *)
(* write-back.                                                             *)
(***************************************************************************)
EarlyTarget == BranchTargetALU /\ ~DataIndTiming

Following == IF branch_jump_set_done_q THEN NextPc(instr_id, pc_id) ELSE Succ(pc_id)

InOrder ==
    /\ instr_valid => pc_if = Following
    /\ AccessInWb => IF instr_valid THEN pc_id = Succ(pc_wb) ELSE pc_if = Succ(pc_wb)

(* The PC is set for branches and jumps only, before they leave ID. *)
SetOrWillBe ==
    /\ branch_jump_set_done_q => instr_id.op \in {"JUMP", "BRANCH"}
    /\ branch_set_raw_q /\ ~EarlyTarget => instr_id.op = "BRANCH"
    /\ ~FirstCycle /\ instr_id.op = "JUMP" => branch_jump_set_done_q
    /\ ~FirstCycle /\ instr_id.op = "BRANCH"
         => ~EarlyTarget /\ (branch_set_raw_q \/ branch_jump_set_done_q)

(* What the controller knows in FLUSH still holds of the instruction in ID. *)
Excepting == instr_id.op \in {"ECALL", "EBREAK", "FETCH_ERR"} \/ illegal_insn

Flushing ==
    ctrl_fsm_cs = "FLUSH" =>
        /\ exc_req_q = Excepting
        /\ (WritebackStage /\ (load_err_q \/ store_err_q)) \/ instr_valid
        /\ \/ ExcInFlush
           \/ instr_id.op \in {"MRET", "DRET", "WFI"} \cup FlushOps
        /\ enter_debug_mode_prio_q => ~debug_mode_q

DebugEntry ==
    /\ ctrl_fsm_cs = "DBG_TAKEN_IF" => ~debug_mode_q
    /\ ctrl_fsm_cs = "DBG_TAKEN_ID" => debug_mode_q \/ ebreak_into_debug

(* While a debugger steps, nothing follows the first instruction. *)
SingleStep ==
    /\ Stepping(dcsr, debug_mode_q) =>
          /\ ctrl_fsm_cs = "FLUSH" => enter_debug_mode_prio_q /\ do_single_step_q
          /\ AccessInWb => ~instr_valid /\ do_single_step_q
    /\ stepped =>
          /\ ctrl_fsm_cs \in {"DECODE", "FLUSH", "DBG_TAKEN_IF"}
          /\ ~AccessInWb /\ ~load_err_q /\ ~store_err_q
          /\ instr_valid => FlushingRetired
          /\ ~debug_mode_q => "step" \in dcsr.on /\ do_single_step_q

PreciseInv == IInv /\ InOrder /\ SetOrWillBe /\ Flushing /\ DebugEntry /\ SingleStep

(* The same of the state after a step. *)
LEMMA PreciseNext ==
    PreciseInv' <=> IInv' /\ InOrder' /\ SetOrWillBe' /\ Flushing' /\ DebugEntry'
                    /\ SingleStep'
  BY DEF PreciseInv

-----------------------------------------------------------------------------
(* Where the first instruction that has not retired is. *)
ArchPcIs ==
    /\ ctrl_fsm_cs \in {"RESET", "BOOT_SET"} => ArchPc = Vector["boot"]
    /\ ctrl_fsm_cs \in {"WAIT_SLEEP", "SLEEP", "FIRST_FETCH", "IRQ_TAKEN", "DBG_TAKEN_IF"}
         => ArchPc = pc_if
    /\ ctrl_fsm_cs = "DBG_TAKEN_ID" => ArchPc = pc_id
    /\ ctrl_fsm_cs = "DECODE"
         => ArchPc = IF AccessInWb THEN pc_wb ELSE IF instr_valid THEN pc_id ELSE pc_if
    /\ ctrl_fsm_cs = "FLUSH"
         => ArchPc = IF WritebackStage /\ (load_err_q \/ store_err_q) THEN pc_wb
                     ELSE IF instr_valid /\ ~FlushingRetired THEN pc_id ELSE pc_if

LEMMA ArchPcNow == IInv => ArchPcIs
<1> SUFFICES ASSUME IInv PROVE ArchPcIs
  OBVIOUS
<1>1. /\ ctrl_fsm_cs # "DECODE" => ~AccessInWb
      /\ AccessInWb => WritebackStage
      /\ load_err_q \/ store_err_q => ctrl_fsm_cs = "FLUSH"
      /\ instr_valid => ctrl_fsm_cs \in {"DECODE", "FLUSH"}
      /\ FlushingRetired => ctrl_fsm_cs = "FLUSH"
  BY DEF IInv, AtRestOutsideDecode, Flight, AccessInWb, MemOps, FlushingRetired
<1>2. CASE ctrl_fsm_cs \in {"RESET", "BOOT_SET"}
  BY <1>1, <1>2 DEF ArchPc, ArchPcIs
<1>3. CASE ctrl_fsm_cs \in {"WAIT_SLEEP", "SLEEP", "FIRST_FETCH", "IRQ_TAKEN", "DBG_TAKEN_IF",
                            "DBG_TAKEN_ID"}
  BY <1>1, <1>3 DEF ArchPc, ArchPcIs
<1>4. CASE ctrl_fsm_cs = "DECODE"
  BY <1>1, <1>4 DEF ArchPc, ArchPcIs
<1>5. CASE ctrl_fsm_cs = "FLUSH"
  BY <1>1, <1>5 DEF ArchPc, ArchPcIs
<1> QED
  BY <1>2, <1>3, <1>4, <1>5 DEF IInv, TypeOK, States

LEMMA ArchPcNext == IInv' => ArchPcIs'
  BY ArchPcNow, PTL

-----------------------------------------------------------------------------
(* After a step outside DECODE nothing is in flight, and ID is empty or    *)
(* holds what was fetched.                                                 *)
Landed ==
    /\ wb' = "NONE" /\ FirstCycle' /\ ~load_err_q' /\ ~store_err_q'
    /\ ctrl_fsm_cs' \notin {"FLUSH", "RESET"}
    /\ ~branch_jump_set_done_q' /\ ~branch_set_raw_q'
    /\ instr_valid' => pc_if' = Succ(pc_id')

LEMMA LandedInv ==
    ASSUME Landed
    PROVE  InOrder' /\ SetOrWillBe' /\ Flushing'
<1>1. ~AccessInWb'
  BY DEF Landed, AccessInWb, MemOps
<1>2. InOrder'
  BY <1>1 DEF Landed, InOrder, Following
<1>3. SetOrWillBe'
  BY DEF Landed, SetOrWillBe
<1>4. Flushing'
  BY DEF Landed, Flushing
<1> QED
  BY <1>2, <1>3, <1>4

LEMMA LandedPc ==
    ASSUME Landed, IInv'
    PROVE  /\ ctrl_fsm_cs' = "BOOT_SET" => ArchPc' = Vector["boot"]
           /\ ctrl_fsm_cs' = "DBG_TAKEN_ID" => ArchPc' = pc_id'
           /\ ctrl_fsm_cs' \notin {"BOOT_SET", "DBG_TAKEN_ID"} /\ ~instr_valid'
                => ArchPc' = pc_if'
           /\ instr_valid' => ArchPc' = pc_id'
<1>1. ArchPcIs' /\ ~AccessInWb'
  BY ArchPcNext DEF Landed, AccessInWb, MemOps
<1>2. ctrl_fsm_cs' \in States \ {"FLUSH", "RESET"}
  BY DEF Landed, IInv, TypeOK
<1>3. instr_valid' => ctrl_fsm_cs' = "DECODE"
  BY <1>2 DEF Landed, IInv, AtRestOutsideDecode
<1> QED
  BY <1>1, <1>2, <1>3 DEF ArchPcIs, States

(* A step in which no instruction completes. *)
LEMMA NothingStepped ==
    ASSUME stepped' = (Stepping(dcsr, debug_mode_q) /\ (stepped \/ Stepped(event'))),
           ~event'.mem, stepped => ~Stepped(event')
    PROVE  Hart!Step
  BY SameIsa DEF Hart!Step

LEMMA HartQuiet ==
    ASSUME stepped' = (Stepping(dcsr, debug_mode_q) /\ (stepped \/ Stepped(event'))),
           event' = NoEvent, ArchPc' = ArchPc,
           UNCHANGED <<nmi_mode_q, debug_mode_q, csrs>>
    PROVE  Hart!Next
<1>1. ~event'.mem /\ ~Stepped(event')
  BY DEF NoEvent, Stepped
<1>2. Hart!Step
  BY <1>1, NothingStepped
<1>3. Hart!Quiet
  BY SameIsa DEF Hart!Quiet, Hart!csrs, csrs, trap
<1> QED
  BY <1>2, <1>3 DEF Hart!Next

LEMMA NoEventNotStepped ==
    ~NoEvent.mem /\ NoEvent.retired = NoInstr /\ NoEvent.trap = "none" /\ ~Stepped(NoEvent)
  BY DEF NoEvent, Stepped

(* What every step outside DECODE that keeps the PC or sets it does. *)
LEMMA LandsEmpty ==
    ASSUME PreciseInv, NEW in \in Input, ctrl_fsm_cs # "DECODE", Still(in),
           NEW entering \in BOOLEAN, Requests(in, entering),
           NEW ready \in BOOLEAN, NEW addr,
           SetPc(in, ready, addr) \/ KeepPc(in, FALSE, TRUE),
           ctrl_fsm_cs' \notin {"FLUSH", "RESET"}
    PROVE  /\ Landed /\ ~instr_valid'
           /\ SetPc(in, ready, addr) => pc_if' = addr
           /\ KeepPc(in, FALSE, TRUE) => pc_if' = pc_if /\ pc_id' = pc_id
<1>1. wb' = "NONE" /\ FirstCycle' /\ ~load_err_q' /\ ~store_err_q'
  BY OutsideStill DEF PreciseInv
<1>2. ~branch_set_raw_d
  BY OutsideDecode DEF PreciseInv
<1>3. instr_id' = NoInstr /\ ~branch_set_raw_q' /\ ~branch_jump_set_done_q'
  BY <1>2, SetPcEmpties, KeepPcEmpties
<1>4. /\ SetPc(in, ready, addr) => pc_if' = addr
      /\ KeepPc(in, FALSE, TRUE) => pc_if' = pc_if /\ pc_id' = pc_id
  BY DEF SetPc, KeepPc, Advance
<1> QED
  BY <1>1, <1>3, <1>4 DEF Landed, instr_valid

LEMMA LandsFetched ==
    ASSUME PreciseInv, NEW in \in Input, ctrl_fsm_cs # "DECODE", Still(in),
           NEW entering \in BOOLEAN, Requests(in, entering),
           NEW ready \in BOOLEAN, KeepPc(in, ready, TRUE), ctrl_fsm_cs' \notin {"FLUSH", "RESET"}
    PROVE  /\ Landed
           /\ instr_valid' => pc_id' = pc_if
           /\ ~instr_valid' => pc_if' = pc_if
<1>1. wb' = "NONE" /\ FirstCycle' /\ ~load_err_q' /\ ~store_err_q'
  BY OutsideStill DEF PreciseInv
<1>2. ~branch_set_raw_d
  BY OutsideDecode DEF PreciseInv
<1>3. ~branch_set_raw_q' /\ ~branch_jump_set_done_q'
  BY <1>2 DEF KeepPc, Advance
<1>4. CASE in.fetch /\ ready
  BY <1>1, <1>3, <1>4, Instructions DEF Landed, KeepPc, Advance, instr_valid
<1>5. CASE ~(in.fetch /\ ready)
  BY <1>1, <1>3, <1>5 DEF Landed, KeepPc, Advance, instr_valid
<1> QED
  BY <1>4, <1>5

-----------------------------------------------------------------------------
LEMMA LandedStep ==
    ASSUME Landed,
           stepped' => /\ ctrl_fsm_cs' \in {"DECODE", "DBG_TAKEN_IF"} /\ ~instr_valid'
                       /\ ~debug_mode_q' => "step" \in (dcsr').on /\ do_single_step_q'
    PROVE  SingleStep'
<1>1. ~AccessInWb'
  BY DEF Landed, AccessInWb, MemOps
<1> QED
  BY <1>1 DEF Landed, SingleStep

(* Nothing is stepped in the states that wait. *)
LEMMA NotStepped ==
    ASSUME PreciseInv, ctrl_fsm_cs \notin {"DECODE", "FLUSH", "DBG_TAKEN_IF"}
    PROVE  ~stepped
  BY DEF PreciseInv, SingleStep

LEMMA CycleFacts ==
    ASSUME PreciseInv, NEW in \in Input, Cycle(in)
    PROVE  /\ IInv /\ IInv'
           /\ stepped' = (Stepping(dcsr, debug_mode_q) /\ (stepped \/ Stepped(event')))
  BY CycleInv DEF PreciseInv, Cycle

LEMMA BootPrecise ==
    ASSUME PreciseInv, NEW in \in Input, Cycle(in), Boot(in)
    PROVE  PreciseInv' /\ Hart!Next
<1>1. /\ ctrl_fsm_cs \in {"RESET", "BOOT_SET"} /\ ctrl_fsm_cs' \in {"BOOT_SET", "FIRST_FETCH"}
      /\ SetPc(in, TRUE, Vector["boot"]) /\ Requests(in, FALSE) /\ Still(in)
      /\ event' = NoEvent /\ UNCHANGED <<nmi_mode_q, debug_mode_q, csrs>>
  BY DEF Boot
<1>2. Landed /\ ~instr_valid' /\ pc_if' = Vector["boot"]
  BY <1>1, LandsEmpty
<1>3. ArchPc = Vector["boot"]
  BY <1>1, ArchPcNow DEF ArchPcIs, PreciseInv
<1>4. ArchPc' = Vector["boot"]
  BY <1>1, <1>2, CycleFacts, LandedPc
<1>5. ~stepped'
  BY <1>1, CycleFacts, NotStepped, NoEventNotStepped
<1>6. Hart!Next
  BY <1>1, <1>3, <1>4, CycleFacts, HartQuiet
<1>7. DebugEntry'
  BY <1>1 DEF DebugEntry
<1> QED
  BY <1>2, <1>5, <1>6, <1>7, CycleFacts, LandedInv, LandedStep, PreciseNext

LEMMA SleepPrecise ==
    ASSUME PreciseInv, NEW in \in Input, Cycle(in), Sleep(in)
    PROVE  PreciseInv' /\ Hart!Next
<1>1. /\ ctrl_fsm_cs \in {"WAIT_SLEEP", "SLEEP"} /\ ctrl_fsm_cs' \in {"SLEEP", "FIRST_FETCH"}
      /\ KeepPc(in, FALSE, TRUE) /\ Requests(in, FALSE) /\ Still(in)
      /\ event' = NoEvent /\ UNCHANGED <<nmi_mode_q, debug_mode_q, csrs>>
  BY DEF Sleep
<1>2. Landed /\ ~instr_valid' /\ pc_if' = pc_if
  BY <1>1, LandsEmpty
<1>3. ArchPc = pc_if
  BY <1>1, ArchPcNow DEF ArchPcIs, PreciseInv
<1>4. ArchPc' = pc_if
  BY <1>1, <1>2, CycleFacts, LandedPc
<1>5. ~stepped'
  BY <1>1, CycleFacts, NotStepped, NoEventNotStepped
<1>6. Hart!Next
  BY <1>1, <1>3, <1>4, CycleFacts, HartQuiet
<1>7. DebugEntry'
  BY <1>1 DEF DebugEntry
<1> QED
  BY <1>2, <1>5, <1>6, <1>7, CycleFacts, LandedInv, LandedStep, PreciseNext

LEMMA FirstFetchPrecise ==
    ASSUME PreciseInv, NEW in \in Input, Cycle(in), FirstFetch(in)
    PROVE  PreciseInv' /\ Hart!Next
<1> DEFINE ready == ~stall(in) /\ ~(enter_debug_mode(in) \/ handle_irq(in))
<1>0. ~stall(in)
  <2>1. ~instr_valid
    BY DEF FirstFetch, PreciseInv, IInv, AtRestOutsideDecode
  <2> QED
    BY <2>1, EmptyIdDoesNotStall
<1>1. /\ ctrl_fsm_cs = "FIRST_FETCH" /\ ctrl_fsm_cs' \in {"DBG_TAKEN_IF", "IRQ_TAKEN", "DECODE"}
      /\ ctrl_fsm_cs' = "DBG_TAKEN_IF" => enter_debug_mode(in)
      /\ KeepPc(in, ready, TRUE) /\ Requests(in, FALSE) /\ Still(in)
      /\ event' = NoEvent /\ UNCHANGED <<nmi_mode_q, debug_mode_q, csrs>>
  <2>1. CASE enter_debug_mode(in)
    BY <1>0, <2>1 DEF FirstFetch
  <2>2. CASE ~enter_debug_mode(in) /\ handle_irq(in)
    BY <1>0, <2>2 DEF FirstFetch
  <2>3. CASE ~enter_debug_mode(in) /\ ~handle_irq(in)
    BY <1>0, <2>3 DEF FirstFetch
  <2> QED
    BY <2>1, <2>2, <2>3
<1>2. /\ Landed
      /\ instr_valid' => pc_id' = pc_if
      /\ ~instr_valid' => pc_if' = pc_if
  <2>1. ready \in BOOLEAN
    OBVIOUS
  <2> HIDE DEF ready
  <2> QED
    BY <1>1, <2>1, LandsFetched
<1>3. ArchPc = pc_if
  BY <1>1, ArchPcNow DEF ArchPcIs, PreciseInv
<1>4. ArchPc' = pc_if
  BY <1>1, <1>2, CycleFacts, LandedPc
<1>5. ~stepped'
  BY <1>1, CycleFacts, NotStepped, NoEventNotStepped
<1>6. Hart!Next
  BY <1>1, <1>3, <1>4, CycleFacts, HartQuiet
<1>7. DebugEntry'
  BY <1>1 DEF DebugEntry, enter_debug_mode
<1> QED
  BY <1>2, <1>5, <1>6, <1>7, CycleFacts, LandedInv, LandedStep, PreciseNext

LEMMA IrqTakenPrecise ==
    ASSUME PreciseInv, NEW in \in Input, Cycle(in), IrqTaken(in)
    PROVE  PreciseInv' /\ Hart!Next
<1>0. ~stall(in)
  <2>1. ~instr_valid
    BY DEF IrqTaken, PreciseInv, IInv, AtRestOutsideDecode
  <2> QED
    BY <2>1, EmptyIdDoesNotStall
<1>1. /\ ctrl_fsm_cs = "IRQ_TAKEN" /\ ctrl_fsm_cs' = "DECODE" /\ Still(in)
      /\ UNCHANGED <<sync_exc_seen, debug_mode_q, dcsr, depc>>
  BY DEF IrqTaken
<1>2. ~stepped /\ ArchPc = pc_if
  BY <1>1, NotStepped, ArchPcNow DEF ArchPcIs, PreciseInv
<1>3. DebugEntry'
  BY <1>1 DEF DebugEntry
<1>4. CASE handle_irq(in)
  <2> DEFINE line == IF irq_nm(in) THEN "nmi" ELSE "irq"
  <2>1. /\ SetPc(in, ~stall(in), Vector[line])
        /\ SaveTrap(pc_if)
        /\ priv_lvl_q' = "M"
        /\ nmi_mode_q' = (line = "nmi")
        /\ Requests(in, line = "nmi")
        /\ event' = [NoEvent EXCEPT !.trap = line]
        /\ line \in {"irq", "nmi"}
        /\ line = "irq" => mstatus.mie
        /\ ~debug_mode_q /\ ~nmi_mode_q
    BY <1>4 DEF IrqTaken, handle_irq
  <2> HIDE DEF line
  <2>2. Landed /\ ~instr_valid' /\ pc_if' = Vector[line]
    <3>1. (line = "nmi") \in BOOLEAN /\ (~stall(in)) \in BOOLEAN
      OBVIOUS
    <3> QED
      BY <1>1, <2>1, <3>1, LandsEmpty
  <2>3. ArchPc' = Vector[line]
    BY <1>1, <2>2, CycleFacts, LandedPc
  <2>4. ~Stepped(event') /\ ~event'.mem /\ event'.trap = line
    <3>1. event' = [mem |-> FALSE, retired |-> NoInstr, trap |-> line]
      BY <2>1 DEF NoEvent
    <3> QED
      BY <2>1, <3>1 DEF Stepped
  <2>5. ~stepped'
    BY <1>2, <2>4, CycleFacts
  <2>6. Hart!Interrupt
    <3>1. Hart!Save
      BY <1>2, <2>1 DEF Hart!Save, SaveTrap
    <3>2. event' = [Hart!NoEvent EXCEPT !.trap = line]
      BY <2>1, SameIsa
    <3>3. \/ mstatus.mie /\ event' = [Hart!NoEvent EXCEPT !.trap = "irq"]
          \/ event' = [Hart!NoEvent EXCEPT !.trap = "nmi"]
      BY <2>1, <3>2
    <3>4. /\ nmi_mode_q' = ((event').trap = "nmi") /\ ArchPc' = Vector[(event').trap]
          /\ priv_lvl_q' = "M" /\ ~debug_mode_q /\ ~nmi_mode_q
      BY <2>1, <2>3, <2>4
    <3> QED
      BY <1>1, <3>1, <3>3, <3>4 DEF Hart!Interrupt
  <2>7. Hart!Next
    BY <1>2, <2>4, <2>6, CycleFacts, NothingStepped DEF Hart!Next
  <2> QED
    BY <1>3, <2>2, <2>5, <2>7, CycleFacts, LandedInv, LandedStep, PreciseNext
<1>5. CASE ~handle_irq(in)
  <2>1. /\ KeepPc(in, TRUE, TRUE) /\ Requests(in, FALSE) /\ event' = NoEvent
        /\ UNCHANGED <<nmi_mode_q, debug_mode_q, csrs>>
    BY <1>0, <1>5 DEF IrqTaken, csrs, trap
  <2>2. /\ Landed
        /\ instr_valid' => pc_id' = pc_if
        /\ ~instr_valid' => pc_if' = pc_if
    BY <1>1, <2>1, LandsFetched
  <2>3. ArchPc' = pc_if
    BY <1>1, <2>2, CycleFacts, LandedPc
  <2>4. Hart!Next
    BY <1>2, <2>1, <2>3, CycleFacts, HartQuiet
  <2>5. ~stepped'
    BY <1>2, <2>1, CycleFacts, NoEventNotStepped
  <2> QED
    BY <1>3, <2>2, <2>4, <2>5, CycleFacts, LandedInv, LandedStep, PreciseNext
<1> QED
  BY <1>4, <1>5

LEMMA EnterDebugPrecise ==
    ASSUME PreciseInv, NEW in \in Input, Cycle(in), DbgTakenIf(in) \/ DbgTakenId(in)
    PROVE  PreciseInv' /\ Hart!Next
<1>1. /\ ctrl_fsm_cs \in {"DBG_TAKEN_IF", "DBG_TAKEN_ID"} /\ ctrl_fsm_cs' = "DECODE"
      /\ SetPc(in, ~stall(in), Vector["debug"]) /\ Requests(in, FALSE) /\ Still(in)
      /\ debug_mode_q' = TRUE /\ UNCHANGED <<nmi_mode_q, trap>>
  BY DEF DbgTakenIf, DbgTakenId
<1>2. Landed /\ ~instr_valid' /\ pc_if' = Vector["debug"]
  <2>1. (~stall(in)) \in BOOLEAN
    OBVIOUS
  <2> QED
    BY <1>1, <2>1, LandsEmpty
<1>3. ArchPc' = Vector["debug"]
  BY <1>1, <1>2, CycleFacts, LandedPc
<1>4. /\ ctrl_fsm_cs = "DBG_TAKEN_IF" => ArchPc = pc_if /\ ~debug_mode_q
      /\ ctrl_fsm_cs = "DBG_TAKEN_ID" => ArchPc = pc_id /\ (debug_mode_q \/ ebreak_into_debug)
  BY ArchPcNow DEF ArchPcIs, PreciseInv, DebugEntry
<1>5. Hart!EnterDebug \/ Hart!ReenterDebug
  <2>1. CASE EnterDebugAt(ArchPc) /\ ~debug_mode_q
    <3>1. Hart!EnterDebug
      BY <1>1, <1>3, <2>1, SameIsa DEF Hart!EnterDebug, EnterDebugAt, trap
    <3> QED
      BY <3>1
  <2>2. CASE /\ event' = [NoEvent EXCEPT !.trap = "redebug"] /\ debug_mode_q
             /\ UNCHANGED <<depc, dcsr, priv_lvl_q>>
    <3>1. debug_mode_q = TRUE
      BY <2>2, CycleFacts DEF IInv, TypeOK
    <3>2. Hart!ReenterDebug
      BY <1>1, <1>3, <2>2, <3>1, SameIsa DEF Hart!ReenterDebug, Hart!csrs, trap
    <3> QED
      BY <3>2
  <2>3. CASE ctrl_fsm_cs = "DBG_TAKEN_IF"
    BY <1>4, <2>1, <2>3 DEF DbgTakenIf, DbgTakenId
  <2>4. CASE ctrl_fsm_cs = "DBG_TAKEN_ID"
    BY <1>4, <2>1, <2>2, <2>4 DEF DbgTakenIf, DbgTakenId
  <2> QED
    BY <1>1, <2>3, <2>4
<1>6. ~Stepped(event') /\ ~event'.mem
  <2>1. event' \in {[NoEvent EXCEPT !.trap = "debug"], [NoEvent EXCEPT !.trap = "redebug"]}
    BY DEF DbgTakenIf, DbgTakenId, EnterDebugAt
  <2> QED
    BY <2>1 DEF NoEvent, Stepped
<1>7. Hart!Next
  BY <1>5, <1>6, CycleFacts, NothingStepped DEF Hart!Next
<1>8. DebugEntry' /\ SingleStep'
  BY <1>1, <1>2, LandedStep DEF DebugEntry
<1> QED
  BY <1>2, <1>7, <1>8, CycleFacts, LandedInv, PreciseNext

-----------------------------------------------------------------------------
(* FLUSH. *)
LEMMA InFlush ==
    ASSUME PreciseInv, ctrl_fsm_cs = "FLUSH"
    PROVE  /\ ExcInFlush => ArchPc = ExceptionPc
           /\ ~ExcInFlush => /\ instr_valid /\ instr_id.op \in {"MRET", "DRET", "WFI"} \cup FlushOps
                             /\ ~illegal_insn
                             /\ ArchPc = IF instr_id.op \in FlushOps THEN pc_if ELSE pc_id
           /\ stepped => ~ExcInFlush /\ instr_id.op \in FlushOps
<1>1. /\ exc_req_q = Excepting
      /\ (WritebackStage /\ (load_err_q \/ store_err_q)) \/ instr_valid
      /\ ExcInFlush \/ instr_id.op \in {"MRET", "DRET", "WFI"} \cup FlushOps
  BY DEF PreciseInv, Flushing
<1>2. ArchPc = IF WritebackStage /\ (load_err_q \/ store_err_q) THEN pc_wb
               ELSE IF instr_valid /\ ~FlushingRetired THEN pc_id ELSE pc_if
  BY ArchPcNow DEF ArchPcIs, PreciseInv
<1>3. ExcInFlush => ArchPc = ExceptionPc
  BY <1>1, <1>2 DEF ExceptionPc, FlushingRetired
<1>4. ~ExcInFlush => ~load_err_q /\ ~store_err_q /\ ~exc_req_q
  BY DEF ExcInFlush
<1>5. ~ExcInFlush => /\ instr_valid /\ instr_id.op \in {"MRET", "DRET", "WFI"} \cup FlushOps
                     /\ ~illegal_insn
  BY <1>1, <1>4 DEF Excepting
<1>6. ~ExcInFlush => ArchPc = IF instr_id.op \in FlushOps THEN pc_if ELSE pc_id
  BY <1>2, <1>4, <1>5 DEF FlushingRetired
<1>7. stepped => ~ExcInFlush /\ instr_id.op \in FlushOps
  <2>1. stepped => ~load_err_q /\ ~store_err_q /\ (instr_valid => FlushingRetired)
    BY DEF PreciseInv, SingleStep
  <2> QED
    BY <1>1, <2>1 DEF FlushingRetired
<1> QED
  BY <1>3, <1>5, <1>6, <1>7

(* Where FLUSH goes when the EBREAK does not enter debug mode. *)
LEMMA LeavesFlush ==
    ASSUME PreciseInv, NEW in \in Input, ctrl_fsm_cs = "FLUSH", Requests(in, FALSE),
           NEW otherwise \in {"DECODE", "WAIT_SLEEP"}, ctrl_fsm_cs' = AfterFlush(otherwise),
           ~EbreakToDebug
    PROVE  /\ ctrl_fsm_cs' \in {"DECODE", "WAIT_SLEEP", "DBG_TAKEN_IF"}
           /\ ctrl_fsm_cs' = "DBG_TAKEN_IF" => ~debug_mode_q
           /\ Stepping(dcsr, debug_mode_q) => ctrl_fsm_cs' = "DBG_TAKEN_IF" /\ do_single_step_q'
<1>1. ctrl_fsm_cs' = IF enter_debug_mode_prio_q THEN "DBG_TAKEN_IF" ELSE otherwise
  BY DEF AfterFlush, EbreakToDebug
<1>2. enter_debug_mode_prio_q => ~debug_mode_q
  BY DEF PreciseInv, Flushing
<1>3. Stepping(dcsr, debug_mode_q) => enter_debug_mode_prio_q /\ do_single_step_q
  BY DEF PreciseInv, SingleStep
<1>4. Stepping(dcsr, debug_mode_q) => do_single_step_q'
  BY <1>3 DEF Requests, do_single_step_d, Stepping
<1> QED
  BY <1>1, <1>2, <1>3, <1>4

LEMMA FlushExceptionPrecise ==
    ASSUME PreciseInv, NEW in \in Input, Cycle(in), FlushException(in)
    PROVE  PreciseInv' /\ Hart!Next
<1> DEFINE addr == Vector[IF debug_mode_q THEN "debug_exc" ELSE "exc"]
<1>1. /\ ctrl_fsm_cs = "FLUSH" /\ ExcInFlush /\ ~EbreakToDebug
      /\ ctrl_fsm_cs' = AfterFlush("DECODE")
      /\ SetPc(in, FALSE, addr) /\ Requests(in, FALSE) /\ Still(in)
      /\ priv_lvl_q' = "M" /\ UNCHANGED <<nmi_mode_q, debug_mode_q, dcsr, depc>>
  BY DEF FlushException
<1>2. /\ ctrl_fsm_cs' \in {"DECODE", "WAIT_SLEEP", "DBG_TAKEN_IF"}
      /\ ctrl_fsm_cs' = "DBG_TAKEN_IF" => ~debug_mode_q
      /\ Stepping(dcsr, debug_mode_q) => ctrl_fsm_cs' = "DBG_TAKEN_IF" /\ do_single_step_q'
  BY <1>1, LeavesFlush
<1> HIDE DEF addr
<1>3. Landed /\ ~instr_valid' /\ pc_if' = addr
  BY <1>1, <1>2, LandsEmpty
<1>4. ArchPc' = addr
  BY <1>1, <1>2, <1>3, CycleFacts, LandedPc
<1>5. ArchPc = ExceptionPc /\ ~stepped
  BY <1>1, InFlush
<1>6. Hart!Exception
  <2>1. CASE debug_mode_q
    <3>1. event' = [NoEvent EXCEPT !.trap = "exc"] /\ UNCHANGED trap
      BY <2>1 DEF FlushException
    <3> QED
      BY <1>1, <1>4, <2>1, <3>1, SameIsa DEF Hart!Exception, addr, trap
  <2>2. CASE ~debug_mode_q
    <3>1. /\ event' = [NoEvent EXCEPT !.trap = Fault(sync_exc_seen)]
          /\ SaveTrap(ExceptionPc) /\ sync_exc_seen' = TRUE
      BY <2>2 DEF FlushException
    <3>2. Hart!Save
      BY <1>5, <3>1 DEF Hart!Save, SaveTrap
    <3>3. event' = [Hart!NoEvent EXCEPT !.trap = Hart!Fault(sync_exc_seen)]
      BY <3>1, SameIsa
    <3> QED
      BY <1>1, <1>4, <2>2, <3>1, <3>2, <3>3 DEF Hart!Exception, addr
  <2> QED
    BY <2>1, <2>2
<1>7. ~event'.mem
  <2>1. event' = [NoEvent EXCEPT !.trap = "exc"]
          \/ event' = [NoEvent EXCEPT !.trap = Fault(sync_exc_seen)]
    BY DEF FlushException
  <2> QED
    BY <2>1 DEF NoEvent
<1>8. Hart!Next
  BY <1>5, <1>6, <1>7, CycleFacts, NothingStepped DEF Hart!Next
<1>9. SingleStep'
  <2>1. stepped' => Stepping(dcsr, debug_mode_q)
    BY CycleFacts
  <2> QED
    BY <1>1, <1>2, <1>3, <2>1, LandedStep DEF Stepping
<1>10. DebugEntry'
  BY <1>1, <1>2 DEF DebugEntry
<1> QED
  BY <1>3, <1>8, <1>9, <1>10, CycleFacts, LandedInv, PreciseNext

LEMMA FlushEbreakPrecise ==
    ASSUME PreciseInv, NEW in \in Input, Cycle(in), FlushEbreak(in)
    PROVE  PreciseInv' /\ Hart!Next
<1>1. /\ ctrl_fsm_cs = "FLUSH" /\ EbreakToDebug
      /\ KeepPc(in, FALSE, ~stall(in)) /\ Requests(in, FALSE) /\ Still(in)
      /\ event' = NoEvent /\ UNCHANGED <<nmi_mode_q, debug_mode_q, csrs>>
  BY DEF FlushEbreak
<1>2. /\ ExcInFlush /\ instr_id.op = "EBREAK" /\ ~load_err_q /\ ~store_err_q
      /\ debug_mode_q \/ ebreak_into_debug
  BY <1>1 DEF EbreakToDebug, EbreakTaken
<1>3. ctrl_fsm_cs' = "DBG_TAKEN_ID"
  <2>1. enter_debug_mode_prio_q => ~debug_mode_q
    BY <1>1 DEF PreciseInv, Flushing
  <2>2. ctrl_fsm_cs' = AfterFlush("DBG_TAKEN_ID")
    BY DEF FlushEbreak
  <2> QED
    BY <1>1, <1>2, <2>1, <2>2 DEF AfterFlush, EbreakToDebug
<1>4. KeepPc(in, FALSE, TRUE)
  <2>1. ~stall(in)
    BY <1>1, <1>2, EbreakDoesNotStall DEF PreciseInv
  <2> QED
    BY <1>1, <2>1
<1>5. Landed /\ ~instr_valid' /\ pc_id' = pc_id
  BY <1>1, <1>3, <1>4, LandsEmpty
<1>6. ArchPc' = pc_id
  BY <1>3, <1>5, CycleFacts, LandedPc
<1>7. ArchPc = pc_id /\ ~stepped
  BY <1>1, <1>2, InFlush DEF ExceptionPc
<1>8. ~stepped'
  BY <1>1, <1>7, CycleFacts, NoEventNotStepped
<1>9. Hart!Next
  BY <1>1, <1>6, <1>7, CycleFacts, HartQuiet
<1>10. DebugEntry'
  BY <1>1, <1>2, <1>3 DEF DebugEntry, ebreak_into_debug, csrs
<1> QED
  BY <1>5, <1>8, <1>9, <1>10, CycleFacts, LandedInv, LandedStep, PreciseNext

LEMMA FlushMretPrecise ==
    ASSUME PreciseInv, NEW in \in Input, Cycle(in), FlushMret(in)
    PROVE  PreciseInv' /\ Hart!Next
<1>1. /\ ctrl_fsm_cs = "FLUSH" /\ ~ExcInFlush /\ instr_id.op = "MRET" /\ ~EbreakToDebug
      /\ ctrl_fsm_cs' = AfterFlush("DECODE")
      /\ SetPc(in, FALSE, mepc) /\ Requests(in, FALSE) /\ Still(in)
      /\ event' = [NoEvent EXCEPT !.retired = instr_id]
      /\ UNCHANGED <<debug_mode_q, mstack, dcsr, depc>>
  BY DEF FlushMret, EbreakToDebug
<1>2. /\ ctrl_fsm_cs' \in {"DECODE", "WAIT_SLEEP", "DBG_TAKEN_IF"}
      /\ ctrl_fsm_cs' = "DBG_TAKEN_IF" => ~debug_mode_q
      /\ Stepping(dcsr, debug_mode_q) => ctrl_fsm_cs' = "DBG_TAKEN_IF" /\ do_single_step_q'
  BY <1>1, LeavesFlush
<1>3. Landed /\ ~instr_valid' /\ pc_if' = mepc
  BY <1>1, <1>2, LandsEmpty
<1>4. ArchPc' = mepc
  BY <1>1, <1>2, <1>3, CycleFacts, LandedPc
<1>5. priv_lvl_q = "M" /\ ~stepped
  <2>1. ~illegal_insn /\ ~stepped
    BY <1>1, InFlush DEF FlushOps
  <2> QED
    BY <1>1, <2>1 DEF illegal_insn, IllegalInsn
<1>6. event'.retired = instr_id /\ ~event'.mem
  BY <1>1 DEF NoEvent
<1>7. Hart!Mret
  <2>1. (event').retired.op = "MRET"
    BY <1>1, <1>6
  <2>2. /\ priv_lvl_q' = mstatus.mpp /\ nmi_mode_q' = FALSE /\ sync_exc_seen' = FALSE
        /\ mepc' = IF nmi_mode_q THEN mstack.epc ELSE mepc
        /\ mstatus' = [mie  |-> mstatus.mpie,
                       mpie |-> IF nmi_mode_q THEN mstack.mpie ELSE TRUE,
                       mpp  |-> IF nmi_mode_q THEN mstack.mpp ELSE "U"]
    BY DEF FlushMret
  <2> QED
    BY <1>1, <1>4, <1>5, <2>1, <2>2 DEF Hart!Mret
<1>8. Hart!Next
  BY <1>5, <1>6, <1>7, CycleFacts, NothingStepped DEF Hart!Next
<1>9. SingleStep'
  <2>1. stepped' => Stepping(dcsr, debug_mode_q)
    BY CycleFacts
  <2> QED
    BY <1>1, <1>2, <1>3, <2>1, LandedStep DEF Stepping
<1>10. DebugEntry'
  BY <1>1, <1>2 DEF DebugEntry
<1> QED
  BY <1>3, <1>8, <1>9, <1>10, CycleFacts, LandedInv, PreciseNext

LEMMA FlushDretPrecise ==
    ASSUME PreciseInv, NEW in \in Input, Cycle(in), FlushDret(in)
    PROVE  PreciseInv' /\ Hart!Next
<1>1. /\ ctrl_fsm_cs = "FLUSH" /\ ~ExcInFlush /\ instr_id.op = "DRET" /\ ~EbreakToDebug
      /\ ctrl_fsm_cs' = AfterFlush("DECODE")
      /\ SetPc(in, FALSE, depc) /\ Requests(in, FALSE) /\ Still(in)
      /\ event' = [NoEvent EXCEPT !.retired = instr_id]
      /\ priv_lvl_q' = dcsr.prv /\ debug_mode_q' = FALSE
      /\ UNCHANGED <<nmi_mode_q, trap, dcsr, depc>>
  BY DEF FlushDret, EbreakToDebug
<1>2. ctrl_fsm_cs' \in {"DECODE", "WAIT_SLEEP", "DBG_TAKEN_IF"}
  BY <1>1, LeavesFlush
<1>3. Landed /\ ~instr_valid' /\ pc_if' = depc
  BY <1>1, <1>2, LandsEmpty
<1>4. ArchPc' = depc
  BY <1>1, <1>2, <1>3, CycleFacts, LandedPc
<1>5. debug_mode_q /\ ~stepped
  <2>1. ~illegal_insn /\ ~stepped
    BY <1>1, InFlush DEF FlushOps
  <2> QED
    BY <1>1, <2>1 DEF illegal_insn, IllegalInsn
<1>6. event'.retired = instr_id /\ ~event'.mem
  BY <1>1 DEF NoEvent
<1>7. Hart!Dret
  <2>1. (event').retired.op = "DRET"
    BY <1>1, <1>6
  <2> QED
    BY <1>1, <1>4, <1>5, <2>1 DEF Hart!Dret, trap
<1>8. Hart!Next
  BY <1>5, <1>6, <1>7, CycleFacts, NothingStepped DEF Hart!Next
<1>9. ~stepped'
  BY <1>5, CycleFacts DEF Stepping
<1>10. DebugEntry'
  BY <1>1, <1>2 DEF DebugEntry
<1> QED
  BY <1>3, <1>8, <1>9, <1>10, CycleFacts, LandedInv, LandedStep, PreciseNext

(* A WFI retires here, a CSR instruction that flushes has done so before. *)
LEMMA FlushOnlyPrecise ==
    ASSUME PreciseInv, NEW in \in Input, Cycle(in), FlushOnly(in)
    PROVE  PreciseInv' /\ Hart!Next
<1> DEFINE next == IF instr_id.op = "WFI" THEN "WAIT_SLEEP" ELSE "DECODE"
<1>1. /\ ctrl_fsm_cs = "FLUSH" /\ ~ExcInFlush /\ ~EbreakToDebug
      /\ instr_id.op \notin {"MRET", "DRET"}
      /\ ctrl_fsm_cs' = AfterFlush(next) /\ next \in {"DECODE", "WAIT_SLEEP"}
      /\ KeepPc(in, FALSE, TRUE) /\ Requests(in, FALSE) /\ Still(in)
      /\ UNCHANGED <<nmi_mode_q, debug_mode_q, csrs>>
  BY DEF FlushOnly, EbreakToDebug
<1> HIDE DEF next
<1>2. /\ ctrl_fsm_cs' \in {"DECODE", "WAIT_SLEEP", "DBG_TAKEN_IF"}
      /\ ctrl_fsm_cs' = "DBG_TAKEN_IF" => ~debug_mode_q
      /\ Stepping(dcsr, debug_mode_q) => ctrl_fsm_cs' = "DBG_TAKEN_IF" /\ do_single_step_q'
  BY <1>1, LeavesFlush
<1>3. Landed /\ ~instr_valid' /\ pc_if' = pc_if
  BY <1>1, <1>2, LandsEmpty
<1>4. ArchPc' = pc_if
  BY <1>1, <1>2, <1>3, CycleFacts, LandedPc
<1>5. /\ instr_valid /\ instr_id.op \in {"WFI"} \cup FlushOps
      /\ ArchPc = IF instr_id.op \in FlushOps THEN pc_if ELSE pc_id
      /\ stepped => instr_id.op \in FlushOps
  BY <1>1, InFlush
<1>6. Hart!Next
  <2>1. CASE instr_id.op = "WFI"
    <3>1. event' = [NoEvent EXCEPT !.retired = instr_id]
      BY <2>1 DEF FlushOnly
    <3>2. /\ event'.retired = instr_id /\ ~event'.mem /\ event'.trap = "none"
          /\ event'.mem = FALSE
      BY <3>1 DEF NoEvent
    <3>3. ArchPc = pc_id /\ ~stepped
      BY <1>5, <2>1 DEF FlushOps
    <3>4. pc_if = Succ(pc_id)
      <4>1. pc_if = Following /\ ~branch_jump_set_done_q
        BY <1>5, <2>1 DEF PreciseInv, InOrder, SetOrWillBe
      <4> QED
        BY <4>1 DEF Following
    <3>5. NextPc(instr_id, pc_id) = pc_if
      BY <2>1, <3>4 DEF NextPc
    <3>6. /\ MieAfter(instr_id, mstatus.mie) = mstatus.mie
          /\ DcsrAfter(instr_id, dcsr.on) = dcsr.on
          /\ SeenAfter(instr_id, sync_exc_seen) = sync_exc_seen
      BY <2>1, CycleFacts DEF MieAfter, DcsrAfter, SeenAfter, IInv, TypeOK
    <3>7. Hart!Ordinary(instr_id)
      BY <2>1, SameIsa DEF Hart!Ordinary, IllegalInsn, MieOps, DcsrOps
    <3>8. /\ mstatus = [mstatus EXCEPT !.mie = mstatus.mie]
          /\ dcsr = [dcsr EXCEPT !.on = dcsr.on]
      BY CycleFacts DEF IInv, TypeOK
    <3>9. event' \in Hart!Event /\ event'.retired # Hart!NoInstr
      BY <1>5, <3>2, CycleFacts, SameIsa DEF IInv, TypeOK, instr_valid
    <3>10. Hart!Retire
      <4> DEFINE i == (event').retired
                 p == IF (event').mem THEN Hart!Succ(ArchPc) ELSE ArchPc
      <4>1. i = instr_id /\ p = pc_id
        BY <3>2, <3>3
      <4>2. i # Hart!NoInstr => Hart!Ordinary(i)
        BY <3>7, <4>1
      <4>3. ArchPc' = IF i # Hart!NoInstr THEN Hart!NextPc(i, p) ELSE p
        BY <1>4, <3>5, <3>9, <4>1, SameIsa
      <4>4. /\ mstatus' = [mstatus EXCEPT !.mie = Hart!MieAfter(i, mstatus.mie)]
            /\ dcsr' = [dcsr EXCEPT !.on = Hart!DcsrAfter(i, dcsr.on)]
            /\ sync_exc_seen' = Hart!SeenAfter(i, sync_exc_seen)
        BY <1>1, <3>6, <3>8, <4>1, SameIsa DEF csrs, trap
      <4>5. UNCHANGED <<priv_lvl_q, mepc, mstack, nmi_mode_q, debug_mode_q, depc>>
        BY <1>1 DEF csrs, trap
      <4> QED
        BY <3>2, <3>9, <4>2, <4>3, <4>4, <4>5 DEF Hart!Retire
    <3> QED
      BY <3>2, <3>3, <3>10, CycleFacts, NothingStepped DEF Hart!Next
  <2>2. CASE instr_id.op # "WFI"
    <3>1. event' = NoEvent /\ ArchPc = pc_if
      BY <1>5, <2>2 DEF FlushOnly
    <3> QED
      BY <1>1, <1>4, <3>1, CycleFacts, HartQuiet
  <2> QED
    BY <2>1, <2>2
<1>7. SingleStep'
  <2>1. stepped' => Stepping(dcsr, debug_mode_q)
    BY CycleFacts
  <2> QED
    BY <1>1, <1>2, <1>3, <2>1, LandedStep DEF Stepping, csrs
<1>8. DebugEntry'
  BY <1>1, <1>2 DEF DebugEntry
<1> QED
  BY <1>3, <1>6, <1>7, <1>8, CycleFacts, LandedInv, PreciseNext

-----------------------------------------------------------------------------
(* DECODE.  An instruction leaves ID in the cycle in which it is done. *)
LEMMA GoesWhenDone ==
    ASSUME PreciseInv, NEW in \in Input, ctrl_fsm_cs = "DECODE", instr_valid,
           ~stall(in), ~special_req(in)
    PROVE  instr_done(in) /\ ready_wb(in)
<1>1. ~stall_id(in) /\ ~stall_ld_hz /\ ~stall_mem(in)
  BY DEF stall, stall_id
<1>2. ~id_exception /\ ~lsu_err(in)
  BY DEF special_req, special_req_pc_change
<1>3. ~load_err_q /\ ~store_err_q
  BY DEF PreciseInv, IInv, Flight
<1>4. instr_id.op # "FETCH_ERR"
  BY <1>2 DEF id_exception
<1>5. instr_executing_spec
  BY <1>1, <1>4 DEF instr_executing_spec
<1>6. WritebackStage => ~outstanding_memory_access(in)
  BY <1>1 DEF stall_mem
<1>7. instr_executing(in)
  BY <1>2, <1>3, <1>5, <1>6 DEF instr_executing, wb_exception
<1>8. instr_done(in)
  BY <1>1, <1>7 DEF instr_done
<1> QED
  BY <1>7, <1>8, ExecutingIsReady DEF PreciseInv

LEMMA DoneIsReady ==
    ASSUME PreciseInv, NEW in \in Input, instr_done(in)
    PROVE  /\ instr_executing(in) /\ instr_executing_spec /\ instr_valid /\ ready_wb(in)
           /\ ctrl_fsm_cs = "DECODE" /\ ~stall(in) /\ ~stall_id(in)
           /\ WritebackStage => ~id_exception /\ ~lsu_err(in)
<1>1. instr_executing(in) /\ ~stall_id(in)
  BY DEF instr_done
<1>2. ready_wb(in) /\ instr_valid /\ instr_executing_spec
  BY <1>1, ExecutingIsReady DEF PreciseInv
<1>3. ctrl_fsm_cs = "DECODE" /\ ~stall(in)
  BY <1>1, <1>2 DEF instr_executing_spec, stall
<1>4. WritebackStage => ~id_exception /\ ~lsu_err(in)
  BY <1>1 DEF instr_executing, wb_exception
<1> QED
  BY <1>1, <1>2, <1>3, <1>4

(* Who sets the PC, and where to. *)
LEMMA OnlyBranchesSet ==
    ASSUME PreciseInv, ctrl_fsm_cs = "DECODE"
    PROVE  /\ branch_set_raw => instr_id.op = "BRANCH"
           /\ jump_set_raw => instr_id.op = "JUMP"
           /\ branch_jump_set_done_q => instr_id.op \in {"JUMP", "BRANCH"}
           /\ instr_id.op \in {"JUMP", "BRANCH"} => instr_valid
<1>1. branch_jump_set_done_q => instr_id.op \in {"JUMP", "BRANCH"}
  BY DEF PreciseInv, SetOrWillBe
<1>2. branch_set_raw => instr_id.op = "BRANCH"
  <2>1. CASE EarlyTarget
    BY <2>1 DEF EarlyTarget, branch_set_raw, branch_set_raw_d
  <2>2. CASE ~EarlyTarget
    BY <2>2 DEF EarlyTarget, branch_set_raw, PreciseInv, SetOrWillBe
  <2> QED
    BY <2>1, <2>2
<1>3. jump_set_raw => instr_id.op = "JUMP"
  BY DEF jump_set_raw
<1>4. instr_id.op \in {"JUMP", "BRANCH"} => instr_valid
  BY Instructions DEF instr_valid
<1> QED
  BY <1>1, <1>2, <1>3, <1>4

LEMMA SetsTarget ==
    ASSUME PreciseInv, BranchSetWithTarget, NEW in \in Input, ctrl_fsm_cs = "DECODE",
           jump_or_branch_set
    PROVE  /\ instr_id.op \in {"JUMP", "BRANCH"} /\ instr_valid
           /\ branch_target(in) = NextPc(instr_id, pc_id)
           /\ ~branch_jump_set_done_q
<1>1. ~branch_jump_set_done_q /\ (branch_set_raw \/ jump_set_raw)
  BY DEF jump_or_branch_set
<1>2. instr_id.op \in {"JUMP", "BRANCH"} /\ instr_valid
  BY <1>1, OnlyBranchesSet
<1>3. instr_id.op = "BRANCH" => BranchTargetALU \/ ~FirstCycle
  BY <1>1, OnlyBranchesSet DEF BranchSetWithTarget
<1> QED
  BY <1>1, <1>2, <1>3 DEF branch_target

(* A branch or jump that is done has set the PC before or does so now. *)
LEMMA DoneHasSet ==
    ASSUME PreciseInv, NEW in \in Input, instr_done(in), ~jump_or_branch_set
    PROVE  pc_if = NextPc(instr_id, pc_id)
<1>1. /\ instr_executing(in) /\ instr_executing_spec /\ instr_valid
      /\ ctrl_fsm_cs = "DECODE" /\ ~stall_id(in)
  BY DoneIsReady
<1>2. pc_if = Following
  BY <1>1 DEF PreciseInv, InOrder
<1>3. CASE branch_jump_set_done_q
  BY <1>2, <1>3 DEF Following
<1>4. CASE ~branch_jump_set_done_q
  <2>1. ~branch_set_raw /\ ~jump_set_raw
    BY <1>4 DEF jump_or_branch_set
  <2>2. instr_id.op # "JUMP"
    <3>1. instr_id.op = "JUMP" => FirstCycle
      BY <1>4 DEF PreciseInv, SetOrWillBe
    <3> QED
      BY <1>1, <2>1, <3>1 DEF jump_set_raw
  <2>3. ~(instr_id.op = "BRANCH" /\ instr_id.taken)
    <3>1. SUFFICES ASSUME instr_id.op = "BRANCH", instr_id.taken
                   PROVE  FALSE
      OBVIOUS
    <3>2. CASE FirstCycle
      <4>1. branch_set_raw_d
        BY <1>1, <3>1, <3>2 DEF branch_set_raw_d
      <4>2. ~EarlyTarget
        BY <2>1, <4>1 DEF branch_set_raw, EarlyTarget
      <4>3. SecondCycle(in)
        BY <3>1, <4>2 DEF SecondCycle, EarlyTarget
      <4>4. StallMultiCycle(in)
        BY <1>1, <3>1, <3>2, <4>3 DEF StallMultiCycle
      <4> QED
        BY <1>1, <4>4 DEF stall_id
    <3>3. CASE ~FirstCycle
      <4>1. ~EarlyTarget /\ branch_set_raw_q
        BY <1>4, <3>1, <3>3 DEF PreciseInv, SetOrWillBe
      <4> QED
        BY <2>1, <4>1 DEF branch_set_raw, EarlyTarget
    <3> QED
      BY <3>2, <3>3
  <2> QED
    BY <1>2, <1>4, <2>2, <2>3 DEF Following, NextPc
<1> QED
  BY <1>3, <1>4

-----------------------------------------------------------------------------
(* The first instruction that is not in write-back: in ID, or to be fetched. *)
First == IF instr_valid THEN pc_id ELSE pc_if

Goes(in) == ~stall(in) /\ ~special_req(in)

(***************************************************************************)
(* What a cycle of DECODE does to ID: its instruction stays, or is         *)
(* followed by the one it points to.                                       *)
(***************************************************************************)
LEMMA FrontStep ==
    ASSUME PreciseInv, BranchSetWithTarget, NEW in \in Input, Decode(in)
    PROVE  /\ instr_valid' => pc_if' = Following'
           /\ ~Goes(in) => instr_id' = instr_id /\ (instr_valid => pc_id' = pc_id)
           /\ Goes(in) /\ instr_valid => instr_done(in) /\ First' = NextPc(instr_id, pc_id)
           /\ ~instr_valid => First' = pc_if
           /\ instr_done(in) /\ ~Goes(in) => pc_if' = NextPc(instr_id, pc_id)
<1> DEFINE new == in.fetch /\ id_in_ready(in)
<1>0. ctrl_fsm_cs = "DECODE"
  BY DEF Decode
<1>1. /\ pc_if' = IF jump_or_branch_set THEN branch_target(in)
                  ELSE IF new THEN Succ(pc_if) ELSE pc_if
      /\ pc_id' = IF new THEN pc_if ELSE pc_id
      /\ branch_jump_set_done_q' =
             ((branch_set_raw \/ jump_set_raw \/ branch_jump_set_done_q) /\ ~Goes(in))
      /\ \/ new /\ ~jump_or_branch_set /\ instr_id' \in Instrs
         \/ ~(new /\ ~jump_or_branch_set) /\ instr_id' = IF Goes(in) THEN NoInstr ELSE instr_id
  BY DEF Decode, Advance, Goes
<1>2. new => Goes(in)
  BY DEF id_in_ready, Goes
<1> HIDE DEF new
<1>3. CASE ~Goes(in)
  <2>1. /\ instr_id' = instr_id /\ pc_id' = pc_id
        /\ pc_if' = IF jump_or_branch_set THEN branch_target(in) ELSE pc_if
        /\ branch_jump_set_done_q'
             = (branch_set_raw \/ jump_set_raw \/ branch_jump_set_done_q)
    BY <1>1, <1>2, <1>3
  <2>2. instr_valid' => pc_if' = Following'
    <3>1. SUFFICES ASSUME instr_valid
                   PROVE  pc_if' = IF branch_jump_set_done_q' THEN NextPc(instr_id, pc_id)
                                                              ELSE Succ(pc_id)
      BY <2>1 DEF instr_valid, Following
    <3>2. pc_if = IF branch_jump_set_done_q THEN NextPc(instr_id, pc_id) ELSE Succ(pc_id)
      BY <3>1 DEF PreciseInv, InOrder, Following
    <3>3. CASE jump_or_branch_set
      BY <1>0, <2>1, <3>3, SetsTarget DEF jump_or_branch_set
    <3>4. CASE ~jump_or_branch_set
      BY <2>1, <3>2, <3>4 DEF jump_or_branch_set
    <3> QED
      BY <3>3, <3>4
  <2>3. ~instr_valid => First' = pc_if
    BY <1>0, <2>1, SetsTarget DEF First, instr_valid
  <2>4. instr_done(in) => pc_if' = NextPc(instr_id, pc_id)
    BY <1>0, <2>1, SetsTarget, DoneHasSet
  <2> QED
    BY <1>3, <2>1, <2>2, <2>3, <2>4
<1>4. CASE Goes(in)
  <2>1. ~branch_jump_set_done_q'
    BY <1>1, <1>4
  <2>2. instr_valid' => pc_if' = Following'
    BY <1>1, <1>4, <2>1, Instructions DEF instr_valid, Following
  <2>3. \E first : /\ first = (IF jump_or_branch_set THEN branch_target(in) ELSE pc_if)
                   /\ First' = first
    BY <1>1, <1>4, Instructions DEF First, instr_valid
  <2>4. instr_valid => instr_done(in) /\ First' = NextPc(instr_id, pc_id)
    BY <1>0, <1>4, <2>3, GoesWhenDone, SetsTarget, DoneHasSet DEF Goes
  <2>5. ~instr_valid => First' = pc_if
    BY <1>0, <2>3, SetsTarget
  <2> QED
    BY <1>4, <2>2, <2>4, <2>5
<1> QED
  BY <1>3, <1>4

-----------------------------------------------------------------------------
LEMMA SetOrWillBeStep ==
    ASSUME PreciseInv, NEW in \in Input, Decode(in), TypeOK'
    PROVE  SetOrWillBe'
<1>0. ctrl_fsm_cs = "DECODE" /\ BranchTargetALU \in BOOLEAN /\ DataIndTiming \in BOOLEAN
  BY ParameterAssumption DEF Decode
<1> DEFINE new == in.fetch /\ id_in_ready(in)
<1>1. /\ branch_jump_set_done_q' =
             ((branch_set_raw \/ jump_set_raw \/ branch_jump_set_done_q) /\ ~Goes(in))
      /\ branch_set_raw_q' = branch_set_raw_d
      /\ \/ new /\ ~jump_or_branch_set /\ instr_id' \in Instrs
         \/ ~(new /\ ~jump_or_branch_set) /\ instr_id' = IF Goes(in) THEN NoInstr ELSE instr_id
  BY DEF Decode, Advance, Goes
<1>2. new => Goes(in)
  BY DEF id_in_ready, Goes
<1> HIDE DEF new
<1>3. ~Goes(in) => instr_id' = instr_id
  BY <1>1, <1>2
<1>4. branch_jump_set_done_q' => instr_id'.op \in {"JUMP", "BRANCH"}
  BY <1>0, <1>1, <1>3, OnlyBranchesSet
<1>5. branch_set_raw_d /\ ~EarlyTarget => SecondCycle(in)
  BY <1>0 DEF branch_set_raw_d, EarlyTarget, SecondCycle
<1>6. branch_set_raw_q' /\ ~EarlyTarget => instr_id'.op = "BRANCH"
  <2>1. SUFFICES ASSUME branch_set_raw_d, ~EarlyTarget
                 PROVE  instr_id'.op = "BRANCH"
    BY <1>1
  <2>2. StallMultiCycle(in) /\ instr_id.op = "BRANCH"
    BY <1>5, <2>1 DEF branch_set_raw_d, StallMultiCycle
  <2>3. ~Goes(in)
    BY <2>2 DEF Goes, stall, stall_id
  <2> QED
    BY <1>3, <2>2, <2>3
<1>7. ASSUME ~FirstCycle', instr_id'.op \in {"JUMP", "BRANCH"}
      PROVE  /\ instr_id'.op = "JUMP" => branch_jump_set_done_q'
             /\ instr_id'.op = "BRANCH"
                  => ~EarlyTarget /\ (branch_set_raw_q' \/ branch_jump_set_done_q')
  <2>1. NextIdFsm(in) = "MULTI_CYCLE"
    BY <1>7, NextIdFsmType DEF Decode, FirstCycle, PreciseInv, IInv
  <2>2. /\ instr_id' = instr_id /\ ~Goes(in) /\ ready_wb(in)
    BY <1>0, <2>1, MoreCyclesStay, MoreCyclesStall DEF Goes, stall, PreciseInv
  <2>3. FirstCycle
    <3>1. SUFFICES ASSUME ~FirstCycle PROVE FALSE
      OBVIOUS
    <3>2. in.ex /\ ~IsMem
      BY <1>7, <2>2, Inputs DEF IsMem, MemOps
    <3>3. multicycle_done(in)
      BY <3>2 DEF multicycle_done
    <3>4. instr_executing(in)
      BY <1>0, <3>1, UnderWayExecutes DEF PreciseInv
    <3> QED
      BY <2>1, <2>2, <3>1, <3>3, <3>4 DEF NextIdFsm
  <2>4. instr_executing(in) /\ SecondCycle(in) /\ instr_executing_spec
    <3>1. instr_executing(in)
      BY <2>1, <2>3 DEF NextIdFsm, FirstCycle
    <3>2. ~IsMem
      BY <1>7, <2>2 DEF IsMem, MemOps
    <3> QED
      BY <2>1, <2>3, <3>1, <3>2, ExecutingIsReady DEF NextIdFsm, PreciseInv
  <2>5. CASE instr_id.op = "JUMP"
    <3>1. jump_set_raw
      BY <2>3, <2>4, <2>5 DEF jump_set_raw
    <3> QED
      BY <1>1, <2>2, <2>5, <3>1
  <2>6. CASE instr_id.op = "BRANCH"
    <3>1. branch_set_raw_d /\ ~EarlyTarget
      BY <2>3, <2>4, <2>6 DEF branch_set_raw_d, EarlyTarget, SecondCycle
    <3> QED
      BY <1>1, <2>2, <2>6, <3>1
  <2> QED
    BY <1>7, <2>2, <2>5, <2>6
<1> QED
  BY <1>4, <1>6, <1>7 DEF SetOrWillBe, EarlyTarget

(* An access handed to write-back leaves ID with no trap behind it. *)
LEMMA HandedOver ==
    ASSUME PreciseInv, NEW in \in Input, instr_done(in), IsMem
    PROVE  /\ ~id_exception /\ ~csr_pipe_flush(in) /\ instr_id.op \notin {"MRET", "DRET", "WFI"}
           /\ ~lsu_err(in) => Goes(in)
           /\ WritebackStage => Goes(in)
<1>1. /\ ~stall(in) /\ (WritebackStage => ~lsu_err(in))
  BY DoneIsReady
<1>2. instr_id.op \notin {"MRET", "DRET", "WFI"} /\ ~csr_pipe_flush(in)
  BY DEF IsMem, MemOps, csr_pipe_flush, csr_op_en, CsrOps, MieOps, DcsrOps
<1>3. ~id_exception
  BY DEF IsMem, MemOps, id_exception, illegal_insn, IllegalInsn, MieOps, DcsrOps
<1> QED
  BY <1>1, <1>2, <1>3 DEF Goes, special_req, special_req_pc_change

(* Write-back after a cycle of DECODE. *)
LEMMA WbStep ==
    ASSUME PreciseInv, NEW in \in Input, Decode(in)
    PROVE  /\ ~ready_wb(in) => wb' = wb /\ pc_wb' = pc_wb /\ AccessInWb /\ ~instr_done(in)
           /\ ready_wb(in) /\ AccessInWb'
                => WritebackStage /\ instr_done(in) /\ IsMem /\ pc_wb' = pc_id
           /\ ready_wb(in) /\ WritebackStage /\ instr_done(in) /\ IsMem => AccessInWb'
           /\ AccessInWb' => WritebackStage
           /\ ~instr_done(in) => pc_wb' = pc_wb
<1>1. /\ wb' = CASE ~ready_wb(in) -> wb
                 [] ready_wb(in) /\ (WritebackStage /\ instr_done(in)) /\ IsMem -> instr_id.op
                 [] OTHER -> "NONE"
      /\ pc_wb' = IF WritebackStage /\ instr_done(in) THEN pc_id ELSE pc_wb
  BY DEF Decode, WriteBack
<1>2. CASE ~ready_wb(in)
  <2>1. ~instr_done(in) /\ AccessInWb
    BY <1>2, DoneIsReady DEF ready_wb, AccessInWb, PreciseInv, IInv, TypeOK
  <2>2. WritebackStage
    BY <2>1 DEF PreciseInv, IInv, Flight, AccessInWb, MemOps
  <2> QED
    BY <1>1, <1>2, <2>1, <2>2
<1>3. CASE ready_wb(in) /\ WritebackStage /\ instr_done(in) /\ IsMem
  BY <1>1, <1>3 DEF AccessInWb, IsMem
<1>4. CASE ready_wb(in) /\ ~(WritebackStage /\ instr_done(in) /\ IsMem)
  BY <1>1, <1>4 DEF AccessInWb, MemOps
<1> QED
  BY <1>2, <1>3, <1>4

(* Behind an access that is not answered an instruction waits. *)
LEMMA WaitsForWb ==
    ASSUME PreciseInv, NEW in \in Input, Decode(in), ~ready_wb(in), instr_valid
    PROVE  ~Goes(in) /\ stall(in)
<1>1. AccessInWb /\ WritebackStage
  BY WbStep DEF PreciseInv, IInv, Flight, AccessInWb, MemOps
<1>2. outstanding_memory_access(in)
  BY <1>1 DEF outstanding_memory_access, ready_wb
<1> QED
  BY <1>1, <1>2 DEF stall, stall_id, stall_mem, Goes

LEMMA InOrderStep ==
    ASSUME PreciseInv, BranchSetWithTarget, NEW in \in Input, Decode(in)
    PROVE  InOrder'
<1>1. AccessInWb' => First' = Succ(pc_wb')
  <2>1. CASE ~ready_wb(in)
    <3>1. AccessInWb /\ pc_wb' = pc_wb
      BY <2>1, WbStep
    <3>2. First = Succ(pc_wb)
      BY <3>1 DEF PreciseInv, InOrder, First
    <3>3. First' = First
      <4>1. CASE instr_valid
        BY <2>1, <4>1, WaitsForWb, FrontStep DEF First, instr_valid
      <4>2. CASE ~instr_valid
        BY <4>2, FrontStep DEF First
      <4> QED
        BY <4>1, <4>2
    <3> QED
      BY <3>1, <3>2, <3>3
  <2>2. CASE ready_wb(in)
    <3>1. SUFFICES ASSUME AccessInWb' PROVE First' = Succ(pc_wb')
      OBVIOUS
    <3>2. WritebackStage /\ instr_done(in) /\ IsMem /\ pc_wb' = pc_id
      BY <2>2, <3>1, WbStep
    <3>3. First' = NextPc(instr_id, pc_id)
      BY <3>2, HandedOver, DoneIsReady, FrontStep
    <3> QED
      BY <3>2, <3>3 DEF IsMem, MemOps, NextPc
  <2> QED
    BY <2>1, <2>2
<1>2. instr_valid' => pc_if' = Following'
  BY FrontStep
<1> QED
  BY <1>1, <1>2 DEF InOrder, First

LEMMA NextControl ==
    ASSUME PreciseInv, NEW in \in Input, Decode(in)
    PROVE  /\ ctrl_fsm_cs' \in {"DECODE", "FLUSH", "DBG_TAKEN_IF", "IRQ_TAKEN"}
           /\ ctrl_fsm_cs' = "FLUSH" <=> special_req(in) /\ ready_wb(in)
           /\ ctrl_fsm_cs' = "DBG_TAKEN_IF" => enter_debug_mode(in)
           /\ ctrl_fsm_cs' = "IRQ_TAKEN" => ~enter_debug_mode(in)
           /\ ctrl_fsm_cs' \in {"DBG_TAKEN_IF", "IRQ_TAKEN"} => ~instr_valid /\ ready_wb(in)
<1>1. wb_exception(in) => ready_wb(in)
  <2>1. ~load_err_q /\ ~store_err_q
    BY DEF PreciseInv, IInv, Flight, Decode
  <2> QED
    BY <2>1, Answered DEF wb_exception, ready_wb
<1>2. LeavesToFlush(in) <=> special_req(in) /\ ready_wb(in)
  BY <1>1 DEF LeavesToFlush
<1>3. ctrl_fsm_cs' = NextInDecode(in)
  BY DEF Decode
<1>4. CASE LeavesToFlush(in)
  <2>1. ~AtRest(in)
    BY <1>4 DEF LeavesToFlush, AtRest
  <2> QED
    BY <1>2, <1>3, <1>4, <2>1 DEF NextInDecode
<1>5. CASE ~LeavesToFlush(in) /\ AtRest(in) /\ enter_debug_mode(in)
  BY <1>2, <1>3, <1>5 DEF NextInDecode, AtRest, id_wb_pending
<1>6. CASE ~LeavesToFlush(in) /\ AtRest(in) /\ ~enter_debug_mode(in) /\ handle_irq(in)
  BY <1>2, <1>3, <1>6 DEF NextInDecode, AtRest, id_wb_pending
<1>7. CASE ~LeavesToFlush(in) /\ ~(AtRest(in) /\ (enter_debug_mode(in) \/ handle_irq(in)))
  BY <1>2, <1>3, <1>7 DEF NextInDecode
<1> QED
  BY <1>4, <1>5, <1>6, <1>7

(* The access that failed was answered, so it was there. *)
LEMMA Failed ==
    ASSUME PreciseInv, NEW in \in Input, Decode(in)
    PROVE  /\ ~lsu_err(in) => ~load_err_q' /\ ~store_err_q'
           /\ lsu_err(in) => /\ load_err_q' \/ store_err_q'
                             /\ IF WritebackStage THEN AccessInWb ELSE AccessInId /\ instr_valid
                             /\ special_req(in) /\ ready_wb(in) /\ ~Goes(in)
<1>1. ~lsu_err(in) => ~load_err_q' /\ ~store_err_q'
  BY DEF Decode, Requests
<1>2. ASSUME lsu_err(in)
      PROVE  IF WritebackStage THEN AccessInWb ELSE AccessInId /\ instr_valid
  <2>1. IF WritebackStage THEN AccessInWb ELSE AccessInId
    BY <1>2, Answered
  <2>2. AccessInId => instr_valid
    BY Instructions DEF AccessInId, IsMem, MemOps, instr_valid
  <2> QED
    BY <2>1, <2>2
<1>3. ASSUME lsu_err(in) PROVE load_err_q' \/ store_err_q'
  <2> DEFINE op == IF WritebackStage THEN wb ELSE instr_id.op
  <2>1. op \in MemOps
    BY <1>2, <1>3 DEF AccessInWb, AccessInId, IsMem
  <2>2. load_err_q' = (op = "LOAD") /\ store_err_q' = (op = "STORE")
    BY <1>3 DEF Decode, Requests
  <2> QED
    BY <2>1, <2>2 DEF MemOps
<1>4. lsu_err(in) => special_req(in) /\ ready_wb(in) /\ ~Goes(in)
  BY Answered DEF ready_wb, special_req, special_req_pc_change, Goes
<1> QED
  BY <1>1, <1>2, <1>3, <1>4

LEMMA EmptyIdIsQuiet ==
    ASSUME NEW in \in Input, ~instr_valid
    PROVE  ~id_exception /\ ~csr_op_en(in) /\ (special_req(in) <=> lsu_err(in))
<1>1. instr_id.op = "NONE"
  BY Instructions DEF instr_valid
<1>2. ~id_exception
  BY <1>1 DEF id_exception, illegal_insn, IllegalInsn, MieOps, DcsrOps
<1>3. ~csr_op_en(in)
  BY <1>1 DEF csr_op_en, CsrOps, MieOps, DcsrOps
<1> QED
  BY <1>1, <1>2, <1>3 DEF special_req, special_req_pc_change, csr_pipe_flush

LEMMA FlushingStep ==
    ASSUME PreciseInv, BranchSetWithTarget, NEW in \in Input, Decode(in)
    PROVE  Flushing' /\ DebugEntry'
<1>1. /\ exc_req_q' = id_exception /\ enter_debug_mode_prio_q' = enter_debug_mode(in)
      /\ ctrl_fsm_cs = "DECODE" /\ UNCHANGED <<priv_lvl_q, debug_mode_q>>
  BY DEF Decode, Requests, WriteCsrs
<1>2. DebugEntry'
  BY <1>1, NextControl DEF DebugEntry, enter_debug_mode
<1>3. ASSUME ctrl_fsm_cs' = "FLUSH"
      PROVE  /\ exc_req_q' = Excepting'
             /\ (WritebackStage /\ (load_err_q' \/ store_err_q')) \/ instr_valid'
             /\ \/ ExcInFlush'
                \/ instr_id'.op \in {"MRET", "DRET", "WFI"} \cup FlushOps
             /\ enter_debug_mode_prio_q' => ~debug_mode_q'
  <2>1. special_req(in) /\ ~Goes(in)
    BY <1>3, NextControl DEF Goes
  <2>2. instr_id' = instr_id
    BY <2>1, FrontStep
  <2>3. exc_req_q' = Excepting'
    BY <1>1, <2>2 DEF Excepting, id_exception, illegal_insn
  <2>4. enter_debug_mode_prio_q' => ~debug_mode_q'
    BY <1>1 DEF enter_debug_mode
  <2>5. (WritebackStage /\ (load_err_q' \/ store_err_q')) \/ instr_valid'
    BY <2>1, <2>2, Failed, EmptyIdIsQuiet DEF instr_valid
  <2>6. ExcInFlush' \/ instr_id'.op \in {"MRET", "DRET", "WFI"} \cup FlushOps
    BY <1>1, <2>1, <2>2, Failed
       DEF special_req, special_req_pc_change, csr_pipe_flush, ExcInFlush
  <2> QED
    BY <2>3, <2>4, <2>5, <2>6
<1> QED
  BY <1>2, <1>3 DEF Flushing

-----------------------------------------------------------------------------
LEMMA DecodeEvents ==
    ASSUME PreciseInv, NEW in \in Input, Decode(in)
    PROVE  /\ event'.mem = (lsu_resp_valid(in) /\ ~lsu_err(in)) /\ event'.trap = "none"
           /\ event'.retired = IF RetiresInDecode(in) THEN instr_id ELSE NoInstr
           /\ event'.retired # NoInstr <=> RetiresInDecode(in)
           /\ ~event'.mem /\ ~RetiresInDecode(in) => event' = NoEvent
           /\ Stepped(event') <=> event'.mem \/ RetiresInDecode(in)
<1>1. event' = [mem     |-> lsu_resp_valid(in) /\ ~lsu_err(in),
                retired |-> IF RetiresInDecode(in) THEN instr_id ELSE NoInstr,
                trap    |-> "none"]
  BY DEF Decode, DecodeEvent
<1>2. RetiresInDecode(in) => instr_id # NoInstr
  BY DoneIsReady DEF RetiresInDecode, instr_valid
<1>3. event'.mem = (lsu_resp_valid(in) /\ ~lsu_err(in)) /\ event'.trap = "none"
      /\ event'.retired = IF RetiresInDecode(in) THEN instr_id ELSE NoInstr
  BY <1>1
<1>4. event'.retired # NoInstr <=> RetiresInDecode(in)
  BY <1>2, <1>3
<1>5. ~event'.mem /\ ~RetiresInDecode(in) => event' = NoEvent
  <2>1. SUFFICES ASSUME ~event'.mem, ~RetiresInDecode(in) PROVE event' = NoEvent
    OBVIOUS
  <2>2. (lsu_resp_valid(in) /\ ~lsu_err(in)) = FALSE
    BY <1>3, <2>1
  <2> QED
    BY <1>1, <2>1, <2>2 DEF NoEvent
<1> QED
  BY <1>3, <1>4, <1>5 DEF Stepped

(* The CSRs are written by the instruction that retires. *)
LEMMA RetiredWrites ==
    ASSUME PreciseInv, NEW in \in Input, Decode(in)
    PROVE  /\ mstatus' = [mstatus EXCEPT !.mie = MieAfter((event').retired, mstatus.mie)]
           /\ dcsr' = [dcsr EXCEPT !.on = DcsrAfter((event').retired, dcsr.on)]
           /\ sync_exc_seen' = SeenAfter((event').retired, sync_exc_seen)
<1> DEFINE w == IF csr_op_en(in) /\ ~illegal_insn THEN instr_id ELSE NoInstr
           r == (event').retired
<1>1. /\ mstatus' = [mstatus EXCEPT !.mie = MieAfter(w, mstatus.mie)]
      /\ dcsr' = [dcsr EXCEPT !.on = DcsrAfter(w, dcsr.on)]
      /\ sync_exc_seen' = SeenAfter(w, sync_exc_seen)
  BY DEF Decode, WriteCsrs
<1>2. r = IF RetiresInDecode(in) THEN instr_id ELSE NoInstr
  BY DecodeEvents
<1>3. w = r \/ (w.op \notin CsrOps /\ r.op \notin CsrOps)
  <2>0. NoInstr.op \notin CsrOps
    BY DEF NoInstr, CsrOps, MieOps, DcsrOps
  <2>1. CASE instr_id.op \notin CsrOps
    BY <1>2, <2>0, <2>1
  <2>2. CASE instr_id.op \in CsrOps
    <3>1. instr_id.op \notin {"MRET", "DRET", "WFI", "ECALL", "EBREAK", "FETCH_ERR"} \cup MemOps
      BY <2>2 DEF CsrOps, MieOps, DcsrOps, MemOps
    <3>2. ~lsu_err(in) \/ ~instr_done(in)
      BY <3>1, DoneIsReady, Failed DEF AccessInId, IsMem
    <3>3. csr_op_en(in) /\ ~illegal_insn <=> RetiresInDecode(in)
      BY <2>2, <3>1, <3>2, DoneIsReady DEF csr_op_en, RetiresInDecode, id_exception, Decode
    <3> QED
      BY <1>2, <3>3
  <2> QED
    BY <2>1, <2>2
<1> HIDE DEF w, r
<1>4. /\ MieAfter(w, mstatus.mie) = MieAfter(r, mstatus.mie)
      /\ DcsrAfter(w, dcsr.on) = DcsrAfter(r, dcsr.on)
      /\ SeenAfter(w, sync_exc_seen) = SeenAfter(r, sync_exc_seen)
  <2>1. CASE w = r
    BY <2>1
  <2>2. CASE w.op \notin CsrOps /\ r.op \notin CsrOps
    BY <2>2 DEF MieAfter, DcsrAfter, SeenAfter, CsrOps, MieOps, DcsrOps
  <2> QED
    BY <1>3, <2>1, <2>2
<1> QED
  BY <1>1, <1>4 DEF r

(* An access without a write-back stage is answered in ID, and leaves it. *)
LEMMA AnsweredInId ==
    ASSUME PreciseInv, NEW in \in Input, Decode(in), ~WritebackStage,
           lsu_resp_valid(in), ~lsu_err(in)
    PROVE  IsMem /\ instr_valid /\ instr_done(in) /\ Goes(in)
<1>1. AccessInId
  BY Answered
<1>2. instr_executing(in) /\ instr_valid /\ ~stall_ld_hz
  BY <1>1, UnderWayExecutes DEF AccessInId, PreciseInv, Decode
<1>3. ~StallMultiCycle(in)
  BY <1>1 DEF StallMultiCycle, AccessInId, IsMem, MemOps
<1>4. ~stall_mem(in)
  BY <1>1 DEF stall_mem, AccessInId
<1>5. instr_done(in)
  BY <1>2, <1>3, <1>4 DEF instr_done, stall_id
<1> QED
  BY <1>1, <1>2, <1>5, HandedOver DEF AccessInId

-----------------------------------------------------------------------------
(* Where the program is in DECODE. *)
LEMMA DecodeArchPc ==
    ASSUME PreciseInv, ctrl_fsm_cs = "DECODE"
    PROVE  ArchPc = IF AccessInWb THEN pc_wb ELSE First
  BY ArchPcNow DEF ArchPcIs, PreciseInv, First

(* An access that fails or is not answered keeps it where it was. *)
LEMMA HeldUpPc ==
    ASSUME PreciseInv, BranchSetWithTarget, NEW in \in Input, Decode(in), IInv',
           lsu_err(in) \/ ~ready_wb(in)
    PROVE  ArchPc' = ArchPc /\ ~event'.mem /\ ~RetiresInDecode(in)
<1>0. ctrl_fsm_cs = "DECODE" /\ ArchPcIs'
  BY ArchPcNext DEF Decode
<1>1. ArchPc = IF AccessInWb THEN pc_wb ELSE First
  BY <1>0, DecodeArchPc
<1>2. CASE ~ready_wb(in)
  <2>1. AccessInWb' /\ pc_wb' = pc_wb /\ AccessInWb /\ ~instr_done(in)
    BY <1>2, WbStep DEF AccessInWb
  <2>2. ctrl_fsm_cs' = "DECODE"
    BY <2>1 DEF IInv, AtRestOutsideDecode
  <2>3. ~lsu_resp_valid(in)
    BY <1>2 DEF ready_wb
  <2> QED
    BY <1>0, <1>1, <2>1, <2>2, <2>3, DecodeEvents DEF ArchPcIs, RetiresInDecode
<1>3. CASE lsu_err(in)
  <2>1. /\ load_err_q' \/ store_err_q'
        /\ IF WritebackStage THEN AccessInWb ELSE AccessInId /\ instr_valid
        /\ special_req(in) /\ ready_wb(in) /\ ~Goes(in)
    BY <1>3, Failed
  <2>2. ctrl_fsm_cs' = "FLUSH"
    BY <2>1, NextControl
  <2>3. ~event'.mem /\ ~RetiresInDecode(in)
    BY <1>3, DecodeEvents DEF RetiresInDecode
  <2>4. CASE WritebackStage
    <3>1. pc_wb' = pc_wb
      BY <1>3, <2>4, WbStep, DoneIsReady
    <3> QED
      BY <1>0, <1>1, <2>1, <2>2, <2>3, <2>4, <3>1 DEF ArchPcIs
  <2>5. CASE ~WritebackStage
    <3>1. instr_valid' /\ pc_id' = pc_id /\ ~AccessInWb
      BY <2>1, <2>5, FrontStep DEF instr_valid, PreciseInv, IInv, Flight, AccessInWb, MemOps
    <3>2. ~FlushingRetired'
      BY <2>1 DEF FlushingRetired, ExcInFlush
    <3> QED
      BY <1>0, <1>1, <2>1, <2>2, <2>3, <2>5, <3>1, <3>2 DEF ArchPcIs, First
  <2> QED
    BY <2>4, <2>5
<1> QED
  BY <1>2, <1>3

(* Otherwise it is past the access, and past the instruction that retired. *)
LEMMA CompletedPc ==
    ASSUME PreciseInv, BranchSetWithTarget, NEW in \in Input, Decode(in), IInv',
           ~lsu_err(in), ready_wb(in)
    PROVE  ArchPc' = IF RetiresInDecode(in) THEN NextPc(instr_id, pc_id)
                     ELSE IF ~WritebackStage /\ event'.mem THEN Succ(pc_id) ELSE First
<1>0. ctrl_fsm_cs = "DECODE" /\ ArchPcIs' /\ ~load_err_q' /\ ~store_err_q'
  BY ArchPcNext, Failed DEF Decode
<1>1. CASE AccessInWb'
  <2>1. WritebackStage /\ instr_done(in) /\ IsMem /\ pc_wb' = pc_id
    BY <1>1, WbStep
  <2>2. ctrl_fsm_cs' = "DECODE"
    BY <1>1 DEF IInv, AtRestOutsideDecode
  <2>3. ~RetiresInDecode(in) /\ instr_valid
    BY <2>1, DoneIsReady DEF RetiresInDecode, IsMem
  <2> QED
    BY <1>0, <1>1, <2>1, <2>2, <2>3 DEF ArchPcIs, First
<1>2. CASE ~AccessInWb' /\ Goes(in) /\ instr_valid
  <2>1. instr_done(in) /\ First' = NextPc(instr_id, pc_id) /\ ~special_req(in)
    BY <1>2, FrontStep DEF Goes
  <2>2. ctrl_fsm_cs' \in {"DECODE", "DBG_TAKEN_IF", "IRQ_TAKEN"}
    BY <2>1, NextControl
  <2>3. ArchPc' = First'
    <3>1. ctrl_fsm_cs' # "DECODE" => ~instr_valid'
      BY <2>2 DEF IInv, AtRestOutsideDecode
    <3> QED
      BY <1>0, <1>2, <2>2, <3>1 DEF ArchPcIs, First
  <2>4. CASE IsMem
    <3>1. ~WritebackStage
      BY <1>2, <2>1, <2>4, WbStep
    <3>2. lsu_resp_valid(in)
      BY <2>1, <2>4, <3>1, DoneIsReady DEF stall_id, stall_mem
    <3>3. event'.mem /\ ~RetiresInDecode(in)
      BY <2>4, <3>2, DecodeEvents DEF RetiresInDecode, IsMem
    <3> QED
      BY <2>1, <2>3, <2>4, <3>1, <3>3 DEF IsMem, MemOps, NextPc
  <2>5. CASE ~IsMem
    <3>1. RetiresInDecode(in)
      BY <2>1, <2>5 DEF RetiresInDecode, special_req, special_req_pc_change, IsMem
    <3> QED
      BY <2>1, <2>3, <3>1
  <2> QED
    BY <2>4, <2>5
<1>3. CASE ~AccessInWb' /\ ~Goes(in) /\ instr_valid
  <2>1. instr_id' = instr_id /\ pc_id' = pc_id /\ instr_valid'
    BY <1>3, FrontStep DEF instr_valid
  <2>2. ctrl_fsm_cs' \in {"DECODE", "FLUSH"} /\ exc_req_q' = id_exception
    BY <1>3, NextControl DEF Decode, Requests
  <2>3. ~(~WritebackStage /\ event'.mem)
    BY <1>3, AnsweredInId, DecodeEvents
  <2>4. CASE ~instr_done(in)
    <3>1. ~RetiresInDecode(in) /\ ~csr_pipe_flush(in)
      BY <2>4 DEF RetiresInDecode, csr_pipe_flush, csr_op_en
    <3>2. ~FlushingRetired'
      <4>1. SUFFICES ASSUME ctrl_fsm_cs' = "FLUSH", instr_id.op \in FlushOps
                     PROVE  exc_req_q'
        BY <2>1 DEF FlushingRetired, ExcInFlush
      <4>2. special_req(in)
        BY <4>1, NextControl
      <4> QED
        BY <2>2, <3>1, <4>1, <4>2 DEF special_req, special_req_pc_change, FlushOps
    <3> QED
      BY <1>0, <1>3, <2>1, <2>2, <2>3, <3>1, <3>2 DEF ArchPcIs, First
  <2>5. CASE instr_done(in)
    <3>1. special_req(in) /\ ctrl_fsm_cs' = "FLUSH"
      BY <1>3, <2>5, DoneIsReady, NextControl DEF Goes
    <3>2. CASE RetiresInDecode(in)
      <4>1. ~id_exception /\ csr_pipe_flush(in)
        BY <3>1, <3>2 DEF RetiresInDecode, special_req, special_req_pc_change
      <4>2. FlushingRetired'
        BY <1>0, <2>1, <2>2, <3>1, <4>1 DEF FlushingRetired, ExcInFlush, csr_pipe_flush
      <4>3. pc_if' = NextPc(instr_id, pc_id)
        BY <1>3, <2>5, FrontStep
      <4> QED
        BY <1>0, <3>1, <3>2, <4>2, <4>3 DEF ArchPcIs
    <3>3. CASE ~RetiresInDecode(in)
      <4>1. ~FlushingRetired'
        <5>1. SUFFICES ASSUME instr_id.op \in FlushOps, ~id_exception
                       PROVE  FALSE
          BY <2>1, <2>2 DEF FlushingRetired, ExcInFlush
        <5> QED
          BY <2>5, <3>3, <5>1 DEF RetiresInDecode, FlushOps, MemOps
      <4> QED
        BY <1>0, <1>3, <2>1, <2>3, <3>1, <3>3, <4>1 DEF ArchPcIs, First
    <3> QED
      BY <3>2, <3>3
  <2> QED
    BY <2>4, <2>5
<1>4. CASE ~AccessInWb' /\ ~instr_valid
  <2>1. ~special_req(in) /\ ~instr_done(in) /\ First' = pc_if
    BY <1>4, EmptyIdIsQuiet, EmptyIdDoesNotStall, FrontStep
  <2>2. ctrl_fsm_cs' \in {"DECODE", "DBG_TAKEN_IF", "IRQ_TAKEN"}
    BY <2>1, NextControl
  <2>3. ArchPc' = First'
    <3>1. ctrl_fsm_cs' # "DECODE" => ~instr_valid'
      BY <2>2 DEF IInv, AtRestOutsideDecode
    <3> QED
      BY <1>0, <1>4, <2>2, <3>1 DEF ArchPcIs, First
  <2>4. ~RetiresInDecode(in) /\ ~(~WritebackStage /\ event'.mem)
    BY <1>4, <2>1, AnsweredInId, DecodeEvents DEF RetiresInDecode
  <2> QED
    BY <1>4, <2>1, <2>3, <2>4 DEF First
<1> QED
  BY <1>1, <1>2, <1>3, <1>4

-----------------------------------------------------------------------------
(* Which accesses complete in a cycle of DECODE. *)
LEMMA Completes ==
    ASSUME PreciseInv, NEW in \in Input, Decode(in)
    PROVE  /\ RetiresInDecode(in) => instr_valid /\ instr_done(in) /\ ready_wb(in) /\ ~IsMem
                                     /\ ~lsu_err(in) /\ Hart!Ordinary(instr_id)
           /\ event'.mem => ready_wb(in) /\ ~lsu_err(in)
           /\ event'.mem /\ WritebackStage => AccessInWb
           /\ event'.mem /\ ~WritebackStage => IsMem /\ instr_valid /\ Goes(in)
           /\ ready_wb(in) /\ ~lsu_err(in) /\ AccessInWb => event'.mem /\ WritebackStage
<1>1. ASSUME RetiresInDecode(in)
      PROVE  instr_valid /\ instr_done(in) /\ ready_wb(in) /\ ~IsMem
             /\ ~lsu_err(in) /\ Hart!Ordinary(instr_id)
  <2>1. /\ instr_done(in) /\ ~id_exception /\ ~lsu_err(in) /\ ~IsMem
        /\ instr_id.op \notin {"MRET", "DRET"}
    BY <1>1 DEF RetiresInDecode, IsMem
  <2>2. ~illegal_insn /\ instr_id.op \notin {"ECALL", "EBREAK", "FETCH_ERR"}
    BY <2>1 DEF id_exception, Decode
  <2>3. Hart!Ordinary(instr_id)
    BY <2>1, <2>2, SameIsa DEF Hart!Ordinary, illegal_insn
  <2> QED
    BY <2>1, <2>3, DoneIsReady
<1>2. event'.mem = (lsu_resp_valid(in) /\ ~lsu_err(in))
  BY DecodeEvents
<1>3. lsu_resp_valid(in) => ready_wb(in) /\ (WritebackStage => AccessInWb)
  BY Answered DEF ready_wb
<1>4. event'.mem /\ ~WritebackStage => IsMem /\ instr_valid /\ Goes(in)
  BY <1>2, AnsweredInId
<1>5. AccessInWb => WritebackStage /\ wb # "NONE"
  BY DEF AccessInWb, MemOps, PreciseInv, IInv, Flight
<1>6. ready_wb(in) /\ ~lsu_err(in) /\ AccessInWb => event'.mem /\ WritebackStage
  BY <1>2, <1>5 DEF ready_wb
<1> QED
  BY <1>1, <1>2, <1>3, <1>4, <1>6

(* No second instruction is taken from the fetch while a debugger waits. *)
LEMMA RequestHalts ==
    ASSUME NEW in \in Input, Decode(in), enter_debug_mode(in)
    PROVE  instr_id' = IF Goes(in) THEN NoInstr ELSE instr_id
<1>1. ~id_in_ready(in)
  BY DEF id_in_ready, halt_if, AtRest
<1> QED
  BY <1>1 DEF Decode, Advance, Goes

(* Single stepping does not begin or end in DECODE outside debug mode. *)
LEMMA SteppingKept ==
    ASSUME PreciseInv, NEW in \in Input, Decode(in), ~debug_mode_q
    PROVE  (dcsr').on = dcsr.on /\ debug_mode_q' = debug_mode_q
<1>1. debug_mode_q' = debug_mode_q
  BY DEF Decode
<1>2. (event').retired.op \notin DcsrOps
  <2>1. CASE RetiresInDecode(in)
    <3>1. ~IllegalInsn(instr_id, priv_lvl_q, debug_mode_q)
      BY <2>1, Completes, SameIsa DEF Hart!Ordinary
    <3> QED
      BY <2>1, <3>1, DecodeEvents DEF IllegalInsn
  <2>2. CASE ~RetiresInDecode(in)
    BY <2>2, DecodeEvents DEF NoInstr, DcsrOps
  <2> QED
    BY <2>1, <2>2
<1>3. DcsrAfter((event').retired, dcsr.on) = dcsr.on
  BY <1>2 DEF DcsrAfter, DcsrOps
<1>4. dcsr' = [dcsr EXCEPT !.on = dcsr.on]
  BY <1>3, RetiredWrites
<1> QED
  BY <1>1, <1>4 DEF PreciseInv, IInv, TypeOK

(* The debugger's request is up while the stepped instruction completes. *)
LEMMA StepRequested ==
    ASSUME PreciseInv, NEW in \in Input, Decode(in), Stepping(dcsr, debug_mode_q),
           instr_valid \/ do_single_step_q
    PROVE  enter_debug_mode(in) /\ do_single_step_q'
<1>1. do_single_step_d = TRUE
  BY DEF do_single_step_d, Stepping, PreciseInv, IInv, TypeOK
<1> QED
  BY <1>1 DEF enter_debug_mode, Stepping, Decode, Requests

LEMMA SingleStepStep ==
    ASSUME PreciseInv, BranchSetWithTarget, NEW in \in Input, Decode(in), Cycle(in)
    PROVE  SingleStep'
<1>0. ctrl_fsm_cs = "DECODE" /\ ~FlushingRetired
  BY DEF Decode, FlushingRetired
<1>1. /\ Stepping(dcsr, debug_mode_q) /\ AccessInWb => ~instr_valid /\ do_single_step_q
      /\ stepped => /\ ~AccessInWb /\ ~instr_valid
                    /\ ~debug_mode_q => do_single_step_q
  BY <1>0 DEF PreciseInv, SingleStep
<1>2. ASSUME Stepping(dcsr', debug_mode_q')
      PROVE  /\ Stepping(dcsr, debug_mode_q)
             /\ ctrl_fsm_cs' = "FLUSH" => enter_debug_mode_prio_q' /\ do_single_step_q'
             /\ AccessInWb' => ~instr_valid' /\ do_single_step_q'
  <2>1. ~debug_mode_q
    BY <1>2 DEF Stepping, Decode
  <2>2. Stepping(dcsr, debug_mode_q)
    BY <1>2, <2>1, SteppingKept DEF Stepping
  <2>3. ctrl_fsm_cs' = "FLUSH" => instr_valid \/ do_single_step_q
    BY <1>1, <2>2, NextControl, EmptyIdIsQuiet, Failed
  <2>4. ctrl_fsm_cs' = "FLUSH" => enter_debug_mode_prio_q' /\ do_single_step_q'
    BY <2>2, <2>3, StepRequested DEF Decode, Requests
  <2>5. ASSUME AccessInWb' PROVE ~instr_valid' /\ do_single_step_q'
    <3>1. CASE ready_wb(in)
      <4>1. instr_valid /\ Goes(in)
        BY <2>5, <3>1, WbStep, DoneIsReady, HandedOver
      <4> QED
        BY <2>2, <4>1, StepRequested, RequestHalts DEF instr_valid
    <3>2. CASE ~ready_wb(in)
      <4>1. ~instr_valid /\ do_single_step_q
        BY <1>1, <2>2, <3>2, WbStep
      <4> QED
        BY <2>2, <4>1, StepRequested, RequestHalts DEF instr_valid
    <3> QED
      BY <3>1, <3>2
  <2> QED
    BY <2>2, <2>4, <2>5
<1>3. ASSUME stepped'
      PROVE  /\ ctrl_fsm_cs' \in {"DECODE", "FLUSH", "DBG_TAKEN_IF"}
             /\ ~AccessInWb' /\ ~load_err_q' /\ ~store_err_q'
             /\ instr_valid' => FlushingRetired'
             /\ ~debug_mode_q' => "step" \in (dcsr').on /\ do_single_step_q'
  <2>1. /\ Stepping(dcsr, debug_mode_q) /\ ~debug_mode_q
        /\ stepped \/ event'.mem \/ RetiresInDecode(in)
    BY <1>3, CycleFacts, DecodeEvents DEF Stepping
  <2>2. \/ ~instr_valid /\ do_single_step_q
        \/ RetiresInDecode(in) /\ instr_valid /\ ~AccessInWb
        \/ event'.mem /\ ~WritebackStage /\ instr_valid /\ Goes(in)
    BY <1>1, <2>1, Completes
  <2>3. enter_debug_mode(in) /\ do_single_step_q'
    BY <2>1, <2>2, StepRequested
  <2>4. ctrl_fsm_cs' \in {"DECODE", "FLUSH", "DBG_TAKEN_IF"}
    BY <2>3, NextControl
  <2>5. ~lsu_err(in)
    <3>1. stepped => ~AccessInWb /\ ~instr_valid
      BY <1>1
    <3> QED
      BY <2>1, <3>1, Completes, Failed
  <2>6. ~AccessInWb'
    <3>1. SUFFICES ASSUME AccessInWb' PROVE FALSE
      OBVIOUS
    <3>2. ready_wb(in)
      BY <1>1, <2>1, Completes, WbStep
    <3>3. WritebackStage /\ instr_done(in) /\ IsMem /\ instr_valid
      BY <3>1, <3>2, WbStep, DoneIsReady
    <3> QED
      BY <2>2, <3>3, Completes
  <2>7. instr_valid' => FlushingRetired'
    <3>1. instr_id' = IF Goes(in) THEN NoInstr ELSE instr_id
      BY <2>3, RequestHalts
    <3>2. SUFFICES ASSUME RetiresInDecode(in), ~Goes(in)
                   PROVE  FlushingRetired'
      BY <2>2, <3>1 DEF instr_valid
    <3>3. /\ ~id_exception /\ instr_done(in) /\ ready_wb(in)
          /\ instr_id.op \notin {"MRET", "DRET", "WFI"}
      BY <3>2, Completes DEF RetiresInDecode
    <3>4. special_req(in)
      BY <3>2, <3>3, DoneIsReady DEF Goes
    <3>5. csr_pipe_flush(in)
      BY <2>5, <3>3, <3>4 DEF special_req, special_req_pc_change
    <3>6. ctrl_fsm_cs' = "FLUSH" /\ ~exc_req_q' /\ ~load_err_q' /\ ~store_err_q'
      BY <2>5, <3>3, <3>4, NextControl DEF Decode, Requests
    <3> QED
      BY <3>1, <3>2, <3>5, <3>6 DEF FlushingRetired, ExcInFlush, csr_pipe_flush
  <2>8. "step" \in (dcsr').on
    BY <2>1, SteppingKept DEF Stepping
  <2> QED
    BY <2>3, <2>4, <2>5, <2>6, <2>7, <2>8, Failed
<1> QED
  BY <1>2, <1>3 DEF SingleStep

LEMMA DecodeRetires ==
    ASSUME PreciseInv, BranchSetWithTarget, NEW in \in Input, Decode(in), Cycle(in),
           event'.mem \/ RetiresInDecode(in)
    PROVE  Hart!Retire
<1> DEFINE i == (event').retired
           p == IF (event').mem THEN Hart!Succ(ArchPc) ELSE ArchPc
<1>0. ctrl_fsm_cs = "DECODE" /\ IInv' /\ ready_wb(in) /\ ~lsu_err(in)
  BY CycleFacts, Completes DEF Decode
<1>1. /\ i = IF RetiresInDecode(in) THEN instr_id ELSE NoInstr
      /\ i # NoInstr <=> RetiresInDecode(in)
      /\ event'.trap = "none"
  BY DecodeEvents
<1>2. event' \in Hart!Event
  BY <1>0, SameIsa DEF IInv, TypeOK
<1>3. p = IF ~WritebackStage /\ (event').mem THEN Succ(First) ELSE First
  <2>1. ArchPc = IF AccessInWb THEN pc_wb ELSE First
    BY <1>0, DecodeArchPc
  <2>2. AccessInWb => First = Succ(pc_wb) /\ (event').mem /\ WritebackStage
    BY <1>0, Completes DEF PreciseInv, InOrder, First
  <2>3. (event').mem /\ WritebackStage => AccessInWb
    BY Completes
  <2> QED
    BY <2>1, <2>2, <2>3, SameIsa
<1>4. RetiresInDecode(in) => ~(~WritebackStage /\ (event').mem) /\ instr_valid
  BY Completes
<1>5. (event').mem /\ ~WritebackStage => instr_valid
  BY Completes
<1>6. ArchPc' = IF i # NoInstr THEN NextPc(i, p) ELSE p
  <2>1. ArchPc' = IF RetiresInDecode(in) THEN NextPc(instr_id, pc_id)
                  ELSE IF ~WritebackStage /\ (event').mem THEN Succ(pc_id) ELSE First
    BY <1>0, CompletedPc
  <2> HIDE DEF p, i
  <2> QED
    BY <1>1, <1>3, <1>4, <1>5, <2>1 DEF First
<1>7. i # NoInstr => Hart!Ordinary(i)
  BY <1>1, Completes
<1>8. UNCHANGED <<priv_lvl_q, mepc, mstack, nmi_mode_q, debug_mode_q, depc>>
  BY DEF Decode, WriteCsrs
<1>9. /\ mstatus' = [mstatus EXCEPT !.mie = MieAfter(i, mstatus.mie)]
      /\ dcsr' = [dcsr EXCEPT !.on = DcsrAfter(i, dcsr.on)]
      /\ sync_exc_seen' = SeenAfter(i, sync_exc_seen)
  BY RetiredWrites
<1>10. (event').mem \/ i # Hart!NoInstr
  BY <1>1, SameIsa
<1>11. /\ i # Hart!NoInstr => Hart!Ordinary(i)
       /\ ArchPc' = IF i # Hart!NoInstr THEN Hart!NextPc(i, p) ELSE p
       /\ mstatus' = [mstatus EXCEPT !.mie = Hart!MieAfter(i, mstatus.mie)]
       /\ dcsr' = [dcsr EXCEPT !.on = Hart!DcsrAfter(i, dcsr.on)]
       /\ sync_exc_seen' = Hart!SeenAfter(i, sync_exc_seen)
  <2> HIDE DEF p, i
  <2> QED
    BY <1>6, <1>7, <1>9, SameIsa
<1> QED
  BY <1>1, <1>2, <1>8, <1>10, <1>11 DEF Hart!Retire

LEMMA DecodeQuiet ==
    ASSUME PreciseInv, BranchSetWithTarget, NEW in \in Input, Decode(in), Cycle(in),
           ~event'.mem, ~RetiresInDecode(in)
    PROVE  Hart!Next
<1>0. ctrl_fsm_cs = "DECODE" /\ IInv'
  BY CycleFacts DEF Decode
<1>1. event' = NoEvent
  BY DecodeEvents
<1>2. ArchPc' = ArchPc
  <2>1. CASE lsu_err(in) \/ ~ready_wb(in)
    BY <1>0, <2>1, HeldUpPc
  <2>2. CASE ~lsu_err(in) /\ ready_wb(in)
    <3>1. ~AccessInWb
      BY <2>2, Completes
    <3>2. ArchPc = First
      BY <1>0, <3>1, DecodeArchPc
    <3> QED
      BY <1>0, <2>2, <3>2, CompletedPc
  <2> QED
    BY <2>1, <2>2
<1>3. UNCHANGED <<nmi_mode_q, debug_mode_q, csrs>>
  <2>1. (event').retired = NoInstr
    BY <1>1, NoEventNotStepped
  <2>2. /\ MieAfter(NoInstr, mstatus.mie) = mstatus.mie
        /\ DcsrAfter(NoInstr, dcsr.on) = dcsr.on
        /\ SeenAfter(NoInstr, sync_exc_seen) = sync_exc_seen
    BY <1>0 DEF MieAfter, DcsrAfter, SeenAfter, NoInstr, PreciseInv, IInv, TypeOK
  <2>3. /\ mstatus' = [mstatus EXCEPT !.mie = mstatus.mie]
        /\ dcsr' = [dcsr EXCEPT !.on = dcsr.on]
        /\ sync_exc_seen' = sync_exc_seen
    BY <2>1, <2>2, RetiredWrites
  <2>4. mstatus' = mstatus /\ dcsr' = dcsr
    BY <2>3 DEF PreciseInv, IInv, TypeOK
  <2> QED
    BY <2>3, <2>4 DEF Decode, WriteCsrs, csrs, trap
<1> QED
  BY <1>1, <1>2, <1>3, CycleFacts, HartQuiet

LEMMA DecodePrecise ==
    ASSUME PreciseInv, BranchSetWithTarget, NEW in \in Input, Cycle(in), Decode(in)
    PROVE  PreciseInv' /\ Hart!Next
<1>1. PreciseInv'
  BY CycleFacts, InOrderStep, SetOrWillBeStep, FlushingStep, SingleStepStep, PreciseNext
     DEF IInv
<1>2. CASE event'.mem \/ RetiresInDecode(in)
  <2>1. ctrl_fsm_cs = "DECODE" /\ (stepped => ~AccessInWb /\ ~instr_valid)
    BY DEF Decode, PreciseInv, SingleStep, FlushingRetired
  <2>2. stepped => ~Stepped(event')
    BY <2>1, Completes, DecodeEvents
  <2>3. Stepping(dcsr, debug_mode_q) => ~(event'.mem /\ event'.retired # NoInstr)
    <3>1. Stepping(dcsr, debug_mode_q) /\ AccessInWb => ~instr_valid
      BY DEF PreciseInv, SingleStep
    <3> QED
      BY <3>1, Completes, DecodeEvents
  <2>4. Hart!Step
    BY <2>2, <2>3, CycleFacts, SameIsa DEF Hart!Step
  <2> QED
    BY <1>1, <1>2, <2>4, DecodeRetires DEF Hart!Next
<1>3. CASE ~event'.mem /\ ~RetiresInDecode(in)
  BY <1>1, <1>3, DecodeQuiet
<1> QED
  BY <1>2, <1>3

-----------------------------------------------------------------------------
LEMMA PreciseInit == Init => PreciseInv
<1> SUFFICES ASSUME Init PROVE PreciseInv
  OBVIOUS
<1>1. IInv /\ ~instr_valid /\ ~AccessInWb /\ FirstCycle
  BY InitInv DEF Init, instr_valid, AccessInWb, MemOps, FirstCycle
<1> QED
  BY <1>1 DEF Init, PreciseInv, InOrder, SetOrWillBe, Flushing, DebugEntry, SingleStep,
              Stepping

LEMMA PreciseStep ==
    ASSUME PreciseInv, BranchSetWithTarget, NEW in \in Input, Cycle(in)
    PROVE  PreciseInv' /\ Hart!Next
<1>1. \/ Boot(in) \/ Sleep(in) \/ FirstFetch(in) \/ Decode(in)
      \/ IrqTaken(in) \/ DbgTakenIf(in) \/ DbgTakenId(in)
      \/ FlushException(in) \/ FlushEbreak(in) \/ FlushMret(in) \/ FlushDret(in)
      \/ FlushOnly(in)
  BY DEF Cycle
<1> QED
  BY <1>1, BootPrecise, SleepPrecise, FirstFetchPrecise, DecodePrecise, IrqTakenPrecise,
     EnterDebugPrecise, FlushExceptionPrecise, FlushEbreakPrecise, FlushMretPrecise,
     FlushDretPrecise, FlushOnlyPrecise

LEMMA PreciseStutter == PreciseInv /\ UNCHANGED vars => PreciseInv'
<1> SUFFICES ASSUME PreciseInv, UNCHANGED vars PROVE PreciseInv'
  OBVIOUS
<1>1. IInv'
  BY StutterInv DEF PreciseInv
<1> USE DEF vars, ctrl, front, idwb, csrs, trap
<1>2. InOrder'
  BY DEF PreciseInv, InOrder, Following, AccessInWb, instr_valid
<1>3. SetOrWillBe'
  BY DEF PreciseInv, SetOrWillBe, FirstCycle
<1>4. Flushing'
  BY DEF PreciseInv, Flushing, Excepting, illegal_insn, ExcInFlush, instr_valid
<1>5. DebugEntry'
  BY DEF PreciseInv, DebugEntry, ebreak_into_debug
<1>6. SingleStep'
  BY DEF PreciseInv, SingleStep, Stepping, AccessInWb, instr_valid, FlushingRetired, ExcInFlush
<1> QED
  BY <1>1, <1>2, <1>3, <1>4, <1>5, <1>6, PreciseNext

(***************************************************************************)
(* Precise traps: as long as a branch sets the PC with its target, every   *)
(* cycle is a step of Hart or changes nothing of it.                       *)
(***************************************************************************)
THEOREM PreciseIfTarget == Safety /\ []BranchSetWithTarget => PreciseTraps
<1>1. PreciseInv /\ BranchSetWithTarget /\ [Next]_vars => PreciseInv'
  BY PreciseStep, PreciseStutter DEF Next
<1>2. PreciseInv /\ BranchSetWithTarget /\ [Next]_vars => [Hart!Next]_(Hart!vars)
  BY PreciseStep, HartStutter DEF Next
<1> QED
  BY <1>1, <1>2, PreciseInit, HartInit, PTL DEF Safety, PreciseTraps, Hart!Safety

-----------------------------------------------------------------------------
(* With two stages an instruction executes as soon as it is in ID. *)
SetsInSecondCycle ==
    ~WritebackStage /\ ~BranchTargetALU /\ branch_set_raw_q => ~FirstCycle

LEMMA SecondCycleStep ==
    ASSUME IInv, NEW in \in Input, Cycle(in)
    PROVE  SetsInSecondCycle'
<1>1. SUFFICES ASSUME ~WritebackStage, ~BranchTargetALU, branch_set_raw_q'
               PROVE  ~FirstCycle'
  BY DEF SetsInSecondCycle
<1>2. branch_set_raw_q' = branch_set_raw_d
  <2>1. \E ready, clear, pc_set, addr : Advance(in, ready, clear, pc_set, addr)
    BY DEF Cycle, Boot, Sleep, FirstFetch, Decode, IrqTaken, DbgTakenIf, DbgTakenId,
           FlushException, FlushEbreak, FlushMret, FlushDret, FlushOnly, SetPc, KeepPc
  <2> QED
    BY <2>1 DEF Advance
<1>3. ctrl_fsm_cs = "DECODE"
  BY <1>1, <1>2, OutsideDecode
<1>4. Decode(in)
  BY <1>3 DEF Cycle, Boot, Sleep, FirstFetch, IrqTaken, DbgTakenIf, DbgTakenId,
              FlushException, FlushEbreak, FlushMret, FlushDret, FlushOnly
<1>5. instr_executing(in) /\ FirstCycle /\ ~IsMem /\ SecondCycle(in)
  BY <1>1, <1>2 DEF branch_set_raw_d, instr_executing, IsMem, MemOps, SecondCycle
<1> QED
  BY <1>4, <1>5 DEF Decode, NextIdFsm, FirstCycle

(***************************************************************************)
(* With two stages, or with an adder for branch targets, a branch sets the *)
(* PC with its target (ibex_id_stage.sv, g_branch_set_flop).  Only three   *)
(* stages without that adder are left out: there it may wait behind an     *)
(* access in its first cycle.                                              *)
(***************************************************************************)
THEOREM BranchesSetTheirTarget ==
    BranchTargetALU \/ ~WritebackStage => (Safety => []BranchSetWithTarget)
<1> SUFFICES ASSUME BranchTargetALU \/ ~WritebackStage
             PROVE  Safety => []BranchSetWithTarget
  OBVIOUS
<1>1. Init => SetsInSecondCycle
  BY DEF Init, SetsInSecondCycle
<1>2. IInv /\ SetsInSecondCycle /\ [Next]_vars => SetsInSecondCycle'
  <2>1. SetsInSecondCycle /\ UNCHANGED vars => SetsInSecondCycle'
    BY DEF SetsInSecondCycle, vars, idwb, FirstCycle
  <2> QED
    BY <2>1, SecondCycleStep DEF Next
<1>3. SetsInSecondCycle => BranchSetWithTarget
  <2>1. branch_set_raw /\ ~BranchTargetALU => branch_set_raw_q
    BY DEF branch_set_raw
  <2> QED
    BY <2>1, ParameterAssumption DEF SetsInSecondCycle, BranchSetWithTarget
<1> QED
  BY <1>1, <1>2, <1>3, Invariance, PTL DEF Safety

(***************************************************************************)
(* The traps of the core that is built are precise, and of every other but *)
(* the one with three stages and without an adder for branch targets:      *)
(* whatever the fetch, the execution units, the memory and the request     *)
(* lines do, instructions retire in order and once, exceptions, interrupts *)
(* and debug entries save the address of the first that did not retire,    *)
(* and a debugger that steps gets control back after one instruction       *)
(* (ibex_controller.sv, ibex_id_stage.sv, ibex_cs_registers.sv).           *)
(***************************************************************************)
THEOREM TrapsArePrecise ==
    BranchTargetALU \/ ~WritebackStage => (Safety => PreciseTraps)
<1> SUFFICES ASSUME BranchTargetALU \/ ~WritebackStage
             PROVE  Safety => PreciseTraps
  OBVIOUS
<1>1. Safety => []BranchSetWithTarget
  BY BranchesSetTheirTarget
<1> QED
  BY <1>1, PreciseIfTarget, PTL

-----------------------------------------------------------------------------
(***************************************************************************)
(* With the interrupt line up and interrupts enabled, nothing is left that *)
(* could retire: an instruction that enables them waits in FLUSH, retired, *)
(* and what it finds behind it has not been taken from the fetch.          *)
(***************************************************************************)
Taken == mstatus.mie /\ ~debug_mode_q /\ ~nmi_mode_q

NothingLeft ==
    /\ wb = "NONE" /\ ~load_err_q /\ ~store_err_q
    /\ instr_valid => FlushingRetired

EnabledInv == IInv /\ (Irqs = {TRUE} /\ Taken => NothingLeft)

LEMMA LineUp ==
    ASSUME NEW in \in Input, Irqs = {TRUE}, Taken
    PROVE  handle_irq(in)
<1>1. in.irq \in Irqs
  BY DEF Input
<1> QED
  BY <1>1 DEF Taken, handle_irq

(* A step outside DECODE leaves an empty ID stage, or an interrupt pending. *)
LEMMA OutsideEmpties ==
    ASSUME IInv, NEW in \in Input, ctrl_fsm_cs # "DECODE", Cycle(in),
           instr_id' # NoInstr
    PROVE  ~handle_irq(in) /\ UNCHANGED <<debug_mode_q, nmi_mode_q, mstatus>>
<1>0. instr_valid => ctrl_fsm_cs = "FLUSH"
  BY DEF IInv, AtRestOutsideDecode
<1>1. CASE Boot(in)
  BY <1>1, SetPcEmpties DEF Boot
<1>2. CASE Sleep(in)
  BY <1>2, KeepPcEmpties DEF Sleep
<1>3. CASE FirstFetch(in)
  <2>1. ~instr_valid /\ ~stall(in)
    BY <1>0, <1>3, EmptyIdDoesNotStall DEF FirstFetch
  <2>2. ~handle_irq(in)
    BY <1>3, <2>1 DEF FirstFetch, KeepPc, Advance, instr_valid
  <2> QED
    BY <1>3, <2>2 DEF FirstFetch, csrs, trap
<1>4. CASE IrqTaken(in)
  <2>1. ~handle_irq(in)
    BY <1>4, SetPcEmpties, StallBoolean DEF IrqTaken
  <2> QED
    BY <1>4, <2>1 DEF IrqTaken
<1>5. CASE DbgTakenIf(in) \/ DbgTakenId(in)
  BY <1>5, SetPcEmpties, StallBoolean DEF DbgTakenIf, DbgTakenId
<1>6. CASE \/ FlushException(in) \/ FlushEbreak(in) \/ FlushMret(in) \/ FlushDret(in)
           \/ FlushOnly(in)
  <2>1. ctrl_fsm_cs = "FLUSH"
    BY <1>6 DEF FlushException, FlushEbreak, FlushMret, FlushDret, FlushOnly
  <2> QED
    BY <1>6, <2>1, FlushEmpties
<1> QED
  BY <1>1, <1>2, <1>3, <1>4, <1>5, <1>6 DEF Cycle, Decode

LEMMA OutsideEnabled ==
    ASSUME EnabledInv, NEW in \in Input, ctrl_fsm_cs # "DECODE", Cycle(in),
           Irqs = {TRUE}, Taken'
    PROVE  NothingLeft'
<1>1. wb' = "NONE" /\ ~load_err_q' /\ ~store_err_q'
  <2>1. Still(in) /\ \E entering \in BOOLEAN : Requests(in, entering)
    <3>1. \A line : (line = "nmi") \in BOOLEAN
      OBVIOUS
    <3>2. Requests(in, TRUE) \/ Requests(in, FALSE)
      BY <3>1 DEF Cycle, Boot, Sleep, FirstFetch, Decode, IrqTaken, DbgTakenIf, DbgTakenId,
                  FlushException, FlushEbreak, FlushMret, FlushDret, FlushOnly
    <3>3. Still(in)
      BY DEF Cycle, Boot, Sleep, FirstFetch, Decode, IrqTaken, DbgTakenIf, DbgTakenId,
             FlushException, FlushEbreak, FlushMret, FlushDret, FlushOnly
    <3> QED
      BY <3>2, <3>3
  <2> QED
    BY <2>1, OutsideStill DEF EnabledInv
<1>2. ~instr_valid'
  <2> SUFFICES ASSUME instr_valid' PROVE FALSE
    OBVIOUS
  <2>1. ~handle_irq(in) /\ UNCHANGED <<debug_mode_q, nmi_mode_q, mstatus>>
    BY OutsideEmpties DEF instr_valid, EnabledInv
  <2>2. Taken
    BY <2>1 DEF Taken
  <2> QED
    BY <2>1, <2>2, LineUp
<1> QED
  BY <1>1, <1>2 DEF NothingLeft

(* In DECODE only csrs mstatus.mie enables interrupts, and it flushes. *)
LEMMA EnablingFlushes ==
    ASSUME IInv, NEW in \in Input, Decode(in), Cycle(in), ~Taken, Taken'
    PROVE  NothingLeft'
<1>1. csr_op_en(in) /\ ~illegal_insn /\ instr_id.op = "MIE_SET"
  <2> DEFINE i == IF csr_op_en(in) /\ ~illegal_insn THEN instr_id ELSE NoInstr
  <2>1. mstatus' = [mstatus EXCEPT !.mie = MieAfter(i, mstatus.mie)]
    BY DEF Decode, WriteCsrs
  <2> HIDE DEF i
  <2>2. (mstatus').mie = MieAfter(i, mstatus.mie)
    BY <2>1 DEF IInv, TypeOK
  <2>3. MieAfter(i, mstatus.mie) # mstatus.mie
    BY <2>2 DEF Taken, Decode
  <2>4. MieAfter(i, mstatus.mie)
    BY <2>2 DEF Taken
  <2>5. i.op = "MIE_SET"
    BY <2>3, <2>4 DEF MieAfter
  <2> QED
    BY <2>5, Instructions DEF i
<1>2. instr_done(in) /\ instr_executing(in) /\ ready_wb(in) /\ instr_valid /\ ~IsMem
  BY <1>1, ExecutingIsReady DEF csr_op_en, instr_done, IsMem, MemOps
<1>3. ~lsu_err(in)
  <2>1. CASE WritebackStage
    BY <1>2, <2>1 DEF instr_executing, wb_exception
  <2>2. CASE ~WritebackStage
    BY <1>2, <2>2, Answered DEF AccessInId
  <2> QED
    BY <2>1, <2>2
<1>4. special_req(in) /\ ~id_exception
  BY <1>1 DEF special_req, csr_pipe_flush, FlushOps, id_exception
<1>5. ctrl_fsm_cs' = "FLUSH"
  <2>1. LeavesToFlush(in)
    BY <1>2, <1>4 DEF LeavesToFlush
  <2>2. NextInDecode(in) = "FLUSH"
    BY <2>1 DEF NextInDecode, AtRest, LeavesToFlush
  <2> QED
    BY <2>2 DEF Decode
<1>6. wb' = "NONE" /\ ~load_err_q' /\ ~store_err_q' /\ exc_req_q' = FALSE
  BY <1>2, <1>3, <1>4 DEF Decode, WriteBack, Requests, id_exception
<1>7. instr_id' = instr_id
  BY <1>4 DEF Decode, Advance, id_in_ready
<1> QED
  BY <1>1, <1>5, <1>6, <1>7 DEF NothingLeft, FlushingRetired, ExcInFlush, FlushOps

(* With interrupts enabled DECODE stays empty. *)
LEMMA DecodeEnabled ==
    ASSUME EnabledInv, NEW in \in Input, Decode(in), Cycle(in), Irqs = {TRUE}, Taken
    PROVE  NothingLeft' /\ (event').retired = NoInstr /\ ~(event').mem
<1>1. handle_irq(in) /\ wb = "NONE" /\ ~instr_valid
  BY LineUp DEF EnabledInv, NothingLeft, FlushingRetired, Decode
<1>2. ~stall(in) /\ ~IsMem /\ ~instr_done(in)
  BY <1>1, EmptyIdDoesNotStall
<1>3. ~lsu_resp_valid(in) /\ ~lsu_err(in)
  BY <1>1, <1>2, Answered DEF AccessInWb, AccessInId, MemOps
<1>4. ~id_in_ready(in)
  BY <1>1 DEF id_in_ready, halt_if, AtRest
<1>5. instr_id' = NoInstr
  BY <1>1, <1>4 DEF Decode, Advance, instr_valid
<1>6. wb' = "NONE" /\ ~load_err_q' /\ ~store_err_q'
  BY <1>1, <1>2, <1>3 DEF Decode, WriteBack, Requests
<1>7. (event').retired = NoInstr /\ ~(event').mem
  BY <1>2, <1>3 DEF Decode, DecodeEvent, RetiresInDecode
<1> QED
  BY <1>5, <1>6, <1>7 DEF NothingLeft, instr_valid

LEMMA EnabledStep ==
    ASSUME EnabledInv, NEW in \in Input, Cycle(in)
    PROVE  EnabledInv'
<1>1. IInv'
  BY CycleInv DEF EnabledInv
<1>2. ASSUME Irqs = {TRUE}, Taken' PROVE NothingLeft'
  <2>1. CASE ctrl_fsm_cs # "DECODE"
    BY <1>2, <2>1, OutsideEnabled
  <2>2. CASE ctrl_fsm_cs = "DECODE"
    <3>1. Decode(in)
      BY <2>2 DEF Cycle, Boot, Sleep, FirstFetch, IrqTaken, DbgTakenIf, DbgTakenId,
                  FlushException, FlushEbreak, FlushMret, FlushDret, FlushOnly
    <3> QED
      BY <1>2, <3>1, EnablingFlushes, DecodeEnabled DEF EnabledInv
  <2> QED
    BY <2>1, <2>2
<1> QED
  BY <1>1, <1>2 DEF EnabledInv

(* What FLUSH finds has retired already. *)
LEMMA FlushesNothing ==
    ASSUME EnabledInv, NEW in \in Input, ctrl_fsm_cs # "DECODE", Cycle(in),
           Irqs = {TRUE}, Taken
    PROVE  (event').retired = NoInstr /\ ~(event').mem
<1>1. instr_valid => FlushingRetired
  BY DEF EnabledInv, NothingLeft
<1>2. instr_id.op \notin {"MRET", "DRET", "WFI"}
  BY <1>1, Instructions DEF instr_valid, FlushingRetired, FlushOps
<1>3. \/ event' = NoEvent
      \/ \E t \in {"irq", "nmi", "debug", "redebug", "exc", "double"} :
            event' = [NoEvent EXCEPT !.trap = t]
  BY <1>2 DEF Cycle, Boot, Sleep, FirstFetch, Decode, IrqTaken, DbgTakenIf, DbgTakenId,
              EnterDebugAt, FlushException, FlushEbreak, FlushMret, FlushDret, FlushOnly, Fault
<1> QED
  BY <1>3 DEF NoEvent

(***************************************************************************)
(* Whatever the program and the parameters, for an interrupt line that     *)
(* stays up nothing retires and no access completes between the            *)
(* instruction that enables interrupts and the interrupt, even one that    *)
(* disables them again (ibex_id_stage.sv, csr_pipeline_flushes;            *)
(* ibex_controller.sv, halt_if).                                           *)
(***************************************************************************)
THEOREM EnabledIsTaken == Safety => EnablingIsSeen
<1>1. Init => EnabledInv
  BY InitInv DEF Init, EnabledInv, Taken
<1>2. EnabledInv /\ [Next]_vars => EnabledInv'
  <2>1. ASSUME EnabledInv, UNCHANGED vars PROVE EnabledInv'
    <3>1. IInv'
      BY <2>1, StutterInv DEF EnabledInv
    <3>2. Taken' = Taken /\ NothingLeft' = NothingLeft
      BY <2>1 DEF vars, ctrl, front, idwb, csrs, trap, Taken, NothingLeft, instr_valid,
                  FlushingRetired, ExcInFlush
    <3> QED
      BY <2>1, <3>1, <3>2 DEF EnabledInv
  <2> QED
    BY <2>1, EnabledStep DEF Next
<1>3. EnabledInv /\ [Next]_vars =>
         [(Irqs = {TRUE} /\ mstatus.mie /\ ~debug_mode_q /\ ~nmi_mode_q)
             => event'.retired = NoInstr /\ ~event'.mem]_vars
  <2>1. ASSUME EnabledInv, NEW in \in Input, Cycle(in), Irqs = {TRUE}, Taken
        PROVE  (event').retired = NoInstr /\ ~(event').mem
    <3>1. CASE ctrl_fsm_cs # "DECODE"
      BY <2>1, <3>1, FlushesNothing
    <3>2. CASE ctrl_fsm_cs = "DECODE"
      <4>1. Decode(in)
        BY <2>1, <3>2 DEF Cycle, Boot, Sleep, FirstFetch, IrqTaken, DbgTakenIf, DbgTakenId,
                          FlushException, FlushEbreak, FlushMret, FlushDret, FlushOnly
      <4> QED
        BY <2>1, <4>1, DecodeEnabled
    <3> QED
      BY <3>1, <3>2
  <2> QED
    BY <2>1 DEF Next, Taken
<1> QED
  BY <1>1, <1>2, <1>3, PTL DEF Safety, EnablingIsSeen
=============================================================================
