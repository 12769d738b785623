------------------------ MODULE LoadStoreUnit_proofs ------------------------
(***************************************************************************)
(* Every register of the load/store unit keeps its type, the bus owes      *)
(* exactly the answers the state machine counts on, and the unit           *)
(* implements MemAccess, for any memory, any accesses and any bus.         *)
(*                                                                         *)
(* That an answer is owed depends on pmp_err_q, and whether a request was  *)
(* granted on what the PMP says of its address; so the first invariant     *)
(* also says that the register holds the verdict on the address requested. *)
(***************************************************************************)
EXTENDS LoadStoreUnit, SequenceTheorems, TLAPS

Answers == [err : BOOLEAN, intg : BOOLEAN, data : [0..3 -> 0..255]]

(* What the state machine knows of the request it is making. *)
Verdict ==
    /\ ls_fsm_cs # "IDLE" => acc \in Accesses
    /\ handle_misaligned_q => ls_fsm_cs \in {"WAIT_GNT", "WAIT_RVALID_MIS"}
    /\ ls_fsm_cs = "IDLE" /\ acc = NoAccess => pmp_err_q = FALSE
    /\ ls_fsm_cs = "WAIT_GNT_MIS" => pmp_err_q = data_pmp_err(acc.addr)
    /\ ls_fsm_cs = "WAIT_GNT" =>
          pmp_err_q = data_pmp_err(IF handle_misaligned_q THEN SecondAddr ELSE acc.addr)
    /\ ls_fsm_cs = "WAIT_RVALID_MIS_GNTS_DONE" => ~data_pmp_err(SecondAddr)

IInv == LsuTypeOK /\ responses \in Seq(Answers) /\ AnswersOwed /\ Verdict

-----------------------------------------------------------------------------
LEMMA DivMod ==
    ASSUME NEW d \in Nat, d > 0, NEW n \in Nat
    PROVE  n % d \in 0..(d - 1)
  BY SMT

LEMMA Memory ==
    ASSUME MemConstants
    PROVE  /\ NDataWords \in Nat /\ NDataWords > 1 /\ MaxAccess \in Nat
           /\ Contents \in [Addr -> 0..255]
           /\ 0 \in Addr
           /\ NoAccess \notin Accesses
           /\ \A a \in Accesses :
                 /\ a.we \in BOOLEAN /\ a.size \in {1, 2, 4} /\ a.sext \in BOOLEAN
                 /\ a.addr \in Addr /\ a.wdata \in [0..3 -> 0..255]
  BY DEF MemConstants, Addr, NoAccess, Abs!NoAccess

(* The address of the second half, and that of its word, are addresses. *)
LEMMA SecondAddrType ==
    ASSUME MemConstants, addr_last_q \in Addr
    PROVE  SecondAddr \in Addr /\ 4 * (SecondAddr \div 4) \in Addr
<1>1. addr_last_q + 4 \in Nat /\ 4 * NDataWords \in Nat /\ 4 * NDataWords > 0
  BY Memory DEF Addr
<1>2. SecondAddr \in Addr
  BY <1>1, DivMod DEF SecondAddr, Addr
<1> HIDE DEF SecondAddr
<1>3. 4 * (SecondAddr \div 4) \in Addr
  BY <1>2, Memory DEF Addr
<1> QED
  BY <1>2, <1>3

LEMMA Signals ==
    ASSUME MemConstants, NEW a \in Accesses
    PROVE  /\ data_offset(a) \in 0..3
           /\ split_misaligned_access(a) \in BOOLEAN
           /\ \A k \in 0..3 : data_wdata(a)[k] \in 0..255
<1>1. a.addr \in Addr /\ a.wdata \in [0..3 -> 0..255]
  BY Memory
<1>2. data_offset(a) \in 0..3
  BY <1>1, Memory DEF data_offset, Addr
<1>3. \A k \in 0..3 : (k + 4 - data_offset(a)) % 4 \in 0..3
  BY <1>2
<1> QED
  BY <1>1, <1>2, <1>3 DEF split_misaligned_access, data_wdata

(* What the bus does in a cycle. *)
LEMMA Answered ==
    ASSUME responses \in Seq(Answers), NEW rvalid \in BOOLEAN, rvalid => responses # <<>>
    PROVE  /\ After(rvalid) \in Seq(Answers)
           /\ Len(After(rvalid)) = Len(responses) - (IF rvalid THEN 1 ELSE 0)
  BY DEF After

LEMMA ResponseType ==
    ASSUME MemConstants, LsuTypeOK, NEW a \in Accesses, NEW addr \in Addr
    PROVE  Response(a, addr) \in Answers
<1>1. addr \div 4 \in 0..(NDataWords - 1) /\ NDataWords \in Nat
  BY Memory DEF Addr
<1>2. \A k \in 0..3 : 4 * (addr \div 4) + k \in Addr
  BY <1>1 DEF Addr
<1>3. Word(mem, addr) \in [0..3 -> 0..255]
  BY <1>2 DEF Word, LsuTypeOK
<1> QED
  BY <1>3 DEF Response, Answers

LEMMA BusCycle ==
    ASSUME MemConstants, LsuTypeOK, responses \in Seq(Answers),
           NEW rvalid \in BOOLEAN, rvalid => responses # <<>>, NEW gnt \in BOOLEAN,
           NEW a \in Accesses, NEW addr \in Addr, NEW second \in BOOLEAN,
           DataBus(rvalid, gnt, a, addr, second)
    PROVE  /\ mem' \in [Addr -> 0..255]
           /\ responses' \in Seq(Answers)
           /\ Len(responses') = Len(responses) - (IF rvalid THEN 1 ELSE 0)
                                               + (IF gnt THEN 1 ELSE 0)
<1>1. After(rvalid) \in Seq(Answers)
      /\ Len(After(rvalid)) = Len(responses) - (IF rvalid THEN 1 ELSE 0)
      /\ Len(responses) \in Nat
  BY Answered
<1>2. Response(a, addr) \in Answers
  BY ResponseType
<1>3. mem' \in [Addr -> 0..255]
  <2>1. mem \in [Addr -> 0..255]
    BY DEF LsuTypeOK
  <2>2. \A b \in Addr : b % 4 \in 0..3
    BY Memory DEF Addr
  <2>3. \A b \in Addr : data_wdata(a)[b % 4] \in 0..255
    BY <2>2, Signals
  <2> QED
    BY <2>1, <2>3 DEF DataBus
<1>4. CASE gnt
  <2>1. responses' = Append(After(rvalid), Response(a, addr))
    BY <1>4 DEF DataBus
  <2> DEFINE q == After(rvalid)
             e == Response(a, addr)
  <2> HIDE DEF q, e
  <2>2. Append(q, e) \in Seq(Answers) /\ Len(Append(q, e)) = Len(q) + 1
    BY <1>1, <1>2 DEF q, e
  <2>3. responses' = Append(q, e) /\ Len(q) = Len(responses) - (IF rvalid THEN 1 ELSE 0)
    BY <1>1, <2>1 DEF q, e
  <2> QED
    BY <1>3, <1>4, <2>2, <2>3
<1>5. CASE ~gnt
  BY <1>1, <1>3, <1>5 DEF DataBus
<1> QED
  BY <1>4, <1>5

(* The cycles in which nothing is answered, and those in which nothing is asked. *)
LEMMA GrantCycle ==
    ASSUME MemConstants, LsuTypeOK, responses \in Seq(Answers), NEW gnt \in BOOLEAN,
           NEW a \in Accesses, NEW addr \in Addr, NEW second \in BOOLEAN,
           DataBus(FALSE, gnt, a, addr, second)
    PROVE  /\ mem' \in [Addr -> 0..255]
           /\ responses' \in Seq(Answers)
           /\ Len(responses') = Len(responses) + (IF gnt THEN 1 ELSE 0)
<1> DEFINE none == FALSE
<1>1. none \in BOOLEAN /\ (none => responses # <<>>) /\ none = FALSE
  OBVIOUS
<1>2. DataBus(none, gnt, a, addr, second)
  OBVIOUS
<1> HIDE DEF none
<1>3. /\ mem' \in [Addr -> 0..255] /\ responses' \in Seq(Answers)
      /\ Len(responses') = Len(responses) - (IF none THEN 1 ELSE 0)
                                          + (IF gnt THEN 1 ELSE 0)
  <2>1. none \in BOOLEAN /\ (none => responses # <<>>)
    BY <1>1
  <2> QED
    BY <1>2, <2>1, BusCycle
<1>4. Len(responses) \in Nat
  OBVIOUS
<1> QED
  BY <1>1, <1>3, <1>4

LEMMA NoRequestCycle ==
    ASSUME LsuTypeOK, responses \in Seq(Answers), NEW rvalid \in BOOLEAN,
           rvalid => responses # <<>>, NoRequest(rvalid)
    PROVE  /\ mem' \in [Addr -> 0..255]
           /\ responses' \in Seq(Answers)
           /\ Len(responses') = Len(responses) - (IF rvalid THEN 1 ELSE 0)
  BY Answered DEF NoRequest, LsuTypeOK

LEMMA AnswerCycle ==
    ASSUME LsuTypeOK, responses \in Seq(Answers), responses # <<>>, NoRequest(TRUE)
    PROVE  /\ mem' \in [Addr -> 0..255]
           /\ responses' \in Seq(Answers)
           /\ Len(responses') = Len(responses) - 1
<1>1. responses' = Tail(responses) /\ mem' = mem
  BY DEF NoRequest, After
<1> QED
  BY <1>1 DEF LsuTypeOK

LEMMA GntType ==
    ASSUME NEW addr, NEW gnt \in Gnt(addr)
    PROVE  gnt \in BOOLEAN /\ (data_pmp_err(addr) => gnt = FALSE)
  BY DEF Gnt

LEMMA RvalidType ==
    ASSUME NEW rvalid \in Rvalid
    PROVE  rvalid \in BOOLEAN /\ (rvalid => responses # <<>>)
  BY DEF Rvalid

LEMMA CtrlTypes ==
    ASSUME MemConstants, NEW a \in Accesses, CtrlUpdate(a)
    PROVE  /\ rdata_offset_q' \in 0..3 /\ data_size_q' \in {1, 2, 4}
           /\ data_sign_ext_q' \in BOOLEAN /\ data_we_q' \in BOOLEAN
  BY Memory, Signals DEF CtrlUpdate

LEMMA RdataType ==
    ASSUME LsuTypeOK, responses \in Seq(Answers), responses # <<>>, RdataUpdate
    PROVE  rdata_q' \in [0..3 -> 0..255]
<1>1. Head(responses) \in Answers
  OBVIOUS
<1> QED
  BY <1>1 DEF RdataUpdate, LsuTypeOK, Answers

-----------------------------------------------------------------------------
LEMMA InitInv == ASSUME MemConstants, LsuInit PROVE IInv
<1> USE DEF LsuInit
<1>1. LsuTypeOK
  <2>1. mem \in [Addr -> 0..255] /\ addr_last_q \in Addr
    BY Memory
  <2>2. /\ acc \in Accesses \cup {NoAccess} /\ ls_fsm_cs \in States
        /\ handle_misaligned_q \in BOOLEAN /\ pmp_err_q \in BOOLEAN
        /\ lsu_err_q \in BOOLEAN /\ data_sign_ext_q \in BOOLEAN /\ data_we_q \in BOOLEAN
    BY DEF States
  <2>3. rdata_q \in [0..3 -> 0..255]
    OBVIOUS
  <2>4. rdata_offset_q \in 0..3 /\ data_size_q \in {1, 2, 4} /\ accepted \in 0..MaxAccess
    BY Memory
  <2> QED
    BY <2>1, <2>2, <2>3, <2>4 DEF LsuTypeOK
<1>2. responses \in Seq(Answers) /\ Len(responses) = 0
  OBVIOUS
<1>3. AnswersOwed /\ Verdict
  BY <1>2 DEF AnswersOwed, Owed, Verdict, NoAccess
<1> QED
  BY <1>1, <1>2, <1>3 DEF IInv

(* A first request, with the answer to the access before it or without one. *)
LEMMA RequestKeeps ==
    ASSUME MemConstants, IInv, ls_fsm_cs = "IDLE", accepted < MaxAccess,
           NEW a \in Accesses, NEW gnt \in Gnt(a.addr), NEW rvalid \in BOOLEAN,
           rvalid => responses # <<>>,
           Len(responses) = (IF rvalid THEN 1 ELSE 0),
           Request(a, rvalid, gnt), UNCHANGED <<fault, rdata_q>>
    PROVE  IInv'
<1>1. /\ gnt \in BOOLEAN /\ (data_pmp_err(a.addr) => gnt = FALSE)
      /\ a.addr \in Addr /\ handle_misaligned_q = FALSE
  BY GntType, Memory DEF IInv, LsuTypeOK, Verdict
<1>2. /\ mem' \in [Addr -> 0..255] /\ responses' \in Seq(Answers)
      /\ Len(responses') = IF gnt THEN 1 ELSE 0
  <2> DEFINE addr   == a.addr
             second == handle_misaligned_q
             answer == rvalid
  <2>1. DataBus(answer, gnt, a, addr, second)
    BY DEF Request
  <2>2. LsuTypeOK /\ responses \in Seq(Answers) /\ gnt \in BOOLEAN /\ addr \in Addr
    BY <1>1 DEF IInv
  <2>3. second \in BOOLEAN
    BY DEF IInv, LsuTypeOK
  <2>4. answer \in BOOLEAN /\ (answer => responses # <<>>)
    OBVIOUS
  <2> HIDE DEF addr, second, answer
  <2>5. /\ mem' \in [Addr -> 0..255] /\ responses' \in Seq(Answers)
        /\ Len(responses') = Len(responses) - (IF answer THEN 1 ELSE 0)
                                            + (IF gnt THEN 1 ELSE 0)
    BY <2>1, <2>2, <2>3, <2>4, BusCycle, SMTT(30)
  <2> QED
    BY <1>1, <2>5 DEF answer
<1>3. /\ acc' = a /\ a # NoAccess /\ pmp_err_q' = data_pmp_err(a.addr)
      /\ fault' = fault /\ rdata_q' = rdata_q
  BY Memory DEF Request
<1>4. split_misaligned_access(a) \in BOOLEAN
  BY Signals
<1>5. CASE gnt
  <2>1. /\ CtrlUpdate(a) /\ handle_misaligned_q' = split_misaligned_access(a)
        /\ ls_fsm_cs' = IF split_misaligned_access(a) THEN "WAIT_RVALID_MIS" ELSE "IDLE"
        /\ addr_last_q' = a.addr /\ pmp_err_q' = FALSE /\ lsu_err_q' = FALSE
        /\ accepted' = accepted + 1
    BY <1>1, <1>3, <1>5 DEF Request, AddrUpdate
  <2>2. LsuTypeOK'
    <3>1. /\ mem' \in [Addr -> 0..255] /\ addr_last_q' \in Addr
          /\ rdata_q' \in [0..3 -> 0..255] /\ accepted' \in 0..MaxAccess
      BY <1>1, <1>2, <1>3, <2>1, Memory DEF LsuTypeOK, IInv
    <3>2. /\ acc' \in Accesses \cup {NoAccess} /\ ls_fsm_cs' \in States
          /\ handle_misaligned_q' \in BOOLEAN /\ pmp_err_q' \in BOOLEAN
          /\ lsu_err_q' \in BOOLEAN
      BY <1>3, <1>4, <2>1 DEF States
    <3>3. /\ rdata_offset_q' \in 0..3 /\ data_size_q' \in {1, 2, 4}
          /\ data_sign_ext_q' \in BOOLEAN /\ data_we_q' \in BOOLEAN
      BY <2>1, CtrlTypes
    <3> QED
      BY <3>1, <3>2, <3>3 DEF LsuTypeOK
  <2>3. AnswersOwed'
    BY <1>2, <1>3, <1>5, <2>1 DEF AnswersOwed, Owed
  <2>4. Verdict'
    BY <1>3, <2>1 DEF Verdict
  <2> QED
    BY <1>2, <2>2, <2>3, <2>4 DEF IInv
<1>6. CASE ~gnt
  <2>1. /\ UNCHANGED <<ctrl, handle_misaligned_q, addr_last_q>>
        /\ ls_fsm_cs' = IF split_misaligned_access(a) THEN "WAIT_GNT_MIS" ELSE "WAIT_GNT"
        /\ lsu_err_q' = FALSE /\ accepted' = accepted + 1
    BY <1>6 DEF Request, AddrUpdate
  <2>2. pmp_err_q' \in BOOLEAN
    BY <1>3 DEF data_pmp_err
  <2>3. LsuTypeOK'
    <3>1. /\ mem' \in [Addr -> 0..255] /\ addr_last_q' \in Addr
          /\ rdata_q' \in [0..3 -> 0..255] /\ accepted' \in 0..MaxAccess
      BY <1>2, <1>3, <2>1, Memory DEF LsuTypeOK, IInv
    <3>2. /\ acc' \in Accesses \cup {NoAccess} /\ ls_fsm_cs' \in States
          /\ pmp_err_q' \in BOOLEAN /\ lsu_err_q' \in BOOLEAN
      BY <1>3, <2>1, <2>2 DEF States
    <3>3. /\ rdata_offset_q' \in 0..3 /\ data_size_q' \in {1, 2, 4}
          /\ data_sign_ext_q' \in BOOLEAN /\ data_we_q' \in BOOLEAN
          /\ handle_misaligned_q' \in BOOLEAN
      BY <2>1 DEF LsuTypeOK, IInv, ctrl
    <3> QED
      BY <3>1, <3>2, <3>3 DEF LsuTypeOK
  <2>4. AnswersOwed'
    BY <1>2, <1>6, <2>1 DEF AnswersOwed, Owed
  <2>5. Verdict'
    BY <1>1, <1>3, <2>1 DEF Verdict, data_pmp_err
  <2> QED
    BY <1>2, <2>3, <2>4, <2>5 DEF IInv
<1> QED
  BY <1>1, <1>5, <1>6

LEMMA StartKeeps == ASSUME MemConstants, IInv, Start PROVE IInv'
<1>1. Len(responses) = 0
  BY DEF Start, IInv, AnswersOwed, Owed
<1>2. PICK a \in Accesses : \E gnt \in Gnt(a.addr) : Request(a, FALSE, gnt)
  BY DEF Start
<1>3. PICK gnt \in Gnt(a.addr) : Request(a, FALSE, gnt)
  BY <1>2
<1> QED
  BY <1>1, <1>3, RequestKeeps DEF Start

LEMMA AnswerKeeps == ASSUME MemConstants, IInv, Answer PROVE IInv'
<1> USE DEF Answer
<1>1. PICK rvalid \in Rvalid : (rvalid \/ pmp_err_q) /\ NoRequest(rvalid)
  OBVIOUS
<1>2. rvalid \in BOOLEAN /\ (rvalid => responses # <<>>)
  BY RvalidType
<1>3. Len(responses) = IF pmp_err_q THEN 0 ELSE 1
  BY DEF IInv, AnswersOwed, Owed
<1>4. /\ mem' \in [Addr -> 0..255] /\ responses' \in Seq(Answers)
      /\ Len(responses') = Len(responses) - (IF rvalid THEN 1 ELSE 0)
  BY <1>1, <1>2, NoRequestCycle DEF IInv
<1>5. Len(responses') = 0
  <2>1. CASE pmp_err_q
    <3>1. responses = <<>>
      BY <1>3, <2>1 DEF IInv
    <3> QED
      BY <1>2, <1>3, <1>4, <2>1, <3>1
  <2>2. CASE ~pmp_err_q
    BY <1>1, <1>3, <1>4, <2>2
  <2> QED
    BY <2>1, <2>2
<1>6. LsuTypeOK'
  BY <1>4 DEF IInv, LsuTypeOK, ctrl
<1>7. AnswersOwed' /\ Verdict'
  BY <1>5 DEF IInv, AnswersOwed, Owed, Verdict
<1> QED
  BY <1>4, <1>6, <1>7 DEF IInv

LEMMA AnswerAndStartKeeps == ASSUME MemConstants, IInv, AnswerAndStart PROVE IInv'
<1>1. PICK a \in Accesses : \E gnt \in Gnt(a.addr) : Request(a, TRUE, gnt)
  BY DEF AnswerAndStart
<1>2. PICK gnt \in Gnt(a.addr) : Request(a, TRUE, gnt)
  BY <1>1
<1>3. ~pmp_err_q
  BY DEF AnswerAndStart, Respond
<1>4. Len(responses) = 1
  BY <1>3 DEF AnswerAndStart, IInv, AnswersOwed, Owed
<1>5. responses # <<>>
  BY <1>4
<1> QED
  BY <1>2, <1>4, <1>5, RequestKeeps DEF AnswerAndStart

LEMMA WaitGntMisKeeps == ASSUME MemConstants, IInv, WaitGntMis PROVE IInv'
<1> USE DEF WaitGntMis
<1>1. PICK gnt \in Gnt(acc.addr) :
         (gnt \/ pmp_err_q) /\ DataBus(FALSE, gnt, acc, acc.addr, handle_misaligned_q)
  OBVIOUS
<1>2. /\ gnt \in BOOLEAN /\ (data_pmp_err(acc.addr) => gnt = FALSE)
      /\ acc \in Accesses /\ acc.addr \in Addr /\ acc # NoAccess
      /\ handle_misaligned_q = FALSE /\ pmp_err_q = data_pmp_err(acc.addr)
      /\ Len(responses) = 0
  BY GntType, Memory DEF IInv, LsuTypeOK, Verdict, AnswersOwed, Owed
<1>3. /\ mem' \in [Addr -> 0..255] /\ responses' \in Seq(Answers)
      /\ Len(responses') = IF gnt THEN 1 ELSE 0
  <2>1. /\ LsuTypeOK /\ responses \in Seq(Answers) /\ handle_misaligned_q \in BOOLEAN
        /\ gnt \in BOOLEAN /\ acc \in Accesses /\ acc.addr \in Addr
    BY <1>2 DEF IInv
  <2>2. DataBus(FALSE, gnt, acc, acc.addr, handle_misaligned_q)
    BY <1>1
  <2>3. /\ mem' \in [Addr -> 0..255] /\ responses' \in Seq(Answers)
        /\ Len(responses') = Len(responses) + (IF gnt THEN 1 ELSE 0)
    BY <2>1, <2>2, GrantCycle
  <2> QED
    BY <1>2, <2>3
<1>4. LsuTypeOK'
  BY <1>2, <1>3, CtrlTypes DEF IInv, LsuTypeOK, States, AddrUpdate
<1>5. AnswersOwed'
  BY <1>1, <1>2, <1>3 DEF AnswersOwed, Owed
<1>6. Verdict'
  BY <1>2 DEF Verdict
<1> QED
  BY <1>3, <1>4, <1>5, <1>6 DEF IInv

LEMMA WaitRvalidMisKeeps == ASSUME MemConstants, IInv, WaitRvalidMis PROVE IInv'
<1> USE DEF WaitRvalidMis
<1>1. PICK rvalid \in Rvalid, gnt \in Gnt(SecondAddr) :
         LET err == pmp_err_q \/ Head(responses).err
         IN  /\ rvalid \/ pmp_err_q
             /\ DataBus(rvalid, gnt, acc, SecondAddr, handle_misaligned_q)
             /\ pmp_err_q' = data_pmp_err(SecondAddr)
             /\ lsu_err_q' = err
             /\ IF rvalid THEN RdataUpdate ELSE UNCHANGED rdata_q
             /\ ls_fsm_cs' = IF gnt THEN "IDLE" ELSE "WAIT_GNT"
             /\ AddrUpdate(gnt /\ ~err, 4 * (SecondAddr \div 4))
             /\ handle_misaligned_q' = ~gnt
  OBVIOUS
<1>2. /\ gnt \in BOOLEAN /\ (data_pmp_err(SecondAddr) => gnt = FALSE)
      /\ rvalid \in BOOLEAN /\ (rvalid => responses # <<>>)
  BY GntType, RvalidType
<1>3. /\ acc \in Accesses /\ acc # NoAccess
      /\ SecondAddr \in Addr /\ 4 * (SecondAddr \div 4) \in Addr
      /\ handle_misaligned_q \in BOOLEAN
      /\ Len(responses) = IF pmp_err_q THEN 0 ELSE 1
  BY SecondAddrType, Memory DEF IInv, LsuTypeOK, Verdict, AnswersOwed, Owed
<1>4. /\ mem' \in [Addr -> 0..255] /\ responses' \in Seq(Answers)
      /\ Len(responses') = Len(responses) - (IF rvalid THEN 1 ELSE 0)
                                          + (IF gnt THEN 1 ELSE 0)
  BY <1>1, <1>2, <1>3, BusCycle DEF IInv
<1>5. Len(responses') = IF gnt THEN 1 ELSE 0
  <2>1. CASE pmp_err_q
    <3>1. responses = <<>>
      BY <1>3, <2>1 DEF IInv
    <3> QED
      BY <1>2, <1>3, <1>4, <2>1, <3>1
  <2>2. CASE ~pmp_err_q
    BY <1>1, <1>3, <1>4, <2>2
  <2> QED
    BY <2>1, <2>2
<1>6. rdata_q' \in [0..3 -> 0..255]
  BY <1>1, <1>2, RdataType DEF IInv, LsuTypeOK
<1>7. /\ pmp_err_q' \in BOOLEAN /\ lsu_err_q' \in BOOLEAN
      /\ handle_misaligned_q' \in BOOLEAN
  BY <1>1, <1>2 DEF data_pmp_err
<1>8. LsuTypeOK'
  <2>1. addr_last_q' \in Addr
    BY <1>1, <1>3 DEF AddrUpdate, IInv, LsuTypeOK
  <2> QED
    BY <1>1, <1>2, <1>4, <1>6, <1>7, <2>1 DEF IInv, LsuTypeOK, States, ctrl
<1>9. CASE gnt
  <2>1. ls_fsm_cs' = "IDLE" /\ pmp_err_q' = FALSE /\ handle_misaligned_q' = FALSE
        /\ acc' = acc
    BY <1>1, <1>2, <1>9 DEF data_pmp_err
  <2>2. AnswersOwed' /\ Verdict'
    BY <1>3, <1>5, <1>9, <2>1 DEF AnswersOwed, Owed, Verdict
  <2> QED
    BY <1>4, <1>8, <2>2 DEF IInv
<1>10. CASE ~gnt
  <2>1. /\ ls_fsm_cs' = "WAIT_GNT" /\ pmp_err_q' = data_pmp_err(SecondAddr)
        /\ handle_misaligned_q' = TRUE /\ acc' = acc /\ fault' = fault
        /\ addr_last_q' = addr_last_q
    BY <1>1, <1>10 DEF AddrUpdate
  <2>2. AnswersOwed' /\ Verdict'
    BY <1>3, <1>5, <1>10, <2>1 DEF AnswersOwed, Owed, Verdict, data_pmp_err, SecondAddr
  <2> QED
    BY <1>4, <1>8, <2>2 DEF IInv
<1> QED
  BY <1>9, <1>10

LEMMA SecondGrantedKeeps == ASSUME MemConstants, IInv, SecondGranted PROVE IInv'
<1> USE DEF SecondGranted
<1>1. /\ ~data_pmp_err(SecondAddr) /\ SecondAddr \in Addr
      /\ acc \in Accesses /\ handle_misaligned_q \in BOOLEAN
      /\ Len(responses) = 1
  BY SecondAddrType DEF Gnt, IInv, LsuTypeOK, Verdict, AnswersOwed, Owed
<1>2. /\ mem' \in [Addr -> 0..255] /\ responses' \in Seq(Answers)
      /\ Len(responses') = 2
  <2> DEFINE gnt == TRUE
  <2>1. gnt \in BOOLEAN /\ DataBus(FALSE, gnt, acc, SecondAddr, handle_misaligned_q)
    OBVIOUS
  <2>2. gnt = TRUE
    OBVIOUS
  <2> HIDE DEF gnt
  <2>3. /\ mem' \in [Addr -> 0..255] /\ responses' \in Seq(Answers)
        /\ Len(responses') = Len(responses) + (IF gnt THEN 1 ELSE 0)
    <3>1. /\ LsuTypeOK /\ responses \in Seq(Answers) /\ handle_misaligned_q \in BOOLEAN
          /\ acc \in Accesses /\ SecondAddr \in Addr
      BY <1>1 DEF IInv
    <3> QED
      BY <2>1, <3>1, GrantCycle
  <2> QED
    BY <1>1, <2>2, <2>3
<1>3. LsuTypeOK'
  BY <1>2 DEF IInv, LsuTypeOK, States, ctrl
<1>4. AnswersOwed' /\ Verdict'
  BY <1>1, <1>2 DEF AnswersOwed, Owed, Verdict, data_pmp_err, SecondAddr
<1> QED
  BY <1>2, <1>3, <1>4 DEF IInv

LEMMA WaitGntKeeps == ASSUME MemConstants, IInv, WaitGnt PROVE IInv'
<1> DEFINE addr == IF handle_misaligned_q THEN SecondAddr ELSE acc.addr
<1>1. PICK gnt \in Gnt(addr) :
         (gnt \/ pmp_err_q) /\ DataBus(FALSE, gnt, acc, addr, handle_misaligned_q)
  BY DEF WaitGnt
<1>2. /\ gnt \in BOOLEAN /\ (data_pmp_err(addr) => gnt = FALSE)
  BY GntType
<1>3. /\ acc \in Accesses /\ acc # NoAccess /\ acc.addr \in Addr
      /\ SecondAddr \in Addr /\ 4 * (SecondAddr \div 4) \in Addr
      /\ handle_misaligned_q \in BOOLEAN /\ pmp_err_q = data_pmp_err(addr)
      /\ Len(responses) = 0
  BY SecondAddrType, Memory DEF WaitGnt, IInv, LsuTypeOK, Verdict, AnswersOwed, Owed
<1>4. addr \in Addr
  BY <1>3
<1>5. addr_last_q' \in Addr
  BY <1>3 DEF WaitGnt, AddrUpdate, IInv, LsuTypeOK
<1> HIDE DEF addr
<1>6. /\ mem' \in [Addr -> 0..255] /\ responses' \in Seq(Answers)
      /\ Len(responses') = IF gnt THEN 1 ELSE 0
  <2>1. /\ LsuTypeOK /\ responses \in Seq(Answers) /\ handle_misaligned_q \in BOOLEAN
        /\ gnt \in BOOLEAN /\ acc \in Accesses
    BY <1>2, <1>3 DEF IInv
  <2>2. DataBus(FALSE, gnt, acc, addr, handle_misaligned_q)
    BY <1>1
  <2>3. /\ mem' \in [Addr -> 0..255] /\ responses' \in Seq(Answers)
        /\ Len(responses') = Len(responses) + (IF gnt THEN 1 ELSE 0)
    BY <1>4, <2>1, <2>2, GrantCycle
  <2> QED
    BY <1>3, <2>3
<1>7. LsuTypeOK'
  BY <1>3, <1>5, <1>6, CtrlTypes DEF WaitGnt, IInv, LsuTypeOK, States
<1>8. AnswersOwed' /\ Verdict'
  BY <1>1, <1>2, <1>3, <1>6 DEF WaitGnt, AnswersOwed, Owed, Verdict
<1> QED
  BY <1>6, <1>7, <1>8 DEF IInv

LEMMA WaitRvalidMisGntsDoneKeeps ==
    ASSUME MemConstants, IInv, WaitRvalidMisGntsDone PROVE IInv'
<1> USE DEF WaitRvalidMisGntsDone
<1>1. /\ ~data_pmp_err(SecondAddr) /\ 4 * (SecondAddr \div 4) \in Addr
      /\ acc \in Accesses /\ acc # NoAccess /\ handle_misaligned_q = FALSE
      /\ Len(responses) = 2
  BY SecondAddrType, Memory DEF IInv, LsuTypeOK, Verdict, AnswersOwed, Owed
<1>2. responses # <<>> /\ Head(responses) \in Answers
  <2> DEFINE q == responses
             n == Len(q)
  <2>1. q \in Seq(Answers) /\ n > 0
    BY <1>1 DEF IInv
  <2> HIDE DEF q
  <2>2. q # <<>>
    BY <2>1
  <2>3. Head(q) \in Answers
    BY <2>1, <2>2
  <2> QED
    BY <2>2, <2>3 DEF q
<1>3. /\ mem' \in [Addr -> 0..255] /\ responses' \in Seq(Answers)
      /\ Len(responses') = 1
  <2>1. NoRequest(TRUE) /\ LsuTypeOK /\ responses \in Seq(Answers)
    BY DEF IInv
  <2> QED
    BY <1>1, <1>2, <2>1, AnswerCycle
<1>4. rdata_q' \in [0..3 -> 0..255]
  BY <1>2, RdataType DEF IInv
<1>5. /\ addr_last_q' \in Addr /\ lsu_err_q' \in BOOLEAN /\ pmp_err_q' = FALSE
  BY <1>1, <1>2 DEF AddrUpdate, IInv, LsuTypeOK, Answers, data_pmp_err
<1>6. LsuTypeOK'
  BY <1>3, <1>4, <1>5 DEF IInv, LsuTypeOK, States, ctrl
<1>7. AnswersOwed' /\ Verdict'
  BY <1>1, <1>3, <1>5 DEF AnswersOwed, Owed, Verdict
<1> QED
  BY <1>3, <1>6, <1>7 DEF IInv

-----------------------------------------------------------------------------
LEMMA NextKeeps == ASSUME MemConstants, IInv, [LsuNext]_lsuVars PROVE IInv'
<1>1. CASE Start
  BY <1>1, StartKeeps
<1>2. CASE AnswerAndStart
  BY <1>2, AnswerAndStartKeeps
<1>3. CASE Progress
  BY <1>3, AnswerKeeps, WaitGntMisKeeps, WaitRvalidMisKeeps, SecondGrantedKeeps,
     WaitGntKeeps, WaitRvalidMisGntsDoneKeeps DEF Progress
<1>4. CASE UNCHANGED lsuVars
  BY <1>4 DEF lsuVars, ctrl, IInv, LsuTypeOK, AnswersOwed, Owed, Verdict, data_pmp_err,
              SecondAddr
<1> QED
  BY <1>1, <1>2, <1>3, <1>4 DEF LsuNext

(***************************************************************************)
(* No register of the unit leaves its type, and the bus owes it exactly    *)
(* the answers it waits for (ibex_load_store_unit.sv:386-486).             *)
(***************************************************************************)
THEOREM OnlyOwedAnswers == MemConstants => (LsuSafety => []LsuInv)
<1> SUFFICES ASSUME MemConstants PROVE LsuSafety => []LsuInv
  OBVIOUS
<1>1. LsuInit => IInv
  BY InitInv
<1>2. IInv /\ [LsuNext]_lsuVars => IInv'
  BY NextKeeps
<1>3. IInv => LsuInv
  BY DEF IInv, LsuInv
<1> QED
  BY <1>1, <1>2, <1>3, PTL DEF LsuSafety

-----------------------------------------------------------------------------
(***************************************************************************)
(* The unit implements MemAccess.  An access is over in several cycles, so *)
(* the invariant says for each state what the registers hold of the first  *)
(* half: its data in rdata_q, its error in lsu_err_q, its address in       *)
(* addr_last_q, and its bytes in memory if it was a store.                 *)
(***************************************************************************)

(* Division with remainder. *)
LEMMA DivModUnique ==
    ASSUME NEW d \in Nat, d > 0, NEW q \in Nat, NEW r \in 0..(d - 1)
    PROVE  (q * d + r) \div d = q /\ (q * d + r) % d = r
  BY SMT

LEMMA SmallMod ==
    ASSUME NEW m \in Nat, m > 0, NEW a \in Nat, a < 2 * m
    PROVE  /\ a < m => a % m = a
           /\ ~(a < m) => a % m = a - m
<1>1. CASE a < m
  <2>1. a \in 0..(m - 1) /\ 0 * m + a = a
    BY <1>1
  <2> QED
    BY <1>1, <2>1, DivModUnique
<1>2. CASE ~(a < m)
  <2>1. a - m \in 0..(m - 1) /\ 1 * m + (a - m) = a
    BY <1>2
  <2> QED
    BY <1>2, <2>1, DivModUnique
<1> QED
  BY <1>1, <1>2

(* The words of an access, and the place of each of its bytes. *)
NextWord(w) == IF w + 1 < NDataWords THEN w + 1 ELSE 0

First(a) == a.addr \div 4

LEMMA FirstFacts ==
    ASSUME MemConstants, NEW a \in Accesses
    PROVE  /\ a.addr = 4 * First(a) + data_offset(a)
           /\ First(a) \in DataWords /\ First(a) \in Nat /\ First(a) < NDataWords
           /\ data_offset(a) \in 0..3
           /\ NextWord(First(a)) \in DataWords /\ NextWord(First(a)) \in Nat
           /\ NextWord(First(a)) # First(a)
           /\ First(a) = Abs!FirstWord(a)
<1>1. a.addr \in 0..(4 * NDataWords - 1) /\ NDataWords \in Nat /\ NDataWords > 1
  BY Memory DEF Addr
<1> QED
  BY <1>1 DEF First, data_offset, DataWords, NextWord, Abs!FirstWord

(* An access is split exactly when it runs into the next word. *)
LEMMA SplitFacts ==
    ASSUME MemConstants, NEW a \in Accesses
    PROVE  split_misaligned_access(a) <=> data_offset(a) + a.size > 4
<1>1. a.size \in {1, 2, 4} /\ data_offset(a) \in 0..3
  BY Memory, Signals
<1> QED
  BY <1>1 DEF split_misaligned_access

(* Where byte k of an access is. *)
LEMMA ByteFacts ==
    ASSUME MemConstants, NEW a \in Accesses, NEW k \in 0..4
    PROVE  LET b == (a.addr + k) % (4 * NDataWords)
           IN  /\ data_offset(a) + k < 4 => b = 4 * First(a) + (data_offset(a) + k)
               /\ ~(data_offset(a) + k < 4) =>
                     b = 4 * NextWord(First(a)) + (data_offset(a) + k - 4)
<1> DEFINE x == a.addr
           m == 4 * NDataWords
           w == First(a)
           o == data_offset(a)
<1>1. x = 4 * w + o /\ w \in Nat /\ w < NDataWords /\ o \in 0..3
      /\ NDataWords \in Nat /\ NDataWords > 1 /\ m \in Nat /\ m > 0 /\ x \in Nat /\ x < m
  BY FirstFacts, Memory DEF Addr
<1> HIDE DEF x, w, o
<1>2. x + k \in Nat /\ x + k < 2 * m
  BY <1>1
<1>3. /\ x + k < m => (x + k) % m = x + k
      /\ ~(x + k < m) => (x + k) % m = x + k - m
  <2> HIDE DEF m
  <2> QED
    BY <1>1, <1>2, SmallMod
<1>4. o + k < 4 => (x + k) % m = 4 * w + (o + k)
  BY <1>1, <1>3
<1>5. ~(o + k < 4) => (x + k) % m = 4 * NextWord(w) + (o + k - 4)
  BY <1>1, <1>3 DEF NextWord
<1> QED
  BY <1>4, <1>5 DEF x, m, w, o

LEMMA WordPart ==
    ASSUME NEW w \in Nat, NEW j \in 0..3
    PROVE  (4 * w + j) \div 4 = w /\ (4 * w + j) % 4 = j
  OBVIOUS

LEMMA LastFacts ==
    ASSUME MemConstants, NEW a \in Accesses
    PROVE  /\ Abs!LastWord(a) \in DataWords
           /\ ~split_misaligned_access(a) => Abs!LastWord(a) = First(a)
           /\ split_misaligned_access(a) =>
                 /\ Abs!LastWord(a) = NextWord(First(a))
                 /\ ((a.addr + 4) % (4 * NDataWords)) \div 4 = Abs!LastWord(a)
<1>1. a.size \in {1, 2, 4} /\ data_offset(a) \in 0..3 /\ a.size - 1 \in 0..4 /\ 4 \in 0..4
  BY Memory, FirstFacts
<1>2. /\ First(a) \in Nat /\ NextWord(First(a)) \in Nat
      /\ First(a) \in DataWords /\ NextWord(First(a)) \in DataWords
  BY FirstFacts
<1>3. Abs!LastWord(a) = ((a.addr + (a.size - 1)) % (4 * NDataWords)) \div 4
  BY DEF Abs!LastWord, Abs!ByteAddr
<1>4. CASE split_misaligned_access(a)
  <2>1. ~(data_offset(a) + (a.size - 1) < 4) /\ data_offset(a) + (a.size - 1) - 4 \in 0..3
    BY <1>1, <1>4, SplitFacts
  <2>2. Abs!LastWord(a) = NextWord(First(a))
    BY <1>1, <1>2, <1>3, <2>1, ByteFacts, WordPart
  <2>3. ~(data_offset(a) + 4 < 4) /\ data_offset(a) + 4 - 4 \in 0..3
    BY <1>1
  <2>4. ((a.addr + 4) % (4 * NDataWords)) \div 4 = NextWord(First(a))
    BY <1>1, <1>2, <2>3, ByteFacts, WordPart
  <2> QED
    BY <1>2, <1>4, <2>2, <2>4
<1>5. CASE ~split_misaligned_access(a)
  <2>1. data_offset(a) + (a.size - 1) < 4 /\ data_offset(a) + (a.size - 1) \in 0..3
    BY <1>1, <1>5, SplitFacts
  <2>2. Abs!LastWord(a) = First(a)
    BY <1>1, <1>2, <1>3, <2>1, ByteFacts, WordPart
  <2> QED
    BY <1>2, <1>5, <2>2
<1> QED
  BY <1>4, <1>5

(* Which byte of access a the address b is. *)
Position(a, b) == (b + 4 * NDataWords - a.addr) % (4 * NDataWords)

LEMMA PositionFacts ==
    ASSUME MemConstants, NEW a \in Accesses, NEW b \in Addr
    PROVE  LET j == b % 4
               o == data_offset(a)
           IN  /\ j \in 0..3
               /\ b \div 4 = First(a) =>
                     /\ o <= j => Position(a, b) = j - o
                     /\ j < o => Position(a, b) >= 4
               /\ b \div 4 = NextWord(First(a)) => Position(a, b) = j + 4 - o
<1> DEFINE x == a.addr
           m == 4 * NDataWords
           w == First(a)
           o == data_offset(a)
           j == b % 4
           v == b \div 4
<1>1. x = 4 * w + o /\ w \in Nat /\ w < NDataWords /\ o \in 0..3
      /\ NDataWords \in Nat /\ NDataWords > 1 /\ m \in Nat /\ m > 0 /\ x \in Nat /\ x < m
  BY FirstFacts, Memory DEF Addr
<1>2. b = 4 * v + j /\ v \in Nat /\ j \in 0..3 /\ b \in Nat /\ b < m
  BY <1>1 DEF Addr
<1> HIDE DEF x, w, o, j, v
<1>3. b + m - x \in Nat /\ b + m - x < 2 * m
  BY <1>1, <1>2
<1>4. /\ b + m - x < m => (b + m - x) % m = b + m - x
      /\ ~(b + m - x < m) => (b + m - x) % m = b + m - x - m
  <2> HIDE DEF m
  <2> QED
    BY <1>1, <1>2, <1>3, SmallMod
<1>5. v = w /\ o <= j => (b + m - x) % m = j - o
  BY <1>1, <1>2, <1>4
<1>6. v = w /\ j < o => (b + m - x) % m >= 4
  BY <1>1, <1>2, <1>4
<1>7. v = NextWord(w) => (b + m - x) % m = j + 4 - o
  BY <1>1, <1>2, <1>4 DEF NextWord
<1> QED
  BY <1>2, <1>5, <1>6, <1>7 DEF Position, x, m, w, o, j, v

(* The short queues of answers. *)
LEMMA LenNone ==
    ASSUME NEW s \in Seq(Answers), Len(s) = 0
    PROVE  s = <<>>
  OBVIOUS

LEMMA NotEmpty ==
    ASSUME NEW s \in Seq(Answers), NEW n, Len(s) = n, n # 0
    PROVE  s # <<>>
  OBVIOUS

LEMMA LenOne ==
    ASSUME NEW s \in Seq(Answers), Len(s) = 1
    PROVE  s # <<>> /\ Head(s) = s[1] /\ Tail(s) = <<>>
<1>1. s # <<>>
  BY NotEmpty
<1>2. Head(s) = s[1]
  BY <1>1
<1>3. Tail(s) \in Seq(Answers) /\ Len(Tail(s)) = 0
  BY <1>1
<1> QED
  BY <1>1, <1>2, <1>3, LenNone

LEMMA LenTwo ==
    ASSUME NEW s \in Seq(Answers), Len(s) = 2
    PROVE  s # <<>> /\ Head(s) = s[1] /\ Tail(s)[1] = s[2]
<1>1. s # <<>>
  OBVIOUS
<1>2. Head(s) = s[1]
  BY <1>1
<1>3. Len(Tail(s)) = 1 /\ 1 \in 1..1
  BY <1>1
<1>4. Tail(s)[1] = s[1 + 1]
  BY <1>1, <1>3
<1> QED
  BY <1>1, <1>2, <1>4

LEMMA AppendToNone == ASSUME NEW e PROVE Append(<<>>, e) = <<e>>
  OBVIOUS

LEMMA AppendToOne ==
    ASSUME NEW s \in Seq(Answers), NEW e \in Answers, Len(s) = 1
    PROVE  Append(s, e)[1] = s[1] /\ Append(s, e)[2] = e
  BY AppendProperties

-----------------------------------------------------------------------------
(* The part of store a in word w is in memory m. *)
Stored(m, a, w) ==
    a.we => \A b \in Addr : b \div 4 = w /\ Position(a, b) < a.size
                               => m[b] = a.wdata[Position(a, b)]

(* What writing the words ws of a store does. *)
LEMMA WrittenFacts ==
    ASSUME NEW m \in [Addr -> 0..255], NEW a, NEW ws
    PROVE  LET n == Abs!Written(m, a, ws)
           IN  /\ \A w \in ws : Stored(n, a, w)
               /\ \A w : Stored(m, a, w) => Stored(n, a, w)
               /\ ~a.we \/ ws = {} => n = m
<1> DEFINE n == Abs!Written(m, a, ws)
<1>1. n = [b \in Addr |-> IF a.we /\ Position(a, b) < a.size /\ b \div 4 \in ws
                          THEN a.wdata[Position(a, b)] ELSE m[b]]
  BY DEF Abs!Written, Abs!Addr, Addr, Position
<1> HIDE DEF n
<1>2. \A w \in ws : Stored(n, a, w)
  BY <1>1 DEF Stored
<1>3. \A w : Stored(m, a, w) => Stored(n, a, w)
  BY <1>1 DEF Stored
<1>4. ~a.we \/ ws = {} => n = m
  BY <1>1
<1> QED
  BY <1>2, <1>3, <1>4 DEF n

(* Writing again what is stored already changes nothing. *)
LEMMA StoredAll ==
    ASSUME NEW m \in [Addr -> 0..255], NEW a, NEW ws, \A w \in ws : Stored(m, a, w)
    PROVE  m = Abs!Written(m, a, ws)
<1>1. Abs!Written(m, a, ws) =
        [b \in Addr |-> IF a.we /\ Position(a, b) < a.size /\ b \div 4 \in ws
                        THEN a.wdata[Position(a, b)] ELSE m[b]]
  BY DEF Abs!Written, Abs!Addr, Addr, Position
<1>2. \A b \in Addr : a.we /\ Position(a, b) < a.size /\ b \div 4 \in ws
                         => a.wdata[Position(a, b)] = m[b]
  BY DEF Stored
<1> QED
  BY <1>1, <1>2

(* The request for one half of an access, and the word it asks for. *)
Half(a, addr, second) ==
    IF second THEN split_misaligned_access(a) /\ addr \div 4 = Abs!LastWord(a)
    ELSE addr \div 4 = First(a)

(* The byte enables of a half select its bytes, and each lane carries its byte. *)
LEMMA EnabledBytes ==
    ASSUME MemConstants, NEW a \in Accesses, NEW addr, NEW second \in BOOLEAN,
           Half(a, addr, second), NEW b \in Addr, b \div 4 = addr \div 4
    PROVE  /\ b % 4 \in data_be(a, second) <=> Position(a, b) < a.size
           /\ Position(a, b) < a.size => data_wdata(a)[b % 4] = a.wdata[Position(a, b)]
<1> DEFINE j == b % 4
           o == data_offset(a)
           p == Position(a, b)
<1>1. /\ j \in 0..3 /\ o \in 0..3 /\ a.size \in {1, 2, 4}
      /\ b \div 4 = First(a) => (o <= j => p = j - o) /\ (j < o => p >= 4)
      /\ b \div 4 = NextWord(First(a)) => p = j + 4 - o
  BY PositionFacts, Signals, Memory
<1>2. data_wdata(a)[j] = a.wdata[(j + 4 - o) % 4]
  BY <1>1 DEF data_wdata
<1>3. p \in Nat
  BY Memory DEF Position, Addr
<1>4. CASE second
  <2>1. p = j + 4 - o /\ o > 0
    <3>1. split_misaligned_access(a) /\ b \div 4 = NextWord(First(a))
      BY <1>4, LastFacts DEF Half
    <3> QED
      BY <1>1, <3>1, SplitFacts
  <2>2. j \in data_be(a, second) <=> j + 4 < o + a.size
    BY <1>1, <1>4 DEF data_be
  <2> HIDE DEF j, o, p
  <2>3. j + 4 < o + a.size <=> p < a.size
    BY <1>1, <2>1
  <2>4. p < a.size => (j + 4 - o) % 4 = p
    BY <1>1, <2>1
  <2>5. p < a.size => data_wdata(a)[j] = a.wdata[p]
    BY <1>2, <2>4
  <2> QED
    BY <2>2, <2>3, <2>5 DEF j, o, p
<1>5. CASE ~second
  <2>1. (o <= j => p = j - o) /\ (j < o => p >= 4)
    BY <1>1, <1>5 DEF Half
  <2>2. j \in data_be(a, second) <=> o <= j /\ j < o + a.size
    BY <1>1, <1>5 DEF data_be
  <2> HIDE DEF j, o, p
  <2>3. o <= j /\ j < o + a.size <=> p < a.size
    BY <1>1, <1>3, <2>1
  <2>4. p < a.size => (j + 4 - o) % 4 = p
    BY <1>1, <1>3, <2>1
  <2>5. p < a.size => data_wdata(a)[j] = a.wdata[p]
    BY <1>2, <2>4
  <2> QED
    BY <2>2, <2>3, <2>5 DEF j, o, p
<1> QED
  BY <1>4, <1>5

(* What the words of an access hold against it. *)
Faulty == fault \in [DataWords -> Abs!Faults]

(* The faults of an access's words and what MemAccess says of the access. *)
LEMMA ReachableFacts ==
    ASSUME MemConstants, Faulty, NEW a \in Accesses
    PROVE  /\ First(a) \in Abs!WordsOf(a) /\ Abs!LastWord(a) \in Abs!WordsOf(a)
           /\ Abs!WordsOf(a) = {First(a), Abs!LastWord(a)}
           /\ \A w \in Abs!WordsOf(a) :
                 w \in Abs!Reachable(a) <=> fault[w] # "pmp" /\ fault[w] # "bus"
           /\ Abs!Reachable(a) \subseteq Abs!WordsOf(a)
           /\ Abs!Failing(a) <=> \/ First(a) \notin Abs!Reachable(a)
                                 \/ Abs!LastWord(a) \notin Abs!Reachable(a)
           /\ Abs!BadRead(a) <=>
                 ~a.we /\ (fault[First(a)] = "ecc" \/ fault[Abs!LastWord(a)] = "ecc")
<1>1. First(a) \in DataWords /\ Abs!LastWord(a) \in DataWords /\ First(a) = Abs!FirstWord(a)
  BY FirstFacts, LastFacts
<1>2. \A w \in DataWords : fault[w] \in {"none", "pmp", "bus", "ecc"}
  BY DEF Faulty, Abs!Faults
<1>3. Abs!WordsOf(a) = {First(a), Abs!LastWord(a)}
  BY <1>1 DEF Abs!WordsOf
<1>4. \A w \in Abs!WordsOf(a) :
         w \in Abs!Reachable(a) <=> fault[w] # "pmp" /\ fault[w] # "bus"
  BY <1>1, <1>2, <1>3 DEF Abs!Reachable
<1>5. Abs!Reachable(a) \subseteq Abs!WordsOf(a)
  BY DEF Abs!Reachable
<1>6. Abs!Failing(a) <=> \/ First(a) \notin Abs!Reachable(a)
                         \/ Abs!LastWord(a) \notin Abs!Reachable(a)
  BY <1>3, <1>5 DEF Abs!Failing
<1>7. Abs!BadRead(a) <=>
         ~a.we /\ (fault[First(a)] = "ecc" \/ fault[Abs!LastWord(a)] = "ecc")
  <2>1. \A w \in Abs!WordsOf(a) : fault[w] = "ecc" => w \in Abs!Reachable(a)
    BY <1>4
  <2> QED
    BY <1>3, <1>5, <2>1 DEF Abs!BadRead
<1> QED
  BY <1>3, <1>4, <1>5, <1>6, <1>7

(* A granted request writes its half of a store if the bus can reach it. *)
LEMMA HalfWritten ==
    ASSUME MemConstants, LsuTypeOK, Faulty, NEW a \in Accesses, NEW rvalid,
           NEW gnt \in BOOLEAN, NEW addr, NEW second \in BOOLEAN,
           Half(a, addr, second), gnt => ~data_pmp_err(addr),
           DataBus(rvalid, gnt, a, addr, second)
    PROVE  LET ws == IF gnt THEN Abs!Reachable(a) \cap {addr \div 4} ELSE {}
           IN  mem' = Abs!Written(mem, a, ws)
<1> DEFINE w  == addr \div 4
           ws == IF gnt THEN Abs!Reachable(a) \cap {w} ELSE {}
<1>1. mem \in [Addr -> 0..255]
  BY DEF LsuTypeOK
<1>2. mem' = Abs!Written(mem, a, ws)
  <2>1. CASE gnt /\ a.we /\ fault[w] # "bus"
    <3>1. w \in Abs!WordsOf(a)
      BY ReachableFacts DEF Half
    <3>2. ws = {w}
      BY <2>1, <3>1, ReachableFacts DEF data_pmp_err
    <3>3. mem' = [b \in Addr |-> IF b \div 4 = w /\ b % 4 \in data_be(a, second)
                                 THEN data_wdata(a)[b % 4] ELSE mem[b]]
      BY <2>1 DEF DataBus
    <3>4. Abs!Written(mem, a, ws) =
            [b \in Addr |-> IF a.we /\ Position(a, b) < a.size /\ b \div 4 \in ws
                            THEN a.wdata[Position(a, b)] ELSE mem[b]]
      BY DEF Abs!Written, Abs!Addr, Addr, Position
    <3>5. \A b \in Addr : b \div 4 = w =>
             /\ b % 4 \in data_be(a, second) <=> Position(a, b) < a.size
             /\ Position(a, b) < a.size => data_wdata(a)[b % 4] = a.wdata[Position(a, b)]
      BY EnabledBytes
    <3> HIDE DEF w, ws
    <3>6. \A b \in Addr :
             (IF b \div 4 = w /\ b % 4 \in data_be(a, second)
              THEN data_wdata(a)[b % 4] ELSE mem[b])
             = (IF a.we /\ Position(a, b) < a.size /\ b \div 4 \in ws
                THEN a.wdata[Position(a, b)] ELSE mem[b])
      BY <2>1, <3>2, <3>5
    <3> QED
      BY <3>3, <3>4, <3>6
  <2>2. CASE ~(gnt /\ a.we /\ fault[w] # "bus")
    <3>1. mem' = mem
      BY <2>2 DEF DataBus
    <3>2. ~a.we \/ ws = {}
      <4>1. w \in Abs!WordsOf(a)
        BY ReachableFacts DEF Half
      <4> QED
        BY <2>2, <4>1, ReachableFacts
    <3> HIDE DEF w, ws
    <3> QED
      BY <1>1, <3>1, <3>2, WrittenFacts
  <2> QED
    BY <2>1, <2>2
<1> QED
  BY <1>2

-----------------------------------------------------------------------------
Ok(w)     == fault[w] # "pmp" /\ fault[w] # "bus"
WordAt(w) == [k \in 0..3 |-> mem[4 * w + k]]
Kept(w)   == Ok(w) => Stored(mem, acc, w)

(* The bus's answer for word w of the access. *)
AnswerFor(r, w) ==
    /\ r.err = (fault[w] = "bus")
    /\ r.intg = (~acc.we /\ fault[w] = "ecc")
    /\ ~acc.we => r.data = WordAt(w)

CtrlKnown ==
    /\ rdata_offset_q = data_offset(acc) /\ data_size_q = acc.size
    /\ data_sign_ext_q = acc.sext /\ data_we_q = acc.we

(* What is kept of the first half once it is over. *)
FirstHalf ==
    IF split_misaligned_access(acc)
    THEN /\ lsu_err_q = ~Ok(First(acc))
         /\ Kept(First(acc))
         /\ ~acc.we /\ Ok(First(acc)) => rdata_q = WordAt(First(acc))
         /\ ~acc.we /\ fault[First(acc)] = "ecc" => alert
    ELSE lsu_err_q = FALSE

(* Each state of the machine with an access in it: what its registers hold. *)
KnownIdle ==
    /\ CtrlKnown /\ FirstHalf
    /\ pmp_err_q = (fault[Abs!LastWord(acc)] = "pmp")
    /\ ~pmp_err_q => AnswerFor(responses[1], Abs!LastWord(acc))
    /\ Kept(Abs!LastWord(acc))
    /\ ~Ok(First(acc)) => addr_last_q = acc.addr
    /\ Ok(First(acc)) /\ ~Ok(Abs!LastWord(acc)) => addr_last_q = 4 * Abs!LastWord(acc)

KnownWaitGnt ==
    /\ FirstHalf
    /\ handle_misaligned_q = split_misaligned_access(acc)
    /\ handle_misaligned_q => CtrlKnown /\ addr_last_q = acc.addr

KnownWaitRvalidMis ==
    /\ split_misaligned_access(acc) /\ handle_misaligned_q
    /\ CtrlKnown /\ addr_last_q = acc.addr
    /\ pmp_err_q = (fault[First(acc)] = "pmp")
    /\ Kept(First(acc))
    /\ ~pmp_err_q => AnswerFor(responses[1], First(acc))

KnownGntsDone ==
    /\ split_misaligned_access(acc)
    /\ CtrlKnown /\ addr_last_q = acc.addr
    /\ fault[First(acc)] # "pmp"
    /\ Kept(First(acc)) /\ Kept(Abs!LastWord(acc))
    /\ AnswerFor(responses[1], First(acc)) /\ AnswerFor(responses[2], Abs!LastWord(acc))

Known ==
    /\ Faulty /\ alert \in BOOLEAN
    /\ ls_fsm_cs = "IDLE" /\ acc # NoAccess => KnownIdle
    /\ ls_fsm_cs = "WAIT_GNT_MIS" => split_misaligned_access(acc)
    /\ ls_fsm_cs = "WAIT_GNT" => KnownWaitGnt
    /\ ls_fsm_cs = "WAIT_RVALID_MIS" => KnownWaitRvalidMis
    /\ ls_fsm_cs = "WAIT_RVALID_MIS_GNTS_DONE" => KnownGntsDone

(* A request for one half, seen from the access that is being made after it. *)
LEMMA HalfStep ==
    ASSUME MemConstants, LsuTypeOK, Faulty, NEW a \in Accesses, NEW rvalid,
           NEW gnt \in BOOLEAN, NEW addr, NEW second \in BOOLEAN,
           Half(a, addr, second), gnt => ~data_pmp_err(addr),
           DataBus(rvalid, gnt, a, addr, second), acc' = a, fault' = fault
    PROVE  /\ \E ws \in SUBSET Abs!Reachable(a) : mem' = Abs!Written(mem, a, ws)
           /\ \A w : Stored(mem, a, w) => Stored(mem', a, w)
           /\ ~a.we => mem' = mem
           /\ \A w : w = addr \div 4 /\ (gnt \/ data_pmp_err(addr)) => Kept(w)'
           /\ \A r, w : r = Response(a, addr) /\ w = addr \div 4 => AnswerFor(r, w)'
<1> DEFINE v  == addr \div 4
           ws == IF gnt THEN Abs!Reachable(a) \cap {v} ELSE {}
<1>1. mem' = Abs!Written(mem, a, ws) /\ ws \in SUBSET Abs!Reachable(a)
  BY HalfWritten
<1>2. mem \in [Addr -> 0..255]
  BY DEF LsuTypeOK
<1>3. /\ \A w \in ws : Stored(mem', a, w)
      /\ \A w : Stored(mem, a, w) => Stored(mem', a, w)
      /\ ~a.we => mem' = mem
  <2> HIDE DEF ws
  <2> QED
    BY <1>1, <1>2, WrittenFacts
<1>4. v \in Abs!WordsOf(a)
  BY ReachableFacts DEF Half
<1>5. gnt \/ data_pmp_err(addr) => Kept(v)'
  <2> SUFFICES ASSUME gnt \/ data_pmp_err(addr), Ok(v)' PROVE Stored(mem', a, v)
    BY DEF Kept
  <2>1. Ok(v)
    BY DEF Ok
  <2>2. gnt
    BY <2>1 DEF Ok, data_pmp_err
  <2>3. v \in ws
    BY <1>4, <2>1, <2>2, ReachableFacts DEF Ok
  <2> QED
    BY <1>3, <2>3
<1>6. \A r : r = Response(a, addr) => AnswerFor(r, v)'
  <2> SUFFICES ASSUME NEW r, r = Response(a, addr) PROVE AnswerFor(r, v)'
    OBVIOUS
  <2>1. r.err = (fault[v] = "bus") /\ r.intg = (~a.we /\ fault[v] = "ecc")
    BY DEF Response
  <2>2. r.data = WordAt(v)
    BY DEF Response, Word, WordAt
  <2>3. ~a.we => WordAt(v)' = WordAt(v)
    BY <1>3 DEF WordAt
  <2> QED
    BY <2>1, <2>2, <2>3 DEF AnswerFor
<1> QED
  BY <1>1, <1>3, <1>5, <1>6

(* What stays known of a half when the other one is requested. *)
LEMMA OtherHalf ==
    ASSUME acc' = acc, fault' = fault, NEW w,
           \A v : Stored(mem, acc, v) => Stored(mem', acc, v), ~acc.we => mem' = mem
    PROVE  /\ Ok(w)' = Ok(w)
           /\ Kept(w) => Kept(w)'
           /\ \A r : AnswerFor(r, w) => AnswerFor(r, w)'
           /\ ~acc.we => WordAt(w)' = WordAt(w)
<1>1. Ok(w)' = Ok(w)
  BY DEF Ok
<1>2. Kept(w) => Kept(w)'
  BY <1>1 DEF Kept
<1>3. ~acc.we => WordAt(w)' = WordAt(w)
  BY DEF WordAt
<1>4. \A r : AnswerFor(r, w) => AnswerFor(r, w)'
  BY <1>3 DEF AnswerFor
<1> QED
  BY <1>1, <1>2, <1>3, <1>4

(* The address of the second half is in the access's last word. *)
LEMMA SecondHalf ==
    ASSUME MemConstants, acc \in Accesses, split_misaligned_access(acc),
           addr_last_q = acc.addr
    PROVE  Half(acc, SecondAddr, TRUE) /\ SecondAddr \div 4 = Abs!LastWord(acc)
  BY LastFacts DEF SecondAddr, Half

(* One step of an access is one of MemAccess. *)
LEMMA Proceeds ==
    ASSUME MemConstants, acc \in Accesses, alert \in BOOLEAN, NEW x \in BOOLEAN,
           \E ws \in SUBSET Abs!Reachable(acc) : mem' = Abs!Written(mem, acc, ws),
           alert' = (alert \/ x), x => Abs!BadRead(acc),
           UNCHANGED <<fault, acc, last, accepted>>
    PROVE  Abs!Proceed
<1>1. acc # NoAccess
  BY Memory
<1>2. alert' \in {alert, alert \/ Abs!BadRead(acc)}
  BY DEF Abs!BadRead
<1> QED
  BY <1>1, <1>2 DEF Abs!Proceed, NoAccess

-----------------------------------------------------------------------------
KInv == IInv /\ Known

LEMMA InitKnown == ASSUME MemConstants, LsuInit PROVE Known /\ Abs!Init
<1>1. Known
  BY DEF LsuInit, Known, Faulty
<1>2. Abs!Init
  BY DEF LsuInit, Abs!Init, Faulty, Abs!Words, DataWords, NoAccess
<1> QED
  BY <1>1, <1>2

LEMMA RequestKnown ==
    ASSUME MemConstants, KInv, ls_fsm_cs = "IDLE",
           NEW a \in Accesses, NEW gnt \in Gnt(a.addr), NEW rvalid \in BOOLEAN,
           After(rvalid) = <<>>, Request(a, rvalid, gnt), fault' = fault
    PROVE  /\ Known'
           /\ \E ws \in SUBSET Abs!Reachable(a) : mem' = Abs!Written(mem, a, ws)
<1>1. /\ gnt \in BOOLEAN /\ (data_pmp_err(a.addr) => gnt = FALSE)
      /\ handle_misaligned_q = FALSE /\ acc' = a /\ a # NoAccess
      /\ LsuTypeOK /\ Faulty /\ alert \in BOOLEAN
  <2>1. gnt \in BOOLEAN /\ (data_pmp_err(a.addr) => gnt = FALSE)
    BY GntType
  <2>2. LsuTypeOK /\ Verdict /\ Faulty /\ alert \in BOOLEAN
    BY DEF KInv, IInv, Known
  <2>3. handle_misaligned_q = FALSE
    BY <2>2 DEF LsuTypeOK, Verdict
  <2>4. acc' = a /\ a # NoAccess
    BY Memory DEF Request
  <2> QED
    BY <2>1, <2>2, <2>3, <2>4
<1>2. /\ pmp_err_q' = data_pmp_err(a.addr) /\ lsu_err_q' = FALSE
      /\ DataBus(rvalid, gnt, a, a.addr, handle_misaligned_q)
      /\ a.addr \div 4 = First(a)
  BY DEF Request, First
<1>3. Half(a, a.addr, handle_misaligned_q)
  BY <1>1, <1>2 DEF Half
<1>4. /\ \E ws \in SUBSET Abs!Reachable(a) : mem' = Abs!Written(mem, a, ws)
      /\ (gnt \/ data_pmp_err(a.addr)) => Kept(First(a))'
      /\ \A r : r = Response(a, a.addr) => AnswerFor(r, First(a))'
  <2> DEFINE addr   == a.addr
             second == handle_misaligned_q
  <2>1. /\ Half(a, addr, second) /\ (gnt => ~data_pmp_err(addr))
        /\ DataBus(rvalid, gnt, a, addr, second) /\ second \in BOOLEAN
        /\ addr \div 4 = First(a)
    BY <1>1, <1>2, <1>3
  <2> HIDE DEF addr, second
  <2>2. /\ \E ws \in SUBSET Abs!Reachable(a) : mem' = Abs!Written(mem, a, ws)
        /\ \A w : w = addr \div 4 /\ (gnt \/ data_pmp_err(addr)) => Kept(w)'
        /\ \A r, w : r = Response(a, addr) /\ w = addr \div 4 => AnswerFor(r, w)'
    BY <1>1, <2>1, HalfStep
  <2> QED
    BY <2>1, <2>2 DEF addr
<1>5. responses' = IF gnt THEN <<Response(a, a.addr)>> ELSE <<>>
  BY <1>2 DEF DataBus
<1>6. Faulty' /\ alert' \in BOOLEAN
  BY <1>1, <1>2 DEF Faulty, DataBus
<1>7. split_misaligned_access(a) \in BOOLEAN
  BY Signals
<1>8. ASSUME gnt PROVE Known'
  <2>1. /\ CtrlUpdate(a) /\ handle_misaligned_q' = split_misaligned_access(a)
        /\ ls_fsm_cs' = IF split_misaligned_access(a) THEN "WAIT_RVALID_MIS" ELSE "IDLE"
        /\ addr_last_q' = a.addr /\ pmp_err_q' = FALSE
    BY <1>1, <1>2, <1>8 DEF Request, AddrUpdate
  <2>2. CtrlKnown'
    BY <1>1, <2>1 DEF CtrlUpdate, CtrlKnown
  <2>3. Kept(First(a))' /\ AnswerFor(responses[1], First(a))'
    <3>1. responses'[1] = Response(a, a.addr)
      BY <1>5, <1>8
    <3>2. \A r : r = Response(a, a.addr) => AnswerFor(r, First(a))'
      BY <1>4
    <3> QED
      BY <1>4, <1>8, <3>1, <3>2 DEF AnswerFor
  <2>4. (fault[First(a)] = "pmp")' = FALSE
    BY <1>1, <1>2, <1>8 DEF data_pmp_err
  <2>5. CASE split_misaligned_access(a)
    BY <1>1, <1>6, <2>1, <2>2, <2>3, <2>4, <2>5 DEF Known, KnownWaitRvalidMis
  <2>6. CASE ~split_misaligned_access(a)
    <3>1. Abs!LastWord(a) = First(a)
      BY <2>6, LastFacts
    <3>2. FirstHalf'
      BY <1>1, <1>2, <2>6 DEF FirstHalf
    <3>3. KnownIdle'
      BY <1>1, <2>1, <2>2, <2>3, <2>4, <3>1, <3>2 DEF KnownIdle
    <3> QED
      BY <1>6, <2>1, <2>6, <3>3 DEF Known
  <2> QED
    BY <2>5, <2>6
<1>9. ASSUME ~gnt PROVE Known'
  <2>1. /\ handle_misaligned_q' = FALSE
        /\ ls_fsm_cs' = IF split_misaligned_access(a) THEN "WAIT_GNT_MIS" ELSE "WAIT_GNT"
    BY <1>1, <1>9 DEF Request
  <2>2. CASE split_misaligned_access(a)
    BY <1>1, <1>6, <2>1, <2>2 DEF Known
  <2>3. CASE ~split_misaligned_access(a)
    <3>1. FirstHalf'
      BY <1>1, <1>2, <2>3 DEF FirstHalf
    <3>2. KnownWaitGnt'
      BY <1>1, <1>7, <2>1, <2>3, <3>1 DEF KnownWaitGnt
    <3> QED
      BY <1>6, <2>1, <2>3, <3>2 DEF Known
  <2> QED
    BY <2>2, <2>3
<1> QED
  BY <1>1, <1>4, <1>8, <1>9

LEMMA StartRefines == ASSUME MemConstants, KInv, Start PROVE Known' /\ Abs!Start
<1>1. responses = <<>>
  BY LenNone DEF Start, KInv, IInv, AnswersOwed, Owed
<1>2. PICK a \in Accesses : \E gnt \in Gnt(a.addr) : Request(a, FALSE, gnt)
  BY DEF Start
<1>3. PICK gnt \in Gnt(a.addr) : Request(a, FALSE, gnt)
  BY <1>2
<1>4. /\ Known'
      /\ \E ws \in SUBSET Abs!Reachable(a) : mem' = Abs!Written(mem, a, ws)
  <2> DEFINE rvalid == FALSE
  <2>1. After(rvalid) = <<>> /\ rvalid \in BOOLEAN /\ Request(a, rvalid, gnt)
    BY <1>1, <1>3 DEF After
  <2> HIDE DEF rvalid
  <2> QED
    BY <2>1, RequestKnown DEF Start
<1>5. /\ acc = NoAccess /\ acc' = a /\ accepted < MaxAccess /\ accepted' = accepted + 1
      /\ UNCHANGED <<fault, last>>
  BY <1>3 DEF Start, Request
<1>6. alert' = alert
  <2>1. alert' = (alert \/ FALSE) /\ alert \in BOOLEAN
    BY <1>3 DEF Request, DataBus, KInv, Known
  <2> QED
    BY <2>1
<1>7. Abs!Accept
  BY <1>4, <1>5 DEF Abs!Accept, Abs!Reachable, Abs!WordsOf
<1> QED
  BY <1>4, <1>5, <1>6, <1>7 DEF Abs!Start, NoAccess

(* The bytes kept of the first word and those of the last are the bytes loaded. *)
LEMMA LoadedBytes ==
    ASSUME MemConstants, LsuTypeOK, acc \in Accesses, CtrlKnown,
           split_misaligned_access(acc) => rdata_q = WordAt(First(acc))
    PROVE  data_rdata_ext(WordAt(Abs!LastWord(acc))) = Abs!Loaded(mem, acc)
<1> DEFINE o == data_offset(acc)
           s == acc.size
           w == First(acc)
           v == Abs!LastWord(acc)
           byte(k) == IF o + k < 4
                      THEN (IF s = 4 /\ o > 0 THEN rdata_q[o + k]
                            ELSE IF s = 2 /\ o = 3 THEN rdata_q[3]
                            ELSE WordAt(v)[o + k])
                      ELSE WordAt(v)[o + k - 4]
           fill == IF acc.sext /\ byte(s - 1) >= 128 THEN 255 ELSE 0
<1>1. o \in 0..3 /\ s \in {1, 2, 4}
  BY Signals, Memory
<1>2. data_rdata_ext(WordAt(v)) = [k \in 0..3 |-> IF k < s THEN byte(k) ELSE fill]
  BY DEF data_rdata_ext, CtrlKnown
<1>3. \A k \in 0..(s - 1) : byte(k) = mem[Abs!ByteAddr(acc, k)]
  <2> SUFFICES ASSUME NEW k \in 0..(s - 1) PROVE byte(k) = mem[Abs!ByteAddr(acc, k)]
    OBVIOUS
  <2>1. k \in 0..4 /\ k \in 0..3 /\ k < s
    BY <1>1
  <2>2. /\ o + k < 4 => Abs!ByteAddr(acc, k) = 4 * w + (o + k)
        /\ ~(o + k < 4) => Abs!ByteAddr(acc, k) = 4 * NextWord(w) + (o + k - 4)
    BY <2>1, ByteFacts DEF Abs!ByteAddr
  <2>3. split_misaligned_access(acc) <=> (s = 4 /\ o > 0) \/ (s = 2 /\ o = 3)
    BY <1>1 DEF split_misaligned_access
  <2>4. split_misaligned_access(acc) <=> o + s > 4
    BY SplitFacts
  <2>5. /\ split_misaligned_access(acc) => v = NextWord(w)
        /\ ~split_misaligned_access(acc) => v = w
    BY LastFacts
  <2>6. \A u : \A i \in 0..3 : WordAt(u)[i] = mem[4 * u + i]
    BY DEF WordAt
  <2> HIDE DEF o, s, w, v
  <2>7. CASE o + k < 4
    <3>1. o + k \in 0..3
      BY <1>1, <2>1, <2>7
    <3>2. CASE split_misaligned_access(acc)
      <4>1. byte(k) = rdata_q[o + k]
        BY <1>1, <2>1, <2>3, <2>7, <3>2
      <4>2. rdata_q[o + k] = mem[4 * w + (o + k)]
        BY <2>6, <3>1, <3>2 DEF w
      <4> QED
        BY <2>2, <2>7, <4>1, <4>2
    <3>3. CASE ~split_misaligned_access(acc)
      <4>1. byte(k) = WordAt(v)[o + k] /\ v = w
        <5>1. ~(s = 4 /\ o > 0) /\ ~(s = 2 /\ o = 3) /\ v = w
          BY <2>3, <2>5, <3>3
        <5> QED
          BY <2>7, <5>1
      <4> HIDE DEF byte
      <4> QED
        BY <2>2, <2>6, <2>7, <3>1, <4>1
    <3> QED
      BY <3>2, <3>3
  <2>8. CASE ~(o + k < 4)
    <3>1. o + k - 4 \in 0..3 /\ o + s > 4
      BY <1>1, <2>1, <2>8
    <3>2. byte(k) = WordAt(v)[o + k - 4] /\ v = NextWord(w)
      BY <2>4, <2>5, <2>8, <3>1
    <3> HIDE DEF byte
    <3> QED
      BY <2>2, <2>6, <2>8, <3>1, <3>2
  <2> QED
    BY <2>7, <2>8
<1>4. s - 1 \in 0..(s - 1) /\ \A k \in 0..3 : k < s => k \in 0..(s - 1)
  BY <1>1
<1>5. Abs!Loaded(mem, acc) =
        [k \in 0..3 |-> IF k < s THEN mem[Abs!ByteAddr(acc, k)]
                        ELSE IF acc.sext /\ mem[Abs!ByteAddr(acc, s - 1)] >= 128
                             THEN 255 ELSE 0]
  BY DEF Abs!Loaded
<1> HIDE DEF o, s, v, byte
<1>6. byte(s - 1) = mem[Abs!ByteAddr(acc, s - 1)]
  BY <1>3, <1>4
<1>7. \A k \in 0..3 : k < s => byte(k) = mem[Abs!ByteAddr(acc, k)]
  BY <1>3, <1>4
<1>8. data_rdata_ext(WordAt(v)) = Abs!Loaded(mem, acc)
  BY <1>2, <1>5, <1>6, <1>7
<1> QED
  BY <1>8 DEF v

(* The answer given is the outcome MemAccess allows. *)
LEMMA AnswerFacts ==
    ASSUME MemConstants, KInv, ls_fsm_cs = "IDLE", acc # NoAccess,
           NEW rvalid \in Rvalid, rvalid \/ pmp_err_q, Respond(rvalid)
    PROVE  /\ After(rvalid) = <<>>
           /\ last'.err = Abs!Failing(acc)
           /\ ~Abs!Failing(acc) => mem = Abs!Written(mem, acc, Abs!WordsOf(acc))
           /\ \E rf_we \in BOOLEAN :
                 /\ rf_we => ~acc.we /\ ~Abs!Failing(acc)
                 /\ ~rf_we => acc.we \/ Abs!Failing(acc) \/ Abs!BadRead(acc)
                 /\ last' = Abs!Outcome(rf_we)
           /\ (alert \/ (rvalid /\ Head(responses).intg)) = (alert \/ Abs!BadRead(acc))
<1> DEFINE w == First(acc)
           v == Abs!LastWord(acc)
<1>1. /\ acc \in Accesses /\ LsuTypeOK /\ Faulty /\ alert \in BOOLEAN /\ KnownIdle
      /\ CtrlKnown /\ FirstHalf /\ responses \in Seq(Answers)
      /\ Len(responses) = IF pmp_err_q THEN 0 ELSE 1
      /\ rvalid \in BOOLEAN /\ (rvalid => responses # <<>>)
      /\ acc.we \in BOOLEAN /\ pmp_err_q \in BOOLEAN /\ lsu_err_q \in BOOLEAN
  BY RvalidType, Memory DEF KInv, IInv, Known, KnownIdle, LsuTypeOK, AnswersOwed, Owed
<1>2. rvalid = ~pmp_err_q /\ After(rvalid) = <<>>
  <2>1. CASE pmp_err_q
    <3>1. responses = <<>>
      BY <1>1, <2>1, LenNone
    <3> QED
      BY <1>1, <2>1, <3>1 DEF After
  <2>2. CASE ~pmp_err_q
    BY <1>1, <2>2, LenOne DEF After
  <2> QED
    BY <1>1, <2>1, <2>2
<1> DEFINE r == Head(responses)
<1>3. rvalid => /\ r.err = (fault[v] = "bus")
                /\ r.intg = (~acc.we /\ fault[v] = "ecc")
                /\ ~acc.we => r.data = WordAt(v)
  <2> SUFFICES ASSUME rvalid
               PROVE  /\ r.err = (fault[v] = "bus")
                      /\ r.intg = (~acc.we /\ fault[v] = "ecc")
                      /\ ~acc.we => r.data = WordAt(v)
    OBVIOUS
  <2>1. r = responses[1]
    BY <1>1, <1>2, LenOne
  <2> QED
    BY <1>1, <1>2, <2>1 DEF KnownIdle, AnswerFor
<1>4. /\ ~split_misaligned_access(acc) => w = v
      /\ w \in Abs!WordsOf(acc) /\ v \in Abs!WordsOf(acc)
      /\ Abs!WordsOf(acc) = {w, v}
      /\ \A u \in Abs!WordsOf(acc) : u \in Abs!Reachable(acc) <=> Ok(u)
      /\ Abs!Failing(acc) <=> ~Ok(w) \/ ~Ok(v)
      /\ Abs!BadRead(acc) <=> ~acc.we /\ (fault[w] = "ecc" \/ fault[v] = "ecc")
  BY <1>1, ReachableFacts, LastFacts DEF Ok
<1>5. pmp_err_q = (fault[v] = "pmp")
  BY <1>1 DEF KnownIdle
<1>6. lsu_err_q = (split_misaligned_access(acc) /\ ~Ok(w))
  BY <1>1 DEF FirstHalf, Ok
<1> DEFINE err   == lsu_err_q \/ (rvalid /\ r.err) \/ pmp_err_q
           rf_we == rvalid /\ ~err /\ ~data_we_q /\ ~r.intg
<1>7. err = Abs!Failing(acc)
  <2>1. (rvalid /\ r.err) \/ pmp_err_q <=> ~Ok(v)
    BY <1>1, <1>2, <1>3, <1>5 DEF Ok
  <2>2. lsu_err_q \/ ~Ok(v) <=> ~Ok(w) \/ ~Ok(v)
    BY <1>4, <1>6
  <2>3. Abs!Failing(acc) \in BOOLEAN /\ err \in BOOLEAN
    BY <1>1, <1>2, <1>3 DEF Abs!Failing
  <2> QED
    BY <1>4, <2>1, <2>2, <2>3
<1>8. ~Abs!Failing(acc) => mem = Abs!Written(mem, acc, Abs!WordsOf(acc))
  <2> SUFFICES ASSUME ~Abs!Failing(acc)
               PROVE  mem = Abs!Written(mem, acc, Abs!WordsOf(acc))
    OBVIOUS
  <2>1. Stored(mem, acc, v)
    BY <1>1, <1>4 DEF KnownIdle, Kept
  <2>2. Stored(mem, acc, w)
    BY <1>1, <1>4, <2>1 DEF FirstHalf, Kept
  <2>3. \A u \in Abs!WordsOf(acc) : Stored(mem, acc, u)
    BY <1>4, <2>1, <2>2
  <2> QED
    BY <1>1, <2>3, StoredAll DEF LsuTypeOK
<1>9. (alert \/ (rvalid /\ r.intg)) = (alert \/ Abs!BadRead(acc))
  <2>1. ~acc.we /\ fault[w] = "ecc" => alert \/ fault[v] = "ecc"
    BY <1>1, <1>4 DEF FirstHalf
  <2>2. fault[v] = "ecc" => rvalid
    BY <1>2, <1>5
  <2>3. Abs!BadRead(acc) \in BOOLEAN
    BY DEF Abs!BadRead
  <2> QED
    BY <1>1, <1>3, <1>4, <2>1, <2>2, <2>3
<1>10. data_we_q = acc.we
  BY <1>1 DEF CtrlKnown
<1>11. rf_we \in BOOLEAN
  BY <1>1, <1>3, <1>10
<1>12. rf_we => ~acc.we /\ ~Abs!Failing(acc)
  BY <1>7, <1>10
<1>13. ~rf_we => acc.we \/ Abs!Failing(acc) \/ Abs!BadRead(acc)
  <2>1. ~Abs!Failing(acc) => rvalid
    BY <1>2, <1>4, <1>5 DEF Ok
  <2> QED
    BY <1>1, <1>3, <1>4, <1>7, <1>10, <2>1
<1>14. rf_we => data_rdata_ext(r.data) = Abs!Loaded(mem, acc)
  <2> SUFFICES ASSUME rf_we PROVE data_rdata_ext(r.data) = Abs!Loaded(mem, acc)
    OBVIOUS
  <2>1. r.data = WordAt(v)
    BY <1>3, <1>12
  <2>2. split_misaligned_access(acc) => rdata_q = WordAt(First(acc))
    BY <1>1, <1>4, <1>12 DEF FirstHalf
  <2> QED
    BY <1>1, <2>1, <2>2, LoadedBytes
<1>15. Abs!Failing(acc) => addr_last_q = Abs!FaultAddr(acc)
  <2>1. Abs!FirstWord(acc) = w
    BY <1>1, FirstFacts
  <2> QED
    BY <1>1, <1>4, <2>1 DEF KnownIdle, Abs!FaultAddr
<1>16. last' = [acc       |-> acc,
                err       |-> err,
                rf_we     |-> rf_we,
                rdata     |-> IF rf_we THEN data_rdata_ext(r.data) ELSE Abs!NoAnswer.rdata,
                addr_last |-> IF err THEN addr_last_q ELSE 0]
  BY DEF Respond
<1> HIDE DEF err, rf_we, r
<1>17. last' = Abs!Outcome(rf_we)
  BY <1>7, <1>14, <1>15, <1>16 DEF Abs!Outcome
<1>18. last'.err = Abs!Failing(acc)
  BY <1>7, <1>16
<1> QED
  BY <1>2, <1>8, <1>9, <1>11, <1>12, <1>13, <1>17, <1>18 DEF r

LEMMA AnswerRefines == ASSUME MemConstants, KInv, Answer PROVE Known' /\ Abs!Answer
<1>1. PICK rvalid \in Rvalid : /\ rvalid \/ pmp_err_q
                               /\ Respond(rvalid) /\ NoRequest(rvalid)
  BY DEF Answer
<1>2. /\ ls_fsm_cs = "IDLE" /\ acc # NoAccess /\ acc' = NoAccess
      /\ UNCHANGED <<fault, ls_fsm_cs, accepted, mem>>
      /\ alert' = (alert \/ (rvalid /\ Head(responses).intg))
  BY <1>1 DEF Answer, NoRequest
<1>3. /\ ~Abs!Failing(acc) => mem = Abs!Written(mem, acc, Abs!WordsOf(acc))
      /\ \E rf_we \in BOOLEAN :
            /\ rf_we => ~acc.we /\ ~Abs!Failing(acc)
            /\ ~rf_we => acc.we \/ Abs!Failing(acc) \/ Abs!BadRead(acc)
            /\ last' = Abs!Outcome(rf_we)
      /\ (alert \/ (rvalid /\ Head(responses).intg)) = (alert \/ Abs!BadRead(acc))
  BY <1>1, <1>2, AnswerFacts
<1>4. Known'
  <2>1. Faulty' /\ alert' \in BOOLEAN
    BY <1>2 DEF KInv, Known, Faulty
  <2> QED
    BY <1>2, <2>1 DEF Known
<1>5. Abs!Answer
  BY <1>2, <1>3 DEF Abs!Answer, NoAccess
<1> QED
  BY <1>4, <1>5

LEMMA AnswerAndStartRefines ==
    ASSUME MemConstants, KInv, AnswerAndStart PROVE Known' /\ Abs!Answer
<1> DEFINE rvalid == TRUE
<1>1. /\ ls_fsm_cs = "IDLE" /\ acc # NoAccess /\ accepted < MaxAccess
      /\ rvalid \in Rvalid /\ Respond(rvalid) /\ ~last'.err /\ fault' = fault
      /\ rvalid \in BOOLEAN
  BY DEF AnswerAndStart
<1>2. PICK a \in Accesses : \E gnt \in Gnt(a.addr) : Request(a, rvalid, gnt)
  BY DEF AnswerAndStart
<1>3. PICK gnt \in Gnt(a.addr) : Request(a, rvalid, gnt)
  BY <1>2
<1>4. rvalid = TRUE
  OBVIOUS
<1> HIDE DEF rvalid
<1>5. /\ After(rvalid) = <<>>
      /\ last'.err = Abs!Failing(acc)
      /\ ~Abs!Failing(acc) => mem = Abs!Written(mem, acc, Abs!WordsOf(acc))
      /\ \E rf_we \in BOOLEAN :
            /\ rf_we => ~acc.we /\ ~Abs!Failing(acc)
            /\ ~rf_we => acc.we \/ Abs!Failing(acc) \/ Abs!BadRead(acc)
            /\ last' = Abs!Outcome(rf_we)
      /\ (alert \/ (rvalid /\ Head(responses).intg)) = (alert \/ Abs!BadRead(acc))
  <2>1. rvalid \/ pmp_err_q
    BY <1>4
  <2> QED
    BY <1>1, <2>1, AnswerFacts
<1>6. /\ Known'
      /\ \E ws \in SUBSET Abs!Reachable(a) : mem' = Abs!Written(mem, a, ws)
  BY <1>1, <1>3, <1>5, RequestKnown
<1>7. /\ acc' = a /\ accepted' = accepted + 1
      /\ alert' = (alert \/ (rvalid /\ Head(responses).intg))
  BY <1>3 DEF Request, DataBus
<1>8. Abs!Accept
  BY <1>1, <1>6, <1>7 DEF Abs!Accept, Abs!Reachable, Abs!WordsOf
<1>9. Abs!Answer
  BY <1>1, <1>5, <1>7, <1>8 DEF Abs!Answer, NoAccess
<1> QED
  BY <1>6, <1>9

(* A request of the access being made: what it leaves known of both halves. *)
LEMMA HalfOfAccess ==
    ASSUME MemConstants, LsuTypeOK, Faulty, acc \in Accesses, NEW rvalid,
           NEW gnt \in BOOLEAN, NEW addr, NEW second \in BOOLEAN,
           Half(acc, addr, second), gnt => ~data_pmp_err(addr),
           DataBus(rvalid, gnt, acc, addr, second), acc' = acc, fault' = fault
    PROVE  /\ \E ws \in SUBSET Abs!Reachable(acc) : mem' = Abs!Written(mem, acc, ws)
           /\ \A w : w = addr \div 4 =>
                 /\ gnt \/ data_pmp_err(addr) => Kept(w)'
                 /\ \A r : r = Response(acc, addr) => AnswerFor(r, w)'
           /\ \A w : /\ Ok(w)' = Ok(w)
                     /\ Kept(w) => Kept(w)'
                     /\ \A r : AnswerFor(r, w) => AnswerFor(r, w)'
                     /\ ~acc.we => WordAt(w)' = WordAt(w)
<1> DEFINE a == acc
<1>1. /\ a \in Accesses /\ Half(a, addr, second) /\ DataBus(rvalid, gnt, a, addr, second)
      /\ acc' = a /\ fault' = fault /\ (gnt => ~data_pmp_err(addr))
  OBVIOUS
<1> HIDE DEF a
<1>2. /\ \E ws \in SUBSET Abs!Reachable(a) : mem' = Abs!Written(mem, a, ws)
      /\ \A w : Stored(mem, a, w) => Stored(mem', a, w)
      /\ ~a.we => mem' = mem
      /\ \A w : w = addr \div 4 /\ (gnt \/ data_pmp_err(addr)) => Kept(w)'
      /\ \A r, w : r = Response(a, addr) /\ w = addr \div 4 => AnswerFor(r, w)'
  BY <1>1, HalfStep
<1>3. /\ \A w : Stored(mem, acc, w) => Stored(mem', acc, w)
      /\ ~acc.we => mem' = mem
  BY <1>2 DEF a
<1>4. \A w : /\ Ok(w)' = Ok(w)
             /\ Kept(w) => Kept(w)'
             /\ \A r : AnswerFor(r, w) => AnswerFor(r, w)'
             /\ ~acc.we => WordAt(w)' = WordAt(w)
  BY <1>3, OtherHalf
<1> QED
  BY <1>2, <1>4 DEF a

(* The same for the second half, with the words of the access. *)
LEMMA SecondOfAccess ==
    ASSUME MemConstants, LsuTypeOK, Faulty, acc \in Accesses,
           split_misaligned_access(acc), addr_last_q = acc.addr,
           handle_misaligned_q = TRUE, NEW rvalid, NEW gnt \in BOOLEAN,
           gnt => ~data_pmp_err(SecondAddr),
           DataBus(rvalid, gnt, acc, SecondAddr, handle_misaligned_q),
           acc' = acc, fault' = fault
    PROVE  /\ \E ws \in SUBSET Abs!Reachable(acc) : mem' = Abs!Written(mem, acc, ws)
           /\ gnt \/ data_pmp_err(SecondAddr) => Kept(Abs!LastWord(acc))'
           /\ \A r : r = Response(acc, SecondAddr) => AnswerFor(r, Abs!LastWord(acc))'
           /\ Kept(First(acc)) => Kept(First(acc))'
           /\ \A r : AnswerFor(r, First(acc)) => AnswerFor(r, First(acc))'
           /\ ~acc.we => WordAt(First(acc))' = WordAt(First(acc))
           /\ Ok(First(acc))' = Ok(First(acc))
           /\ data_pmp_err(SecondAddr) = (fault[Abs!LastWord(acc)] = "pmp")
<1> DEFINE addr   == SecondAddr
           second == handle_misaligned_q
<1>1. /\ Half(acc, addr, second) /\ addr \div 4 = Abs!LastWord(acc)
      /\ second \in BOOLEAN /\ DataBus(rvalid, gnt, acc, addr, second)
      /\ (gnt => ~data_pmp_err(addr))
  BY SecondHalf
<1>2. data_pmp_err(addr) = (fault[Abs!LastWord(acc)] = "pmp")
  BY <1>1 DEF data_pmp_err
<1>3. First(acc)' = First(acc) /\ Abs!LastWord(acc)' = Abs!LastWord(acc)
  BY DEF First
<1> HIDE DEF addr, second
<1>4. /\ \E ws \in SUBSET Abs!Reachable(acc) : mem' = Abs!Written(mem, acc, ws)
      /\ \A w : w = addr \div 4 =>
            /\ gnt \/ data_pmp_err(addr) => Kept(w)'
            /\ \A r : r = Response(acc, addr) => AnswerFor(r, w)'
      /\ \A w : /\ Ok(w)' = Ok(w)
                /\ Kept(w) => Kept(w)'
                /\ \A r : AnswerFor(r, w) => AnswerFor(r, w)'
                /\ ~acc.we => WordAt(w)' = WordAt(w)
  BY <1>1, HalfOfAccess
<1>5. /\ gnt \/ data_pmp_err(addr) => Kept(Abs!LastWord(acc))'
      /\ \A r : r = Response(acc, addr) => AnswerFor(r, Abs!LastWord(acc))'
  BY <1>1, <1>3, <1>4
<1>6. /\ Kept(First(acc)) => Kept(First(acc))'
      /\ \A r : AnswerFor(r, First(acc)) => AnswerFor(r, First(acc))'
      /\ ~acc.we => WordAt(First(acc))' = WordAt(First(acc))
      /\ Ok(First(acc))' = Ok(First(acc))
  BY <1>3, <1>4
<1> QED
  BY <1>2, <1>4, <1>5, <1>6 DEF addr

LEMMA WaitGntMisRefines ==
    ASSUME MemConstants, KInv, WaitGntMis PROVE Known' /\ Abs!Proceed
<1>1. PICK gnt \in Gnt(acc.addr) :
         (gnt \/ pmp_err_q) /\ DataBus(FALSE, gnt, acc, acc.addr, handle_misaligned_q)
  BY DEF WaitGntMis
<1>2. /\ gnt \in BOOLEAN /\ (data_pmp_err(acc.addr) => gnt = FALSE)
      /\ acc \in Accesses /\ acc # NoAccess /\ split_misaligned_access(acc)
      /\ handle_misaligned_q = FALSE /\ pmp_err_q = data_pmp_err(acc.addr)
      /\ LsuTypeOK /\ Faulty /\ alert \in BOOLEAN
      /\ responses = <<>> /\ acc.addr \div 4 = First(acc)
  BY GntType, Memory, LenNone
  DEF WaitGntMis, KInv, IInv, Verdict, AnswersOwed, Owed, Known, First
<1>3. /\ \E ws \in SUBSET Abs!Reachable(acc) : mem' = Abs!Written(mem, acc, ws)
      /\ Kept(First(acc))'
      /\ \A r : r = Response(acc, acc.addr) => AnswerFor(r, First(acc))'
  <2> DEFINE addr   == acc.addr
             second == handle_misaligned_q
             rvalid == FALSE
  <2>1. /\ Half(acc, addr, second) /\ (gnt => ~data_pmp_err(addr))
        /\ DataBus(rvalid, gnt, acc, addr, second) /\ second \in BOOLEAN
        /\ addr \div 4 = First(acc) /\ (gnt \/ data_pmp_err(addr))
        /\ acc' = acc /\ fault' = fault
    BY <1>1, <1>2 DEF Half, WaitGntMis
  <2>2. First(acc)' = First(acc)
    BY <2>1 DEF First
  <2> HIDE DEF addr, second, rvalid
  <2>3. /\ \E ws \in SUBSET Abs!Reachable(acc) : mem' = Abs!Written(mem, acc, ws)
        /\ \A w : w = addr \div 4 =>
              /\ gnt \/ data_pmp_err(addr) => Kept(w)'
              /\ \A r : r = Response(acc, addr) => AnswerFor(r, w)'
    BY <1>2, <2>1, HalfOfAccess
  <2> QED
    BY <2>1, <2>2, <2>3 DEF addr
<1>4. responses' = IF gnt THEN <<Response(acc, acc.addr)>> ELSE <<>>
  BY <1>1, <1>2 DEF DataBus, After
<1>5. /\ UNCHANGED <<fault, acc, pmp_err_q, last, accepted>>
      /\ ls_fsm_cs' = "WAIT_RVALID_MIS" /\ handle_misaligned_q' = TRUE
      /\ addr_last_q' = acc.addr /\ CtrlUpdate(acc)
      /\ alert' = (alert \/ FALSE)
  BY <1>1 DEF WaitGntMis, AddrUpdate, DataBus
<1>6. ~pmp_err_q => AnswerFor(responses[1], First(acc))'
  <2>1. ~pmp_err_q => responses'[1] = Response(acc, acc.addr)
    BY <1>1, <1>4
  <2> QED
    BY <1>3, <2>1 DEF AnswerFor
<1>7. Known'
  <2>1. pmp_err_q' = (fault[First(acc)] = "pmp")'
    BY <1>2, <1>5 DEF data_pmp_err
  <2>2. KnownWaitRvalidMis'
    BY <1>2, <1>3, <1>5, <1>6, <2>1
    DEF KnownWaitRvalidMis, CtrlKnown, CtrlUpdate
  <2>3. Faulty' /\ alert' \in BOOLEAN
    BY <1>2, <1>5 DEF Faulty
  <2> QED
    BY <1>5, <2>2, <2>3 DEF Known
<1>8. Abs!Proceed
  <2> DEFINE x == FALSE
  <2>1. x \in BOOLEAN /\ alert' = (alert \/ x) /\ (x => Abs!BadRead(acc))
    BY <1>5
  <2> HIDE DEF x
  <2> QED
    BY <1>2, <1>3, <1>5, <2>1, Proceeds
<1> QED
  BY <1>7, <1>8

LEMMA WaitRvalidMisRefines ==
    ASSUME MemConstants, KInv, WaitRvalidMis PROVE Known' /\ Abs!Proceed
<1>1. PICK rvalid \in Rvalid, gnt \in Gnt(SecondAddr) :
         LET err == pmp_err_q \/ Head(responses).err
         IN  /\ rvalid \/ pmp_err_q
             /\ DataBus(rvalid, gnt, acc, SecondAddr, handle_misaligned_q)
             /\ pmp_err_q' = data_pmp_err(SecondAddr)
             /\ lsu_err_q' = err
             /\ IF rvalid THEN RdataUpdate ELSE UNCHANGED rdata_q
             /\ ls_fsm_cs' = IF gnt THEN "IDLE" ELSE "WAIT_GNT"
             /\ AddrUpdate(gnt /\ ~err, 4 * (SecondAddr \div 4))
             /\ handle_misaligned_q' = ~gnt
  BY DEF WaitRvalidMis
<1>2. /\ gnt \in BOOLEAN /\ (data_pmp_err(SecondAddr) => gnt = FALSE)
      /\ rvalid \in BOOLEAN /\ (rvalid => responses # <<>>)
      /\ acc \in Accesses /\ acc # NoAccess /\ acc.we \in BOOLEAN
      /\ LsuTypeOK /\ Faulty /\ alert \in BOOLEAN /\ pmp_err_q \in BOOLEAN
      /\ KnownWaitRvalidMis /\ split_misaligned_access(acc)
      /\ addr_last_q = acc.addr /\ handle_misaligned_q = TRUE
      /\ responses \in Seq(Answers) /\ Len(responses) = IF pmp_err_q THEN 0 ELSE 1
  BY GntType, RvalidType, Memory
  DEF WaitRvalidMis, KInv, IInv, Verdict, AnswersOwed, Owed, Known, LsuTypeOK,
      KnownWaitRvalidMis
<1>3. /\ UNCHANGED <<fault, acc, ctrl, last, accepted>>
      /\ First(acc)' = First(acc) /\ Abs!LastWord(acc)' = Abs!LastWord(acc)
      /\ SecondAddr \div 4 = Abs!LastWord(acc)
  BY <1>2, SecondHalf DEF WaitRvalidMis, First
<1>4. /\ \E ws \in SUBSET Abs!Reachable(acc) : mem' = Abs!Written(mem, acc, ws)
      /\ gnt \/ data_pmp_err(SecondAddr) => Kept(Abs!LastWord(acc))'
      /\ \A r : r = Response(acc, SecondAddr) => AnswerFor(r, Abs!LastWord(acc))'
      /\ Kept(First(acc)) => Kept(First(acc))'
      /\ ~acc.we => WordAt(First(acc))' = WordAt(First(acc))
      /\ Ok(First(acc))' = Ok(First(acc))
      /\ data_pmp_err(SecondAddr) = (fault[Abs!LastWord(acc)] = "pmp")
  BY <1>1, <1>2, <1>3, SecondOfAccess
(* The first half is over: its answer is taken, or it was denied. *)
<1>5. rvalid = ~pmp_err_q /\ After(rvalid) = <<>>
  <2>1. CASE pmp_err_q
    <3>1. responses = <<>>
      BY <1>2, <2>1, LenNone
    <3> QED
      BY <1>2, <2>1, <3>1 DEF After
  <2>2. CASE ~pmp_err_q
    BY <1>1, <1>2, <2>2, LenOne DEF After
  <2> QED
    BY <1>2, <2>1, <2>2
<1>6. rvalid => AnswerFor(Head(responses), First(acc))
  BY <1>2, <1>5, LenOne DEF KnownWaitRvalidMis
<1>7. lsu_err_q' = ~Ok(First(acc))
  <2>1. CASE pmp_err_q
    BY <1>1, <1>2, <2>1 DEF KnownWaitRvalidMis, Ok
  <2>2. CASE ~pmp_err_q
    BY <1>1, <1>2, <1>5, <1>6, <2>2 DEF KnownWaitRvalidMis, Ok, AnswerFor
  <2> QED
    BY <1>2, <2>1, <2>2
<1>8. Kept(First(acc))'
  BY <1>2, <1>4 DEF KnownWaitRvalidMis
<1>9. ~acc.we /\ Ok(First(acc)) => rdata_q' = WordAt(First(acc))
  <2> SUFFICES ASSUME ~acc.we, Ok(First(acc)) PROVE rdata_q' = WordAt(First(acc))
    OBVIOUS
  <2>1. rvalid
    BY <1>2, <1>5 DEF Ok, KnownWaitRvalidMis
  <2>2. rdata_q' = Head(responses).data
    BY <1>1, <1>2, <2>1 DEF RdataUpdate, KnownWaitRvalidMis, CtrlKnown
  <2> QED
    BY <1>6, <2>1, <2>2 DEF AnswerFor
<1>10. /\ alert' = (alert \/ (rvalid /\ Head(responses).intg))
       /\ ~acc.we /\ fault[First(acc)] = "ecc" => alert'
  <2>1. alert' = (alert \/ (rvalid /\ Head(responses).intg))
    BY <1>1 DEF DataBus
  <2>2. fault[First(acc)] = "ecc" => rvalid
    BY <1>2, <1>5 DEF KnownWaitRvalidMis
  <2> QED
    BY <1>6, <2>1, <2>2 DEF AnswerFor
<1>11. FirstHalf'
  <2>1. /\ split_misaligned_access(acc)' /\ First(acc)' = First(acc)
    BY <1>2, <1>3
  <2>2. lsu_err_q' = ~Ok(First(acc))'
    BY <1>4, <1>7
  <2>3. (~acc.we /\ Ok(First(acc)) => rdata_q = WordAt(First(acc)))'
    BY <1>3, <1>4, <1>9
  <2>4. (~acc.we /\ fault[First(acc)] = "ecc" => alert)'
    BY <1>3, <1>10
  <2> QED
    BY <1>8, <2>1, <2>2, <2>3, <2>4 DEF FirstHalf
<1>12. Faulty' /\ alert' \in BOOLEAN
  BY <1>2, <1>3, <1>10 DEF Faulty
<1>13. CtrlKnown'
  BY <1>2, <1>3 DEF KnownWaitRvalidMis, CtrlKnown, ctrl
<1>14. responses' = IF gnt THEN <<Response(acc, SecondAddr)>> ELSE <<>>
  <2>1. responses' = IF gnt THEN Append(After(rvalid), Response(acc, SecondAddr))
                     ELSE After(rvalid)
    BY <1>1 DEF DataBus
  <2> QED
    BY <1>5, <2>1, AppendToNone
<1>15. ASSUME gnt PROVE Known'
  <2>1. AnswerFor(responses[1], Abs!LastWord(acc))'
    <3>1. responses'[1] = Response(acc, SecondAddr)
      BY <1>14, <1>15
    <3>2. \A r : r = responses'[1] => AnswerFor(r, Abs!LastWord(acc))'
      BY <1>4, <3>1
    <3> QED
      BY <3>2 DEF AnswerFor
  <2>2. (pmp_err_q = (fault[Abs!LastWord(acc)] = "pmp"))'
    BY <1>1, <1>3, <1>4
  <2>3. /\ (~Ok(First(acc)) => addr_last_q = acc.addr)'
        /\ (Ok(First(acc)) => addr_last_q = 4 * Abs!LastWord(acc))'
    <3> DEFINE err == pmp_err_q \/ Head(responses).err
    <3>1. /\ AddrUpdate(gnt /\ ~err, 4 * (SecondAddr \div 4))
          /\ err = ~Ok(First(acc))
      BY <1>1, <1>7
    <3> HIDE DEF err
    <3>2. /\ ~Ok(First(acc)) => addr_last_q' = acc.addr
          /\ Ok(First(acc)) => addr_last_q' = 4 * Abs!LastWord(acc)
      BY <1>2, <1>3, <1>15, <3>1 DEF AddrUpdate
    <3> QED
      BY <1>3, <1>4, <3>2
  <2>4. KnownIdle'
    BY <1>4, <1>11, <1>13, <1>15, <2>1, <2>2, <2>3 DEF KnownIdle
  <2>5. ls_fsm_cs' = "IDLE"
    BY <1>1, <1>15
  <2> QED
    BY <1>12, <2>4, <2>5 DEF Known
<1>16. ASSUME ~gnt PROVE Known'
  <2>1. ls_fsm_cs' = "WAIT_GNT" /\ handle_misaligned_q' = TRUE /\ addr_last_q' = addr_last_q
    BY <1>1, <1>16 DEF AddrUpdate
  <2>2. split_misaligned_access(acc)' = TRUE
    BY <1>2, <1>3, Signals
  <2>3. KnownWaitGnt'
    BY <1>2, <1>3, <1>11, <1>13, <2>1, <2>2 DEF KnownWaitGnt
  <2> QED
    BY <1>12, <2>1, <2>3 DEF Known
<1>17. Abs!Proceed
  <2> DEFINE x == rvalid /\ Head(responses).intg
  <2>1. x \in BOOLEAN /\ (x => Abs!BadRead(acc))
    BY <1>2, <1>6, ReachableFacts DEF AnswerFor
  <2>2. alert' = (alert \/ x)
    BY <1>10
  <2> HIDE DEF x
  <2> QED
    BY <1>2, <1>3, <1>4, <2>1, <2>2, Proceeds
<1> QED
  BY <1>2, <1>15, <1>16, <1>17

LEMMA SecondGrantedRefines ==
    ASSUME MemConstants, KInv, SecondGranted PROVE Known' /\ Abs!Proceed
<1> DEFINE rvalid == FALSE
           gnt    == TRUE
<1>1. /\ gnt \in BOOLEAN /\ ~data_pmp_err(SecondAddr) /\ ~pmp_err_q
      /\ acc \in Accesses /\ acc # NoAccess /\ acc.we \in BOOLEAN
      /\ LsuTypeOK /\ Faulty /\ alert \in BOOLEAN
      /\ KnownWaitRvalidMis /\ split_misaligned_access(acc)
      /\ addr_last_q = acc.addr /\ handle_misaligned_q = TRUE
      /\ responses \in Seq(Answers) /\ Len(responses) = 1
      /\ DataBus(rvalid, gnt, acc, SecondAddr, handle_misaligned_q)
  BY Memory
  DEF SecondGranted, Gnt, KInv, IInv, Verdict, AnswersOwed, Owed, Known, LsuTypeOK,
      KnownWaitRvalidMis
<1>2. /\ UNCHANGED <<fault, acc, ctrl, addr_last_q, last, accepted>>
      /\ ls_fsm_cs' = "WAIT_RVALID_MIS_GNTS_DONE"
      /\ First(acc)' = First(acc) /\ Abs!LastWord(acc)' = Abs!LastWord(acc)
      /\ alert' = (alert \/ FALSE)
      /\ responses' = Append(responses, Response(acc, SecondAddr))
  BY DEF SecondGranted, First, DataBus, After
<1>3. gnt = TRUE
  OBVIOUS
<1> HIDE DEF gnt, rvalid
<1>4. /\ \E ws \in SUBSET Abs!Reachable(acc) : mem' = Abs!Written(mem, acc, ws)
      /\ gnt \/ data_pmp_err(SecondAddr) => Kept(Abs!LastWord(acc))'
      /\ \A r : r = Response(acc, SecondAddr) => AnswerFor(r, Abs!LastWord(acc))'
      /\ Kept(First(acc)) => Kept(First(acc))'
      /\ \A r : AnswerFor(r, First(acc)) => AnswerFor(r, First(acc))'
  BY <1>1, <1>2, SecondOfAccess
<1>5. responses'[1] = responses[1] /\ responses'[2] = Response(acc, SecondAddr)
  BY <1>1, <1>2, AppendToOne, ResponseType, SecondAddrType DEF LsuTypeOK
<1>6. AnswerFor(responses[1], First(acc))'
  <2>1. \A r : r = responses'[1] => AnswerFor(r, First(acc))'
    BY <1>1, <1>4, <1>5 DEF KnownWaitRvalidMis
  <2> QED
    BY <2>1 DEF AnswerFor
<1>7. AnswerFor(responses[2], Abs!LastWord(acc))'
  <2>1. \A r : r = responses'[2] => AnswerFor(r, Abs!LastWord(acc))'
    BY <1>4, <1>5
  <2> QED
    BY <2>1 DEF AnswerFor
<1>8. KnownGntsDone'
  <2>1. CtrlKnown'
    BY <1>1, <1>2 DEF KnownWaitRvalidMis, CtrlKnown, ctrl
  <2>2. (fault[First(acc)] # "pmp")'
    BY <1>1, <1>2 DEF KnownWaitRvalidMis
  <2>3. Kept(First(acc))' /\ Kept(Abs!LastWord(acc))'
    BY <1>1, <1>3, <1>4 DEF KnownWaitRvalidMis
  <2> QED
    BY <1>1, <1>2, <1>6, <1>7, <2>1, <2>2, <2>3 DEF KnownGntsDone
<1>9. Faulty' /\ alert' \in BOOLEAN
  BY <1>1, <1>2 DEF Faulty
<1>10. Known'
  BY <1>2, <1>8, <1>9 DEF Known
<1>11. Abs!Proceed
  <2> DEFINE x == FALSE
  <2>1. x \in BOOLEAN /\ alert' = (alert \/ x) /\ (x => Abs!BadRead(acc))
    BY <1>2
  <2> HIDE DEF x
  <2> QED
    BY <1>1, <1>2, <1>4, <2>1, Proceeds
<1> QED
  BY <1>10, <1>11

LEMMA WaitGntRefines ==
    ASSUME MemConstants, KInv, WaitGnt PROVE Known' /\ Abs!Proceed
<1> DEFINE addr == IF handle_misaligned_q THEN SecondAddr ELSE acc.addr
           rvalid == FALSE
<1>1. PICK gnt \in Gnt(addr) :
         (gnt \/ pmp_err_q) /\ DataBus(rvalid, gnt, acc, addr, handle_misaligned_q)
  BY DEF WaitGnt
<1>2. /\ gnt \in BOOLEAN /\ (data_pmp_err(addr) => gnt = FALSE)
      /\ acc \in Accesses /\ acc # NoAccess /\ pmp_err_q = data_pmp_err(addr)
      /\ LsuTypeOK /\ Faulty /\ alert \in BOOLEAN /\ pmp_err_q \in BOOLEAN
      /\ handle_misaligned_q \in BOOLEAN /\ KnownWaitGnt /\ FirstHalf
      /\ handle_misaligned_q = split_misaligned_access(acc)
      /\ responses = <<>>
  <2>1. gnt \in BOOLEAN /\ (data_pmp_err(addr) => gnt = FALSE)
    BY GntType
  <2>2. /\ LsuTypeOK /\ Verdict /\ AnswersOwed /\ responses \in Seq(Answers)
        /\ Faulty /\ alert \in BOOLEAN /\ KnownWaitGnt /\ ls_fsm_cs = "WAIT_GNT"
    BY DEF WaitGnt, KInv, IInv, Known
  <2>3. /\ pmp_err_q = data_pmp_err(addr) /\ pmp_err_q \in BOOLEAN
        /\ handle_misaligned_q \in BOOLEAN /\ acc \in Accesses
    BY <2>2 DEF Verdict, LsuTypeOK
  <2>4. responses = <<>>
    BY <2>2, LenNone DEF AnswersOwed, Owed
  <2>5. FirstHalf /\ handle_misaligned_q = split_misaligned_access(acc)
    BY <2>2 DEF KnownWaitGnt
  <2>6. acc # NoAccess
    BY <2>3, Memory
  <2> QED
    BY <2>1, <2>2, <2>3, <2>4, <2>5, <2>6
<1>3. /\ UNCHANGED <<fault, acc, pmp_err_q, lsu_err_q, rdata_q, last, accepted>>
      /\ ls_fsm_cs' = "IDLE" /\ CtrlUpdate(acc)
      /\ First(acc)' = First(acc) /\ Abs!LastWord(acc)' = Abs!LastWord(acc)
      /\ addr_last_q' = IF lsu_err_q THEN addr_last_q
                        ELSE IF handle_misaligned_q THEN 4 * (addr \div 4) ELSE addr
      /\ alert' = (alert \/ FALSE)
  BY <1>1 DEF WaitGnt, First, AddrUpdate, DataBus
<1>4. handle_misaligned_q => /\ addr_last_q = acc.addr
                             /\ addr \div 4 = Abs!LastWord(acc)
                             /\ Half(acc, addr, handle_misaligned_q)
  BY <1>2, SecondHalf DEF KnownWaitGnt
<1>5. ~handle_misaligned_q => /\ addr = acc.addr
                              /\ First(acc) = Abs!LastWord(acc)
                              /\ addr \div 4 = Abs!LastWord(acc)
                              /\ Half(acc, addr, handle_misaligned_q)
  BY <1>2, LastFacts DEF Half, First
<1>6. addr \div 4 = Abs!LastWord(acc) /\ Half(acc, addr, handle_misaligned_q)
  BY <1>4, <1>5
<1>7. pmp_err_q = (fault[Abs!LastWord(acc)] = "pmp")
  BY <1>2, <1>6 DEF data_pmp_err
<1> HIDE DEF addr, rvalid
<1>8. /\ \E ws \in SUBSET Abs!Reachable(acc) : mem' = Abs!Written(mem, acc, ws)
      /\ \A w : w = addr \div 4 =>
            /\ gnt \/ data_pmp_err(addr) => Kept(w)'
            /\ \A r : r = Response(acc, addr) => AnswerFor(r, w)'
      /\ \A w : /\ Ok(w)' = Ok(w)
                /\ Kept(w) => Kept(w)'
                /\ \A r : AnswerFor(r, w) => AnswerFor(r, w)'
                /\ ~acc.we => WordAt(w)' = WordAt(w)
  <2> DEFINE second == handle_misaligned_q
  <2>1. /\ DataBus(rvalid, gnt, acc, addr, second) /\ Half(acc, addr, second)
        /\ second \in BOOLEAN /\ (gnt => ~data_pmp_err(addr))
    BY <1>1, <1>2, <1>6
  <2> HIDE DEF second
  <2> QED
    BY <1>2, <1>3, <2>1, HalfOfAccess
<1>9. /\ Kept(Abs!LastWord(acc))'
      /\ \A r : r = Response(acc, addr) => AnswerFor(r, Abs!LastWord(acc))'
  BY <1>1, <1>2, <1>3, <1>6, <1>8
<1>10. FirstHalf'
  <2>1. Ok(First(acc))' = Ok(First(acc)) /\ (Kept(First(acc)) => Kept(First(acc))')
        /\ (~acc.we => WordAt(First(acc))' = WordAt(First(acc)))
    BY <1>3, <1>8
  <2>2. alert' = alert
    BY <1>2, <1>3
  <2> QED
    BY <1>2, <1>3, <2>1, <2>2 DEF FirstHalf
<1>11. ~pmp_err_q => AnswerFor(responses[1], Abs!LastWord(acc))'
  <2> SUFFICES ASSUME ~pmp_err_q PROVE AnswerFor(responses[1], Abs!LastWord(acc))'
    OBVIOUS
  <2>1. responses' = Append(<<>>, Response(acc, addr))
    BY <1>1, <1>2 DEF DataBus, After, rvalid
  <2>2. responses'[1] = Response(acc, addr)
    BY <2>1, AppendToNone
  <2>3. \A r : r = responses'[1] => AnswerFor(r, Abs!LastWord(acc))'
    BY <1>9, <2>2
  <2> QED
    BY <2>3 DEF AnswerFor
<1>12. /\ ~Ok(First(acc)) => addr_last_q' = acc.addr
       /\ Ok(First(acc)) /\ ~Ok(Abs!LastWord(acc)) => addr_last_q' = 4 * Abs!LastWord(acc)
  <2>1. CASE handle_misaligned_q
    <3>1. lsu_err_q = ~Ok(First(acc))
      BY <1>2, <2>1 DEF FirstHalf
    <3> QED
      BY <1>3, <1>4, <2>1, <3>1
  <2>2. CASE ~handle_misaligned_q
    <3>1. lsu_err_q = FALSE
      BY <1>2, <2>2 DEF FirstHalf
    <3> QED
      BY <1>3, <1>5, <2>2, <3>1
  <2> QED
    BY <2>1, <2>2
<1>13. KnownIdle'
  <2>1. CtrlKnown'
    BY <1>3 DEF CtrlKnown, CtrlUpdate
  <2>2. (pmp_err_q = (fault[Abs!LastWord(acc)] = "pmp"))'
    BY <1>3, <1>7
  <2>3. (~Ok(First(acc)) => addr_last_q = acc.addr)'
        /\ (Ok(First(acc)) /\ ~Ok(Abs!LastWord(acc)) => addr_last_q = 4 * Abs!LastWord(acc))'
    BY <1>3, <1>8, <1>12
  <2>4. (~pmp_err_q => AnswerFor(responses[1], Abs!LastWord(acc)))'
    BY <1>3, <1>11
  <2> QED
    BY <1>9, <1>10, <2>1, <2>2, <2>3, <2>4 DEF KnownIdle
<1>14. Known'
  <2>1. Faulty' /\ alert' \in BOOLEAN
    BY <1>2, <1>3 DEF Faulty
  <2> QED
    BY <1>3, <1>13, <2>1 DEF Known
<1>15. Abs!Proceed
  <2> DEFINE x == FALSE
  <2>1. x \in BOOLEAN /\ alert' = (alert \/ x) /\ (x => Abs!BadRead(acc))
    BY <1>3
  <2> HIDE DEF x
  <2> QED
    BY <1>2, <1>3, <1>8, <2>1, Proceeds
<1> QED
  BY <1>14, <1>15

LEMMA WaitRvalidMisGntsDoneRefines ==
    ASSUME MemConstants, KInv, WaitRvalidMisGntsDone PROVE Known' /\ Abs!Proceed
<1>1. /\ acc \in Accesses /\ acc # NoAccess /\ acc.we \in BOOLEAN
      /\ LsuTypeOK /\ Faulty /\ alert \in BOOLEAN /\ mem \in [Addr -> 0..255]
      /\ KnownGntsDone /\ split_misaligned_access(acc) /\ addr_last_q = acc.addr
      /\ responses \in Seq(Answers) /\ Len(responses) = 2
  BY Memory
  DEF WaitRvalidMisGntsDone, KInv, IInv, Verdict, AnswersOwed, Owed, Known, LsuTypeOK,
      KnownGntsDone
<1>2. /\ UNCHANGED <<mem, fault, acc, ctrl, last, accepted>>
      /\ First(acc)' = First(acc) /\ Abs!LastWord(acc)' = Abs!LastWord(acc)
      /\ SecondAddr \div 4 = Abs!LastWord(acc)
      /\ ls_fsm_cs' = "IDLE" /\ responses' = Tail(responses)
      /\ pmp_err_q' = data_pmp_err(SecondAddr)
      /\ lsu_err_q' = Head(responses).err
      /\ alert' = (alert \/ Head(responses).intg)
  BY <1>1, SecondHalf DEF WaitRvalidMisGntsDone, NoRequest, After, First
<1>3. /\ Head(responses) = responses[1] /\ responses'[1] = responses[2]
      /\ AnswerFor(Head(responses), First(acc))
      /\ AnswerFor(responses[2], Abs!LastWord(acc))
      /\ fault[First(acc)] # "pmp"
  BY <1>1, <1>2, LenTwo DEF KnownGntsDone
<1>4. \A w : /\ Ok(w)' = Ok(w)
             /\ Kept(w) => Kept(w)'
             /\ \A r : AnswerFor(r, w) => AnswerFor(r, w)'
             /\ ~acc.we => WordAt(w)' = WordAt(w)
  BY <1>2, OtherHalf
<1>5. lsu_err_q' = ~Ok(First(acc))
  BY <1>2, <1>3 DEF AnswerFor, Ok
<1>6. Kept(First(acc))' /\ Kept(Abs!LastWord(acc))'
  BY <1>1, <1>2, <1>4 DEF KnownGntsDone
<1>7. ~acc.we => rdata_q' = WordAt(First(acc))
  BY <1>1, <1>3 DEF WaitRvalidMisGntsDone, RdataUpdate, KnownGntsDone, CtrlKnown, AnswerFor
<1>8. ~acc.we /\ fault[First(acc)] = "ecc" => alert'
  BY <1>2, <1>3 DEF AnswerFor
<1>9. FirstHalf'
  <2>1. split_misaligned_access(acc)' /\ First(acc)' = First(acc)
    BY <1>1, <1>2
  <2>2. /\ lsu_err_q' = ~Ok(First(acc))'
        /\ ~acc.we => WordAt(First(acc))' = WordAt(First(acc))
    BY <1>2, <1>4, <1>5
  <2>3. (~acc.we /\ Ok(First(acc)) => rdata_q = WordAt(First(acc)))'
    BY <1>2, <1>7, <2>2
  <2>4. (~acc.we /\ fault[First(acc)] = "ecc" => alert)'
    BY <1>2, <1>8
  <2> QED
    BY <1>6, <2>1, <2>2, <2>3, <2>4 DEF FirstHalf
<1>10. AnswerFor(responses[1], Abs!LastWord(acc))'
  <2>1. \A r : r = responses'[1] => AnswerFor(r, Abs!LastWord(acc))'
    BY <1>2, <1>3, <1>4
  <2> QED
    BY <2>1 DEF AnswerFor
<1>11. (pmp_err_q = (fault[Abs!LastWord(acc)] = "pmp"))'
  BY <1>2 DEF data_pmp_err
<1>12. /\ (~Ok(First(acc)) => addr_last_q = acc.addr)'
       /\ (Ok(First(acc)) => addr_last_q = 4 * Abs!LastWord(acc))'
  <2>1. addr_last_q' = IF Head(responses).err THEN acc.addr ELSE 4 * Abs!LastWord(acc)
    BY <1>1, <1>2 DEF WaitRvalidMisGntsDone, AddrUpdate
  <2>2. Head(responses).err = ~Ok(First(acc))
    BY <1>2, <1>5
  <2> QED
    BY <1>2, <1>4, <2>1, <2>2
<1>13. KnownIdle'
  <2>1. CtrlKnown'
    BY <1>1, <1>2 DEF KnownGntsDone, CtrlKnown, ctrl
  <2> QED
    BY <1>6, <1>9, <1>10, <1>11, <1>12, <2>1 DEF KnownIdle
<1> DEFINE x == Head(responses).intg
<1>14. x \in BOOLEAN /\ (x => Abs!BadRead(acc)) /\ alert' = (alert \/ x)
  <2>1. x = (~acc.we /\ fault[First(acc)] = "ecc")
    BY <1>3 DEF AnswerFor
  <2>2. ~acc.we /\ fault[First(acc)] = "ecc" => Abs!BadRead(acc)
    BY <1>1, ReachableFacts
  <2> QED
    BY <1>2, <2>1, <2>2
<1>15. Known'
  <2>1. Faulty' /\ alert' \in BOOLEAN
    BY <1>1, <1>2, <1>14 DEF Faulty
  <2> QED
    BY <1>2, <1>13, <2>1 DEF Known
<1>16. Abs!Proceed
  <2> DEFINE ws == {}
  <2>1. mem' = Abs!Written(mem, acc, ws) /\ ws \in SUBSET Abs!Reachable(acc)
    BY <1>1, <1>2, WrittenFacts
  <2>2. \E us \in SUBSET Abs!Reachable(acc) : mem' = Abs!Written(mem, acc, us)
    BY <2>1
  <2>3. /\ acc \in Accesses /\ alert \in BOOLEAN /\ x \in BOOLEAN
        /\ alert' = (alert \/ x) /\ (x => Abs!BadRead(acc))
        /\ UNCHANGED <<fault, acc, last, accepted>>
    BY <1>1, <1>2, <1>14
  <2> HIDE DEF ws, x
  <2> QED
    BY <2>2, <2>3, Proceeds
<1> QED
  BY <1>15, <1>16

LEMMA NextRefines ==
    ASSUME MemConstants, KInv, [LsuNext]_lsuVars PROVE KInv' /\ [Abs!Next]_(Abs!vars)
<1>1. IInv'
  BY NextKeeps DEF KInv
<1>2. Known' /\ [Abs!Next]_(Abs!vars)
  <2>1. CASE Start
    BY <2>1, StartRefines DEF Abs!Next
  <2>2. CASE AnswerAndStart
    BY <2>2, AnswerAndStartRefines DEF Abs!Next
  <2>3. CASE Answer
    BY <2>3, AnswerRefines DEF Abs!Next
  <2>4. CASE WaitGntMis
    BY <2>4, WaitGntMisRefines DEF Abs!Next
  <2>5. CASE WaitRvalidMis
    BY <2>5, WaitRvalidMisRefines DEF Abs!Next
  <2>6. CASE SecondGranted
    BY <2>6, SecondGrantedRefines DEF Abs!Next
  <2>7. CASE WaitGnt
    BY <2>7, WaitGntRefines DEF Abs!Next
  <2>8. CASE WaitRvalidMisGntsDone
    BY <2>8, WaitRvalidMisGntsDoneRefines DEF Abs!Next
  <2>9. CASE UNCHANGED lsuVars
    <3>1. Known'
      BY <2>9 DEF lsuVars, ctrl, KInv, Known, KnownIdle, KnownWaitGnt, KnownWaitRvalidMis,
                  KnownGntsDone, FirstHalf, CtrlKnown, Kept, Ok, AnswerFor, WordAt, Faulty
    <3>2. UNCHANGED Abs!vars
      BY <2>9 DEF lsuVars, Abs!vars
    <3> QED
      BY <3>1, <3>2
  <2> QED
    BY <2>1, <2>2, <2>3, <2>4, <2>5, <2>6, <2>7, <2>8, <2>9 DEF LsuNext, Progress
<1> QED
  BY <1>1, <1>2 DEF KInv

(***************************************************************************)
(* For any memory, any accesses and any faults of its words, every access  *)
(* is answered as MemAccess says: an error exactly when a word cannot be   *)
(* reached, with the address mtval is to show, else the bytes loaded or    *)
(* stored, and the integrity alert exactly when a bad word was read        *)
(* (ibex_load_store_unit.sv:130-530).                                      *)
(***************************************************************************)
THEOREM AccessesAreRight == MemConstants => (LsuSafety => Abs!Safety)
<1> SUFFICES ASSUME MemConstants PROVE LsuSafety => Abs!Safety
  OBVIOUS
<1>1. LsuInit => KInv /\ Abs!Init
  BY InitInv, InitKnown DEF KInv
<1>2. KInv /\ [LsuNext]_lsuVars => KInv' /\ [Abs!Next]_(Abs!vars)
  BY NextRefines
<1> QED
  BY <1>1, <1>2, PTL DEF LsuSafety, Abs!Safety
=============================================================================
