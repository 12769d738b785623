--------------------------- MODULE LoadStoreUnit ---------------------------
(***************************************************************************)
(* The load/store unit (ibex_load_store_unit.sv) with the data bus behind  *)
(* it.  One step is one clock edge at which something changes.             *)
(*                                                                         *)
(* The bus grants a request in any cycle, performs it when granted, and    *)
(* answers granted requests in order, in any later cycle.  An access       *)
(* denied by the PMP never reaches the bus.  The ID stage presents a new   *)
(* access only when none is outstanding or the outstanding one is being    *)
(* answered without an error, and keeps it until lsu_req_done_o.           *)
(***************************************************************************)
EXTENDS Naturals, Sequences, FiniteSets

CONSTANTS NDataWords, Contents, Accesses, MaxAccess

VARIABLES
    mem, fault,           \* memory, and what happens to an access of a word
    responses,            \* bus: answers still to be given
    acc,                  \* the access being made
    ls_fsm_cs, handle_misaligned_q, pmp_err_q, lsu_err_q,
    addr_last_q, rdata_q,
    rdata_offset_q, data_size_q, data_sign_ext_q, data_we_q,
    last,                 \* outputs of the last cycle with lsu_resp_valid_o
    alert,                \* load_intg_err_o was high
    accepted              \* accesses so far (bound)

ctrl == <<rdata_offset_q, data_size_q, data_sign_ext_q, data_we_q>>
lsuVars ==
    <<mem, fault, responses, acc, ls_fsm_cs, handle_misaligned_q, pmp_err_q, lsu_err_q,
      addr_last_q, rdata_q, ctrl, last, alert, accepted>>

Abs == INSTANCE MemAccess WITH NWords <- NDataWords

Addr  == 0..(4 * NDataWords - 1)
DataWords == 0..(NDataWords - 1)
States == {"IDLE", "WAIT_GNT_MIS", "WAIT_RVALID_MIS", "WAIT_GNT",
           "WAIT_RVALID_MIS_GNTS_DONE"}
NoAccess == Abs!NoAccess

(* What the constants must be. *)
MemConstants ==
    /\ NDataWords \in Nat \ {0, 1} /\ MaxAccess \in Nat
    /\ Contents \in [Addr -> 0..255]
    /\ Accesses \subseteq [we : BOOLEAN, size : {1, 2, 4}, sext : BOOLEAN,
                           addr : Addr, wdata : [0..3 -> 0..255]]

-----------------------------------------------------------------------------
(* Combinational signals, for an access a and its current address. *)
data_offset(a) == a.addr % 4

split_misaligned_access(a) ==
    \/ a.size = 4 /\ data_offset(a) # 0
    \/ a.size = 2 /\ data_offset(a) = 3

(* The ALU adds 4 to the last address for the second half. *)
SecondAddr == (addr_last_q + 4) % (4 * NDataWords)

(* Mutant of data_be: one byte too many in the second half. *)
ByteEnablesOneMore(a, second) ==
    {k \in 0..3 : IF second THEN k + 4 <= data_offset(a) + a.size
                  ELSE data_offset(a) <= k /\ k < data_offset(a) + a.size}

data_be(a, second) ==
    {k \in 0..3 : IF second THEN k + 4 < data_offset(a) + a.size
                  ELSE data_offset(a) <= k /\ k < data_offset(a) + a.size}

data_wdata(a) == [k \in 0..3 |-> a.wdata[(k + 4 - data_offset(a)) % 4]]

Word(m, addr) == [k \in 0..3 |-> m[4 * (addr \div 4) + k]]

data_pmp_err(addr) == fault[addr \div 4] = "pmp"

(* Result of a load from its last word and the bytes kept of the first. *)
data_rdata_ext(rdata) ==
    LET byte(k) == IF rdata_offset_q + k < 4
                   THEN (IF data_size_q = 4 /\ rdata_offset_q > 0
                         THEN rdata_q[rdata_offset_q + k]
                         ELSE IF data_size_q = 2 /\ rdata_offset_q = 3
                         THEN rdata_q[3]
                         ELSE rdata[rdata_offset_q + k])
                   ELSE rdata[rdata_offset_q + k - 4]
        fill == IF data_sign_ext_q /\ byte(data_size_q - 1) >= 128 THEN 255 ELSE 0
    IN  [k \in 0..3 |-> IF k < data_size_q THEN byte(k) ELSE fill]

-----------------------------------------------------------------------------
(* The bus in a cycle: an answer is taken, a request for a word granted.   *)
Rvalid == IF responses = <<>> THEN {FALSE} ELSE BOOLEAN

(* Mutant of Gnt: a request the PMP denies goes out on the bus. *)
GntAnyway(addr) == IF addr \in Addr THEN BOOLEAN ELSE {FALSE}

Gnt(addr) == IF data_pmp_err(addr) THEN {FALSE} ELSE BOOLEAN

Response(a, addr) == [err  |-> fault[addr \div 4] = "bus",
                      intg |-> ~a.we /\ fault[addr \div 4] = "ecc",
                      data |-> Word(mem, addr)]

After(rvalid) == IF rvalid THEN Tail(responses) ELSE responses

DataBus(rvalid, gnt, a, addr, second) ==
    /\ responses' = IF gnt THEN Append(After(rvalid), Response(a, addr))
                    ELSE After(rvalid)
    /\ mem' = IF gnt /\ a.we /\ fault[addr \div 4] # "bus"
              THEN [b \in Addr |->
                      IF b \div 4 = addr \div 4 /\ b % 4 \in data_be(a, second)
                      THEN data_wdata(a)[b % 4] ELSE mem[b]]
              ELSE mem
    /\ alert' = (alert \/ (rvalid /\ Head(responses).intg))

NoRequest(rvalid) ==
    /\ responses' = After(rvalid)
    /\ alert' = (alert \/ (rvalid /\ Head(responses).intg))
    /\ UNCHANGED mem

(* ctrl_update, addr_update and rdata_update. *)
CtrlUpdate(a) ==
    /\ rdata_offset_q' = data_offset(a)
    /\ data_size_q' = a.size
    /\ data_sign_ext_q' = a.sext
    /\ data_we_q' = a.we

AddrUpdate(cond, addr) == addr_last_q' = IF cond THEN addr ELSE addr_last_q

RdataUpdate ==
    rdata_q' = IF data_we_q THEN rdata_q ELSE Head(responses).data

-----------------------------------------------------------------------------
LsuInit ==
    /\ mem = Contents
    /\ fault \in [DataWords -> Abs!Faults]
    /\ responses = <<>>
    /\ acc = NoAccess
    /\ ls_fsm_cs = "IDLE"
    /\ handle_misaligned_q = FALSE
    /\ pmp_err_q = FALSE /\ lsu_err_q = FALSE
    /\ addr_last_q = 0
    /\ rdata_q = [k \in 0..3 |-> 0]
    /\ rdata_offset_q = 0 /\ data_size_q = 4
    /\ data_sign_ext_q = FALSE /\ data_we_q = FALSE
    /\ last = Abs!NoAnswer
    /\ alert = FALSE
    /\ accepted = 0

(* lsu_resp_valid_o and the outputs that go with it. *)
Respond(rvalid) ==
    LET data_or_pmp_err ==
            lsu_err_q \/ (rvalid /\ Head(responses).err) \/ pmp_err_q
        rf_we == /\ rvalid /\ ~data_or_pmp_err
                 /\ ~data_we_q /\ ~Head(responses).intg
    IN  last' = [acc       |-> acc,
                 err       |-> data_or_pmp_err,
                 rf_we     |-> rf_we,
                 rdata     |-> IF rf_we THEN data_rdata_ext(Head(responses).data)
                               ELSE Abs!NoAnswer.rdata,
                 addr_last |-> IF data_or_pmp_err THEN addr_last_q ELSE 0]

(* A first request goes out: IDLE with lsu_req_i. *)
Request(a, rvalid, gnt) ==
    /\ acc' = a
    /\ accepted' = accepted + 1
    /\ DataBus(rvalid, gnt, a, a.addr, handle_misaligned_q)
    /\ pmp_err_q' = data_pmp_err(a.addr)
    /\ lsu_err_q' = FALSE
    /\ AddrUpdate(gnt, a.addr)
    /\ IF gnt
       THEN /\ CtrlUpdate(a)
            /\ handle_misaligned_q' = split_misaligned_access(a)
            /\ ls_fsm_cs' = IF split_misaligned_access(a)
                            THEN "WAIT_RVALID_MIS" ELSE "IDLE"
       ELSE /\ UNCHANGED <<ctrl, handle_misaligned_q>>
            /\ ls_fsm_cs' = IF split_misaligned_access(a)
                            THEN "WAIT_GNT_MIS" ELSE "WAIT_GNT"

Start ==
    /\ ls_fsm_cs = "IDLE"
    /\ acc = NoAccess
    /\ accepted < MaxAccess
    /\ \E a \in Accesses : \E gnt \in Gnt(a.addr) : Request(a, FALSE, gnt)
    /\ UNCHANGED <<fault, rdata_q, last>>

(* IDLE with the final answer, and no new access. *)
Answer ==
    /\ ls_fsm_cs = "IDLE"
    /\ acc # NoAccess
    /\ \E rvalid \in Rvalid :
          /\ rvalid \/ pmp_err_q
          /\ Respond(rvalid)
          /\ NoRequest(rvalid)
    /\ acc' = NoAccess
    /\ pmp_err_q' = FALSE
    /\ UNCHANGED <<fault, ls_fsm_cs, handle_misaligned_q, lsu_err_q, addr_last_q,
                   rdata_q, ctrl, accepted>>

(* IDLE with the final answer to one access and the request of the next.   *)
AnswerAndStart ==
    /\ ls_fsm_cs = "IDLE"
    /\ acc # NoAccess
    /\ accepted < MaxAccess
    /\ TRUE \in Rvalid
    /\ Respond(TRUE)
    /\ ~last'.err
    /\ \E a \in Accesses : \E gnt \in Gnt(a.addr) : Request(a, TRUE, gnt)
    /\ UNCHANGED <<fault, rdata_q>>

WaitGntMis ==
    /\ ls_fsm_cs = "WAIT_GNT_MIS"
    /\ \E gnt \in Gnt(acc.addr) :
          /\ gnt \/ pmp_err_q
          /\ DataBus(FALSE, gnt, acc, acc.addr, handle_misaligned_q)
    /\ AddrUpdate(TRUE, acc.addr)
    /\ CtrlUpdate(acc)
    /\ handle_misaligned_q' = TRUE
    /\ ls_fsm_cs' = "WAIT_RVALID_MIS"
    /\ UNCHANGED <<fault, acc, pmp_err_q, lsu_err_q, rdata_q, last, accepted>>

(* The second request is out and the first is answered, or denied. *)
WaitRvalidMis ==
    /\ ls_fsm_cs = "WAIT_RVALID_MIS"
    /\ \E rvalid \in Rvalid, gnt \in Gnt(SecondAddr) :
          LET err == pmp_err_q \/ Head(responses).err
          IN  /\ rvalid \/ pmp_err_q
              /\ DataBus(rvalid, gnt, acc, SecondAddr, handle_misaligned_q)
              /\ pmp_err_q' = data_pmp_err(SecondAddr)
              /\ lsu_err_q' = err
              /\ IF rvalid THEN RdataUpdate ELSE UNCHANGED rdata_q
              /\ ls_fsm_cs' = IF gnt THEN "IDLE" ELSE "WAIT_GNT"
              /\ AddrUpdate(gnt /\ ~err, 4 * (SecondAddr \div 4))
              /\ handle_misaligned_q' = ~gnt
    /\ UNCHANGED <<fault, acc, ctrl, last, accepted>>

(* The second request is granted before the first is answered. *)
SecondGranted ==
    /\ ls_fsm_cs = "WAIT_RVALID_MIS"
    /\ ~pmp_err_q
    /\ TRUE \in Gnt(SecondAddr)
    /\ DataBus(FALSE, TRUE, acc, SecondAddr, handle_misaligned_q)
    /\ ls_fsm_cs' = "WAIT_RVALID_MIS_GNTS_DONE"
    /\ handle_misaligned_q' = FALSE
    /\ UNCHANGED <<fault, acc, pmp_err_q, lsu_err_q, addr_last_q, rdata_q, ctrl, last,
                   accepted>>

WaitGnt ==
    /\ ls_fsm_cs = "WAIT_GNT"
    /\ LET addr == IF handle_misaligned_q THEN SecondAddr ELSE acc.addr
       IN  /\ \E gnt \in Gnt(addr) :
                 /\ gnt \/ pmp_err_q
                 /\ DataBus(FALSE, gnt, acc, addr, handle_misaligned_q)
           /\ AddrUpdate(~lsu_err_q, IF handle_misaligned_q
                                     THEN 4 * (addr \div 4) ELSE addr)
    /\ CtrlUpdate(acc)
    /\ ls_fsm_cs' = "IDLE"
    /\ handle_misaligned_q' = FALSE
    /\ UNCHANGED <<fault, acc, pmp_err_q, lsu_err_q, rdata_q, last, accepted>>

WaitRvalidMisGntsDone ==
    /\ ls_fsm_cs = "WAIT_RVALID_MIS_GNTS_DONE"
    /\ TRUE \in Rvalid
    /\ NoRequest(TRUE)
    /\ pmp_err_q' = data_pmp_err(SecondAddr)
    /\ lsu_err_q' = Head(responses).err
    /\ AddrUpdate(~Head(responses).err, 4 * (SecondAddr \div 4))
    /\ RdataUpdate
    /\ ls_fsm_cs' = "IDLE"
    /\ UNCHANGED <<fault, acc, handle_misaligned_q, ctrl, last, accepted>>

Progress ==
    \/ Answer \/ WaitGntMis \/ WaitRvalidMis \/ SecondGranted \/ WaitGnt
    \/ WaitRvalidMisGntsDone

LsuNext == Start \/ AnswerAndStart \/ Progress

LsuSafety == LsuInit /\ [][LsuNext]_lsuVars

(* The bus grants every request and answers every granted one. *)
LsuSpec == LsuSafety /\ WF_lsuVars(Progress)

-----------------------------------------------------------------------------
LsuTypeOK ==
    /\ mem \in [Addr -> 0..255]
    /\ acc \in Accesses \cup {NoAccess}
    /\ ls_fsm_cs \in States
    /\ handle_misaligned_q \in BOOLEAN /\ pmp_err_q \in BOOLEAN
    /\ lsu_err_q \in BOOLEAN /\ data_sign_ext_q \in BOOLEAN /\ data_we_q \in BOOLEAN
    /\ addr_last_q \in Addr
    /\ rdata_q \in [0..3 -> 0..255]
    /\ rdata_offset_q \in 0..3 /\ data_size_q \in {1, 2, 4}
    /\ accepted \in 0..MaxAccess

(***************************************************************************)
(* The answers the bus owes are exactly those the state machine counts on: *)
(* two while both halves are granted and neither is answered, none when    *)
(* the access was denied, and none at all once the access is answered.  An *)
(* answer too many would be taken for the next access's.                   *)
(***************************************************************************)
Owed ==
    CASE ls_fsm_cs = "WAIT_RVALID_MIS_GNTS_DONE" -> 2
      [] ls_fsm_cs = "WAIT_RVALID_MIS" -> IF pmp_err_q THEN 0 ELSE 1
      [] ls_fsm_cs = "IDLE" -> IF acc = NoAccess \/ pmp_err_q THEN 0 ELSE 1
      [] OTHER -> 0

AnswersOwed == Len(responses) = Owed

LsuInv == LsuTypeOK /\ AnswersOwed

(***************************************************************************)
(* The unit implements MemAccess: right bytes, right error, right address, *)
(* and every access answered.                                              *)
(***************************************************************************)
Access == Abs!Spec
=============================================================================
