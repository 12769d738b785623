----------------------------- MODULE MCBusPorts -----------------------------
(***************************************************************************)
(* The two ports of the core, which share nothing: a behaviour watches the *)
(* prefetch buffer at the instruction port or the load/store unit at the   *)
(* data port.                                                              *)
(***************************************************************************)
EXTENDS PrefetchBuffer, LoadStoreUnit

VARIABLE port

(***************************************************************************)
(* Code layouts of four words: only long instructions, aligned or not, and *)
(* two that mix compressed and long ones so that a long instruction begins *)
(* in either half, and spans words of which the first or the last fails.   *)
(***************************************************************************)
MCLayouts ==
    {[compressed |-> {}, failing |-> {}],
     [compressed |-> {1, 4}, failing |-> {1}],
     [compressed |-> {0, 2, 6, 7}, failing |-> {3}]}

(***************************************************************************)
(* Two words of memory, so that an access at the end of memory wraps to    *)
(* its beginning; loads of every size and extension and stores of every    *)
(* size, at every address.                                                 *)
(***************************************************************************)
MCContents == [b \in 0..7 |-> IF b % 3 = 0 THEN 129 + b ELSE 1 + b]

Wdata  == [k \in 0..3 |-> 240 + k]
NoData == [k \in 0..3 |-> 0]

MCAccesses ==
    [we : {FALSE}, size : {1, 2}, sext : BOOLEAN, addr : 0..7, wdata : {NoData}]
    \cup [we : {FALSE}, size : {4}, sext : {FALSE}, addr : 0..7, wdata : {NoData}]
    \cup [we : {TRUE}, size : {1, 2, 4}, sext : {FALSE}, addr : 0..7, wdata : {Wdata}]

ASSUME MemAssumption == MemConstants

-----------------------------------------------------------------------------
allVars == <<port, vars, lsuVars>>

(* What the reset leaves open does not matter at the port that is not watched. *)
MCInit ==
    /\ port \in {"instr", "data"}
    /\ Init /\ LsuInit
    /\ port = "data" =>
          /\ layout = [compressed |-> {}, failing |-> {}]
          /\ instr_addr_q = 0 /\ fetch_addr_q = 0 /\ stored_addr_q = 0
    /\ port = "instr" => \A w \in DataWords : fault[w] = "none"

AtInstr == port = "instr" /\ UNCHANGED <<port, lsuVars>>
AtData  == port = "data" /\ UNCHANGED <<port, vars>>

MCNext == (AtInstr /\ Next) \/ (AtData /\ LsuNext)

MCSpec ==
    /\ MCInit /\ [][MCNext]_allVars
    /\ WF_allVars(AtInstr /\ Boot) /\ WF_allVars(AtInstr /\ Busy)
    /\ WF_allVars(AtData /\ Progress)

-----------------------------------------------------------------------------
(* Delivers, where the instruction port is watched. *)
FetchDelivers == []<>(port = "data") \/ Delivers
=============================================================================
