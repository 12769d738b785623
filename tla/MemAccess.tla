----------------------------- MODULE MemAccess -----------------------------
(***************************************************************************)
(* What the load/store unit promises the pipeline: one access at a time is *)
(* accepted and answered exactly once, and the answer is an error exactly  *)
(* when a word of the access cannot be reached; otherwise a load returns   *)
(* the bytes at its address and a store has changed those bytes and no     *)
(* others.  The words of a misaligned store are written one by one.        *)
(***************************************************************************)
EXTENDS Naturals, FiniteSets

CONSTANTS
    NWords,      \* words of memory; addresses wrap at 4 * NWords
    Contents,    \* initial memory: a byte for each address
    Accesses,    \* accesses the program makes
    MaxAccess    \* bound: how many accesses a behaviour makes

Addr  == 0..(4 * NWords - 1)
Words == 0..(NWords - 1)
Byte  == 0..255
Faults == {"none", "pmp", "bus", "ecc"}

VARIABLES
    mem,         \* the bytes of memory
    fault,       \* what happens to an access of a word
    acc,         \* the access being made
    last,        \* the last answer
    alert,       \* a word that failed its integrity check was read
    accepted     \* accesses so far (bound)

vars == <<mem, fault, acc, last, alert, accepted>>

NoAccess == [we |-> FALSE, size |-> 0, sext |-> FALSE, addr |-> 0,
             wdata |-> [k \in 0..3 |-> 0]]
NoAnswer == [acc |-> NoAccess, err |-> FALSE, rf_we |-> FALSE,
             rdata |-> [k \in 0..3 |-> 0], addr_last |-> 0]

ByteAddr(a, k) == (a.addr + k) % (4 * NWords)
FirstWord(a)   == a.addr \div 4
LastWord(a)    == ByteAddr(a, a.size - 1) \div 4
WordsOf(a)     == {FirstWord(a), LastWord(a)}
Reachable(a)   == {w \in WordsOf(a) : fault[w] \in {"none", "ecc"}}
Failing(a)     == Reachable(a) # WordsOf(a)

(* The bytes at the address, extended to a word. *)
Loaded(m, a) ==
    LET top == m[ByteAddr(a, a.size - 1)]
    IN  [k \in 0..3 |-> IF k < a.size THEN m[ByteAddr(a, k)]
                        ELSE IF a.sext /\ top >= 128 THEN 255 ELSE 0]

(* Memory m with the part of store a written that lies in the words ws. *)
Written(m, a, ws) ==
    [b \in Addr |->
        LET k == (b + 4 * NWords - a.addr) % (4 * NWords)
        IN  IF a.we /\ k < a.size /\ b \div 4 \in ws THEN a.wdata[k] ELSE m[b]]

(* The address mtval is to show: the access's, or the second word's.       *)
FaultAddr(a) ==
    IF FirstWord(a) \in Reachable(a) THEN 4 * LastWord(a) ELSE a.addr

BadRead(a) == ~a.we /\ \E w \in Reachable(a) : fault[w] = "ecc"

Init ==
    /\ mem = Contents
    /\ fault \in [Words -> Faults]
    /\ acc = NoAccess
    /\ last = NoAnswer
    /\ alert = FALSE
    /\ accepted = 0

(* A next access may be accepted while the last one is answered. *)
Accept ==
    /\ accepted < MaxAccess
    /\ acc' \in Accesses
    /\ accepted' = accepted + 1
    /\ \E ws \in SUBSET Reachable(acc') : mem' = Written(mem, acc', ws)

Start ==
    /\ acc = NoAccess
    /\ Accept
    /\ UNCHANGED <<fault, last, alert>>

Proceed ==
    /\ acc # NoAccess
    /\ \E ws \in SUBSET Reachable(acc) : mem' = Written(mem, acc, ws)
    /\ alert' \in {alert, alert \/ BadRead(acc)}
    /\ UNCHANGED <<fault, acc, last, accepted>>

(* A load whose data failed the integrity check need not reach a register. *)
Outcome(rf_we) ==
    [acc       |-> acc,
     err       |-> Failing(acc),
     rf_we     |-> rf_we,
     rdata     |-> IF rf_we THEN Loaded(mem, acc) ELSE NoAnswer.rdata,
     addr_last |-> IF Failing(acc) THEN FaultAddr(acc) ELSE 0]

Answer ==
    /\ acc # NoAccess
    /\ ~Failing(acc) => mem = Written(mem, acc, WordsOf(acc))
    /\ \E rf_we \in BOOLEAN :
          /\ rf_we => ~acc.we /\ ~Failing(acc)
          /\ ~rf_we => acc.we \/ Failing(acc) \/ BadRead(acc)
          /\ last' = Outcome(rf_we)
    /\ alert' = (alert \/ BadRead(acc))
    /\ \/ acc' = NoAccess /\ UNCHANGED <<mem, accepted>>
       \/ ~Failing(acc) /\ Accept
    /\ UNCHANGED fault

Next == Start \/ Proceed \/ Answer

Safety == Init /\ [][Next]_vars
Spec == Safety /\ WF_vars(Answer)
=============================================================================
