----------------------- MODULE PrefetchBuffer_proofs ------------------------
(***************************************************************************)
(* The prefetch buffer delivers the instruction stream, for every number   *)
(* of outstanding requests, every size of memory and every layout of the   *)
(* code: a word that the bus answers always finds room in the FIFO, the    *)
(* words fetched follow each other from the output address on, and so the  *)
(* buffer implements FetchStream.                                          *)
(***************************************************************************)
EXTENDS PrefetchBuffer, SequenceTheorems, FiniteSetTheorems, TLAPS

-----------------------------------------------------------------------------
(* A function on 1..n is a sequence of length n. *)
LEMMA MapSeq ==
    ASSUME NEW S, NEW n \in Nat, NEW f \in [1..n -> S]
    PROVE  f \in Seq(S) /\ Len(f) = n
<1>1. f \in Seq(S)
  BY SeqDef
<1>2. DOMAIN f = 1..Len(f) /\ Len(f) \in Nat
  BY <1>1, LenProperties
<1> QED
  BY <1>1, <1>2

(* A condition counted: one when it holds. *)
One(b) == IF b THEN 1 ELSE 0

LEMMA OneValue ==
    ASSUME NEW b \in BOOLEAN
    PROVE  One(b) \in {0, 1} /\ (b => One(b) = 1) /\ (~b => One(b) = 0)
BY DEF One

(* The remainder is a word, and a half address lies in a word. *)
LEMMA Wraps ==
    /\ \A a \in Nat : a % NWords \in Words
    /\ \A a \in Nat : a % (2 * NWords) \in HalfAddr
    /\ \A h \in HalfAddr : h \div 2 \in Words /\ h \in Nat
    /\ Words \subseteq Nat
<1>1. NWords \in Nat \ {0}
  BY PrefetchAssumption
<1> QED
  BY <1>1, SMT DEF Words, HalfAddr, Stream!HalfAddr

LEMMA NextWordType ==
    ASSUME NEW w \in Words, NEW moves \in BOOLEAN
    PROVE  NextWord(w, moves) \in Words
BY Wraps, SMT DEF NextWord, Words

-----------------------------------------------------------------------------
(***************************************************************************)
(* What one cycle does to the queue of outstanding requests and to the bus *)
(* they mirror: one more for a grant, one less for an answer.              *)
(***************************************************************************)
LEMMA OutstandingLength ==
    ASSUME TypeOK, Room, NEW req \in BOOLEAN, NEW branch \in BOOLEAN,
           NEW gnt \in BOOLEAN, NEW rvalid \in BOOLEAN,
           gnt => valid_req(req, branch), rvalid => pending # <<>>
    PROVE  /\ Outstanding(req, branch, gnt, rvalid) \in Seq(BOOLEAN)
           /\ Len(Outstanding(req, branch, gnt, rvalid)) =
                Len(branch_discard_q) + One(gnt)
                                      - One(rvalid)
<1> DEFINE joins  == gnt /\ discard_req_d(branch)
           marked == [i \in 1..Len(branch_discard_q) |->
                         branch_discard_q[i] \/ branch \/ joins]
           joined == IF gnt /\ Len(marked) < NUM_REQS
                     THEN Append(marked, joins) ELSE marked
<1>1. branch_discard_q \in Seq(BOOLEAN) /\ Len(branch_discard_q) \in Nat
  BY LenProperties DEF TypeOK
<1>2. marked \in Seq(BOOLEAN) /\ Len(marked) = Len(branch_discard_q)
  <2>1. marked \in [1..Len(branch_discard_q) -> BOOLEAN]
    OBVIOUS
  <2> QED
    BY <1>1, <2>1, MapSeq
<1>3. gnt => Len(branch_discard_q) < NUM_REQS
  BY <1>1, PrefetchAssumption, SMT DEF Room, held, valid_req, valid_new_req, TypeOK
<1>4. joins \in BOOLEAN
  BY DEF TypeOK, discard_req_d
<1>5. /\ joined \in Seq(BOOLEAN)
      /\ Len(joined) = Len(branch_discard_q) + One(gnt)
  <2> HIDE DEF marked, joins
  <2>1. /\ Append(marked, joins) \in Seq(BOOLEAN)
        /\ Len(Append(marked, joins)) = Len(marked) + 1
    BY <1>2, <1>4, AppendProperties, Zenon
  <2> HIDE DEF joined
  <2>2. CASE gnt
    <3>1. joined = Append(marked, joins)
      BY <2>2, <1>2, <1>3 DEF joined
    <3> QED
      BY <2>1, <2>2, <3>1, <1>2, OneValue
  <2>3. CASE ~gnt
    <3>1. joined = marked
      BY <2>3 DEF joined
    <3> QED
      BY <2>3, <3>1, <1>1, <1>2, OneValue
  <2> QED
    BY <2>2, <2>3
<1>6. rvalid => joined # <<>>
  <2>1. rvalid => Len(pending) > 0
    BY EmptySeq, LenProperties DEF TypeOK
  <2> HIDE DEF joined
  <2>2. rvalid => Len(joined) > 0
    BY <2>1, <1>1, <1>5, OneValue DEF Room
  <2> QED
    BY <2>2, EmptySeq
<1>7. Outstanding(req, branch, gnt, rvalid) = IF rvalid THEN Tail(joined) ELSE joined
  BY DEF Outstanding
<1> QED
  <2> HIDE DEF joined
  <2>1. CASE rvalid
    <3>1. /\ Tail(joined) \in Seq(BOOLEAN)
          /\ Len(Tail(joined)) = Len(joined) - 1
      BY <2>1, <1>5, <1>6, HeadTailProperties, Zenon
    <3>2. Outstanding(req, branch, gnt, rvalid) = Tail(joined)
      BY <2>1, <1>7
    <3>3. Len(joined) = Len(branch_discard_q) + One(gnt) /\ One(gnt) \in {0, 1}
      BY <1>5, OneValue
    <3>4. One(rvalid) = 1
      BY <2>1, OneValue
    <3> HIDE DEF marked, joins
    <3> QED
      BY <3>1, <3>2, <3>3, <3>4, <1>1
  <2>2. CASE ~rvalid
    <3>1. Outstanding(req, branch, gnt, rvalid) = joined
      BY <2>2, <1>7
    <3>2. One(rvalid) = 0 /\ One(gnt) \in {0, 1}
      BY <2>2, OneValue
    <3> QED
      BY <3>1, <3>2, <1>1, <1>5
  <2> QED
    BY <2>1, <2>2

LEMMA BusLength ==
    ASSUME TypeOK, NEW branch \in BOOLEAN, NEW gnt \in BOOLEAN,
           NEW rvalid \in BOOLEAN, NEW addr \in Words, rvalid => pending # <<>>
    PROVE  /\ Bus(branch, gnt, rvalid, addr) \in Seq(Entries)
           /\ Len(Bus(branch, gnt, rvalid, addr)) =
                Len(pending) + One(gnt) - One(rvalid)
<1> DEFINE left   == IF rvalid THEN Tail(pending) ELSE pending
           marked == [i \in 1..Len(left) |-> [left[i] EXCEPT !.old = @ \/ branch]]
           new    == [word |-> addr, old |-> valid_req_q /\ branch]
<1>1. pending \in Seq(Entries) /\ Len(pending) \in Nat
  BY LenProperties DEF TypeOK
<1>2. /\ left \in Seq(Entries)
      /\ Len(left) = Len(pending) - One(rvalid)
      /\ Len(left) \in Nat
  <2>1. CASE rvalid
    <3>1. Tail(pending) \in Seq(Entries) /\ Len(Tail(pending)) = Len(pending) - 1
      BY <2>1, <1>1, HeadTailProperties, Zenon
    <3>2. Len(Tail(pending)) \in Nat
      BY <3>1, LenProperties
    <3>3. left = Tail(pending) /\ One(rvalid) = 1
      BY <2>1, OneValue
    <3> QED
      BY <3>1, <3>2, <3>3
  <2>2. CASE ~rvalid
    <3>1. left = pending /\ One(rvalid) = 0
      BY <2>2, OneValue
    <3> QED
      BY <3>1, <1>1
  <2> QED
    BY <2>1, <2>2
<1>3. marked \in Seq(Entries) /\ Len(marked) = Len(left)
  <2>1. \A i \in 1..Len(left) : left[i] \in Entries
    BY <1>2, ElementOfSeq
  <2>2. \A i \in 1..Len(left) : [left[i] EXCEPT !.old = @ \/ branch] \in Entries
    <3> HIDE DEF left
    <3> QED
      BY <2>1 DEF Entries
  <2>3. marked \in [1..Len(left) -> Entries]
    BY <2>2
  <2> QED
    BY <1>2, <2>3, MapSeq
<1>4. new \in Entries
  BY DEF TypeOK, Entries
<1>5. Bus(branch, gnt, rvalid, addr) = IF gnt THEN Append(marked, new) ELSE marked
  BY DEF Bus
<1> QED
  <2> HIDE DEF left, marked, new
  <2>1. CASE gnt
    <3>1. /\ Append(marked, new) \in Seq(Entries)
          /\ Len(Append(marked, new)) = Len(marked) + 1
      BY <1>3, <1>4, AppendProperties, Zenon
    <3>2. Bus(branch, gnt, rvalid, addr) = Append(marked, new)
      BY <2>1, <1>5
    <3>3. One(gnt) = 1 /\ One(rvalid) \in {0, 1}
      BY <2>1, OneValue
    <3> QED
      BY <3>1, <3>2, <3>3, <1>1, <1>2, <1>3
  <2>2. CASE ~gnt
    <3>1. Bus(branch, gnt, rvalid, addr) = marked
      BY <2>2, <1>5
    <3>2. One(gnt) = 0 /\ One(rvalid) \in {0, 1}
      BY <2>2, OneValue
    <3> QED
      BY <3>1, <3>2, <1>1, <1>2, <1>3
  <2> QED
    BY <2>1, <2>2

-----------------------------------------------------------------------------
(***************************************************************************)
(* What one cycle does to the FIFO: it takes at most one word, and that    *)
(* word was one of those outstanding.                                      *)
(***************************************************************************)
LEMMA PushedLength ==
    ASSUME TypeOK, Room, NEW rvalid \in BOOLEAN, rvalid => pending # <<>>
    PROVE  /\ Pushed(rvalid) \in Seq(Entries)
           /\ Len(Pushed(rvalid)) \in Nat
           /\ Len(fifo) <= Len(Pushed(rvalid))
           /\ Len(Pushed(rvalid)) <= Len(fifo) + One(rvalid)
<1>1. fifo \in Seq(Entries) /\ Len(fifo) \in Nat /\ pending \in Seq(Entries)
  BY LenProperties DEF TypeOK
<1>2. CASE fifo_valid(rvalid) /\ Len(fifo) < DEPTH
  <2>1. rvalid /\ Head(pending) \in Entries
    BY <1>1, <1>2, HeadTailProperties, Zenon DEF fifo_valid
  <2>2. /\ Append(fifo, Head(pending)) \in Seq(Entries)
        /\ Len(Append(fifo, Head(pending))) = Len(fifo) + 1
    BY <1>1, <2>1, AppendProperties, Zenon
  <2>3. Pushed(rvalid) = Append(fifo, Head(pending))
    BY <1>2 DEF Pushed
  <2>4. One(rvalid) = 1
    BY <2>1, OneValue
  <2> QED
    BY <1>1, <2>2, <2>3, <2>4
<1>3. CASE ~(fifo_valid(rvalid) /\ Len(fifo) < DEPTH)
  <2>1. Pushed(rvalid) = fifo
    BY <1>3, Zenon DEF Pushed
  <2> QED
    BY <1>1, <2>1, OneValue
<1> QED
  BY <1>2, <1>3

LEMMA CycleInvariant ==
    ASSUME TypeOK, Room, NEW req \in BOOLEAN, NEW branch \in BOOLEAN,
           NEW target \in HalfAddr, NEW ready \in BOOLEAN, NEW gnt \in BOOLEAN,
           NEW rvalid \in BOOLEAN,
           Cycle(req, branch, target, ready, gnt, rvalid), booted' \in BOOLEAN
    PROVE  TypeOK' /\ Room'
<1> DEFINE words  == Pushed(rvalid)
           addr   == instr_addr(branch, target)
           starts == valid_new_req(req, branch) /\ ~valid_req_q
           takes  == ready /\ out_valid(words)
<1>1. gnt => valid_req(req, branch)
  BY Zenon DEF Cycle
<1>2. rvalid => pending # <<>>
  BY Zenon DEF Cycle
<1>3. addr \in Words
  BY Wraps DEF TypeOK, instr_addr
<1>4. /\ words \in Seq(Entries) /\ Len(words) \in Nat
      /\ Len(words) <= Len(fifo) + One(rvalid)
  BY <1>2, PushedLength
<1>5. /\ branch_discard_q' \in Seq(BOOLEAN)
      /\ Len(branch_discard_q') = Len(branch_discard_q) + One(gnt) - One(rvalid)
  <2>1. branch_discard_q' = Outstanding(req, branch, gnt, rvalid)
    BY DEF Cycle
  <2> QED
    BY <1>1, <1>2, <2>1, OutstandingLength
<1>6. /\ pending' \in Seq(Entries)
      /\ Len(pending') = Len(pending) + One(gnt) - One(rvalid)
  <2>1. pending' = Bus(branch, gnt, rvalid, addr)
    BY DEF Cycle
  <2> QED
    BY <1>2, <1>3, <2>1, BusLength, Zenon
<1>7. /\ fifo' \in Seq(Entries) /\ Len(fifo') \in Nat
      /\ Len(fifo') <= Len(fifo) + One(rvalid)
      /\ branch => Len(fifo') = 0
  <2>1. fifo' = IF branch THEN <<>>
                ELSE IF takes /\ pop_fifo(words) THEN Tail(words) ELSE words
    BY DEF Cycle
  <2> HIDE DEF words, takes
  <2>2. Len(fifo) \in Nat /\ One(rvalid) \in {0, 1}
    BY LenProperties, OneValue DEF TypeOK
  <2>3. CASE branch
    BY <2>1, <2>2, <2>3, EmptySeq
  <2>4. CASE ~branch /\ takes /\ pop_fifo(words)
    <3>1. words # <<>>
      BY <2>4, Zenon DEF out_valid, takes
    <3>2. Tail(words) \in Seq(Entries) /\ Len(Tail(words)) = Len(words) - 1
      BY <1>4, <3>1, HeadTailProperties, Zenon
    <3>3. Len(Tail(words)) \in Nat
      BY <3>2, LenProperties
    <3> QED
      BY <1>4, <2>1, <2>2, <2>4, <3>2, <3>3
  <2>5. CASE ~branch /\ ~(takes /\ pop_fifo(words))
    BY <1>4, <2>1, <2>5
  <2> QED
    BY <2>3, <2>4, <2>5
<1>8. TypeOK'
  <2>1. layout' \in Layouts
    BY DEF Cycle, TypeOK
  <2>2. instr_addr_q' \in HalfAddr
    <3>1. instr_addr_next(words) \in HalfAddr
      <4>1. instr_addr_q \in Nat
        BY Wraps DEF TypeOK
      <4>2. (instr_addr_q + 1) % (2 * NWords) \in HalfAddr
        BY <4>1, Wraps
      <4>3. (instr_addr_q + 2) % (2 * NWords) \in HalfAddr
        BY <4>1, Wraps
      <4> QED
        BY <4>2, <4>3, Zenon DEF instr_addr_next, Stream!Forward
    <3>2. instr_addr_q' = IF branch THEN target
                          ELSE IF takes THEN instr_addr_next(words) ELSE instr_addr_q
      BY DEF Cycle
    <3> QED
      BY <3>1, <3>2 DEF TypeOK
  <2>3. fetch_addr_q' \in Words
    <3>1. fetch_addr_q' =
            NextWord(IF branch THEN target \div 2 ELSE fetch_addr_q, starts)
      BY DEF Cycle
    <3>2. (IF branch THEN target \div 2 ELSE fetch_addr_q) \in Words
      BY Wraps DEF TypeOK
    <3>3. starts \in BOOLEAN
      BY DEF TypeOK, valid_new_req
    <3> QED
      BY <3>1, <3>2, <3>3, NextWordType
  <2>4. stored_addr_q' \in Words
    BY <1>3 DEF Cycle, TypeOK
  <2>5. valid_req_q' \in BOOLEAN /\ discard_req_q' \in BOOLEAN
    BY DEF Cycle, TypeOK, valid_req, valid_new_req, discard_req_d
  <2> QED
    BY <1>5, <1>6, <1>7, <2>1, <2>2, <2>3, <2>4, <2>5, Zenon DEF TypeOK, HalfAddr, Stream!HalfAddr
<1>9. Room'
  <2>1. valid_req_q' = (valid_req(req, branch) /\ ~gnt)
    BY DEF Cycle
  <2>2. /\ Len(fifo) \in Nat /\ Len(branch_discard_q) \in Nat /\ Len(pending) \in Nat
    BY LenProperties DEF TypeOK
  <2>3. rvalid => Len(branch_discard_q) > 0
    BY <1>2, <2>2, EmptySeq DEF Room, TypeOK
  <2>4. fifo_ready => Len(fifo) + Len(branch_discard_q) < DEPTH
    BY <2>2, PrefetchAssumption, SMT DEF fifo_ready, DEPTH
  <2>5. held = One(valid_req_q) /\ held' = One(valid_req_q') /\ held \in {0, 1}
    BY Zenon DEF held, One
  <2>6. One(gnt) + held' = One(valid_req(req, branch))
    <3>1. CASE gnt
      <4>1. One(gnt) = 1 /\ One(valid_req(req, branch)) = 1 /\ held' = 0
        BY <1>1, <2>1, <2>5, <3>1, Zenon DEF One
      <4> QED
        BY <4>1
    <3>2. CASE ~gnt
      <4>1. One(gnt) = 0 /\ held' = One(valid_req(req, branch))
        BY <2>1, <2>5, <3>2, Zenon DEF One
      <4> QED
        BY <4>1 DEF One
    <3> QED
      BY <3>1, <3>2
  <2>7. One(valid_req(req, branch)) \in {0, 1}
    BY Zenon DEF One
  <2>8. valid_req(req, branch) =>
           /\ Len(branch_discard_q) + 1 <= NUM_REQS
           /\ ~branch => Len(fifo) + Len(branch_discard_q) + 1 <= DEPTH
    <3>1. CASE valid_req_q
      BY <3>1, <2>2, <2>5, PrefetchAssumption DEF Room, DEPTH, One
    <3>2. CASE valid_new_req(req, branch)
      BY <3>2, <2>2, <2>4, PrefetchAssumption DEF valid_new_req, DEPTH
    <3> QED
      BY <3>1, <3>2, Zenon DEF valid_req
  <2>9. ~valid_req(req, branch) => One(valid_req(req, branch)) = 0
    BY Zenon DEF One
  <2>10. One(gnt) \in {0, 1} /\ One(rvalid) \in {0, 1} /\ held' \in {0, 1}
    BY <2>5, OneValue, Zenon DEF One
  <2>11. /\ Len(branch_discard_q') + held' =
                Len(branch_discard_q) + One(valid_req(req, branch)) - One(rvalid)
    BY <1>5, <2>2, <2>6, <2>7, <2>10
  <2>12. /\ Len(branch_discard_q) + One(valid_req(req, branch)) <= NUM_REQS
         /\ ~branch => Len(fifo) + Len(branch_discard_q)
                           + One(valid_req(req, branch)) <= DEPTH
    BY <2>2, <2>5, <2>7, <2>8, <2>9, PrefetchAssumption DEF Room, DEPTH
  <2>13. Len(branch_discard_q') \in Nat
    BY <1>5, LenProperties
  <2>14. Len(branch_discard_q') + held' <= NUM_REQS
    BY <2>2, <2>7, <2>10, <2>11, <2>12, <2>13, PrefetchAssumption
  <2>15. Len(fifo') + Len(branch_discard_q') + held' <= DEPTH
    <3>1. CASE branch
      <4>1. Len(fifo') = 0
        BY <3>1, <1>7
      <4> QED
        BY <4>1, <2>10, <2>13, <2>14, PrefetchAssumption DEF DEPTH
    <3>2. CASE ~branch
      <4>1. Len(fifo') \in Nat /\ Len(fifo') <= Len(fifo) + One(rvalid)
        BY <1>7, Zenon
      <4>2. Len(fifo) + Len(branch_discard_q) + One(valid_req(req, branch)) <= DEPTH
        BY <3>2, <2>12, Zenon
      <4> QED
        BY <4>1, <4>2, <2>2, <2>7, <2>10, <2>11, <2>13, PrefetchAssumption DEF DEPTH
    <3> QED
      BY <3>1, <3>2
  <2>16. Len(branch_discard_q') = Len(pending')
    BY <1>5, <1>6, <2>2, <2>10 DEF Room
  <2> QED
    BY <2>14, <2>15, <2>16 DEF Room, DEPTH
<1> QED
  BY <1>8, <1>9

-----------------------------------------------------------------------------
LEMMA InitRoom ==
    ASSUME Init
    PROVE  TypeOK /\ Room
<1>1. <<>> \in Seq(Entries) /\ <<>> \in Seq(BOOLEAN) /\ Len(<<>>) = 0
  BY EmptySeq, Zenon
<1>2. TypeOK
  BY <1>1, Zenon DEF Init, TypeOK
<1>3. held = 0 /\ Len(fifo) = 0 /\ Len(branch_discard_q) = 0 /\ Len(pending) = 0
  BY <1>1 DEF Init, held
<1> QED
  BY <1>2, <1>3, PrefetchAssumption DEF Room, DEPTH

LEMMA StepRoom ==
    ASSUME TypeOK, Room, [Next]_vars
    PROVE  TypeOK' /\ Room'
<1>1. CASE Boot
  <2>1. PICK gnt \in BOOLEAN, target \in HalfAddr :
              Cycle(TRUE, TRUE, target, FALSE, gnt, FALSE)
    BY <1>1 DEF Boot
  <2>2. booted' \in BOOLEAN
    BY <1>1 DEF Boot
  <2> QED
    BY <2>1, <2>2, CycleInvariant
<1>2. CASE Branch
  <2>1. PICK req \in BOOLEAN, gnt \in BOOLEAN, rvalid \in BOOLEAN, target \in HalfAddr :
              Cycle(req, TRUE, target, FALSE, gnt, rvalid)
    BY <1>2 DEF Branch
  <2>2. booted' \in BOOLEAN
    BY <1>2 DEF Branch, TypeOK
  <2> QED
    BY <2>1, <2>2, CycleInvariant
<1>3. CASE Fetch
  <2>1. PICK req \in BOOLEAN, ready \in BOOLEAN, gnt \in BOOLEAN, rvalid \in BOOLEAN :
              Cycle(req, FALSE, 0, ready, gnt, rvalid)
    BY <1>3 DEF Fetch
  <2>2. booted' \in BOOLEAN /\ 0 \in HalfAddr
    BY <1>3, PrefetchAssumption DEF Fetch, TypeOK, HalfAddr, Stream!HalfAddr
  <2> QED
    BY <2>1, <2>2, CycleInvariant
<1>4. CASE UNCHANGED vars
  BY <1>4 DEF vars, TypeOK, Room, held
<1> QED
  BY <1>1, <1>2, <1>3, <1>4 DEF Next

(***************************************************************************)
(* Every request has its place, from the cycle it is made.                 *)
(***************************************************************************)
THEOREM RoomForEveryRequest == Safety => [](TypeOK /\ Room)
<1>1. Init => TypeOK /\ Room
  BY InitRoom
<1>2. TypeOK /\ Room /\ [Next]_vars => TypeOK' /\ Room'
  BY StepRoom
<1> QED
  BY <1>1, <1>2, PTL DEF Safety

(* The registers of the prefetch buffer and the FIFO keep to their ranges. *)
THEOREM TypeCorrect == Safety => []TypeOK
BY RoomForEveryRequest, PTL

LEMMA RoomPushes ==
    ASSUME TypeOK, Room
    PROVE  PushFits
<1> SUFFICES ASSUME branch_discard_q # <<>>
             PROVE  Len(fifo) < DEPTH
  BY DEF PushFits
<1>1. Len(fifo) \in Nat /\ Len(branch_discard_q) \in Nat
  BY LenProperties DEF TypeOK
<1>2. Len(branch_discard_q) > 0
  BY <1>1, EmptySeq DEF TypeOK
<1> QED
  BY <1>1, <1>2, PrefetchAssumption DEF Room, held, DEPTH

(***************************************************************************)
(* A word that is not discarded is never answered into a full FIFO (the    *)
(* assertion IbexFetchFifoPushFull).                                       *)
(***************************************************************************)
THEOREM PushAlwaysFits == Safety => []PushFits
<1>1. TypeOK /\ Room => PushFits
  BY RoomPushes
<1> QED
  BY <1>1, RoomForEveryRequest, PTL

-----------------------------------------------------------------------------
(***************************************************************************)
(* Addresses wrap.  Adding to a remainder, the remainder of less than      *)
(* twice the modulus, and the word a half address lies in as it moves on.  *)
(***************************************************************************)
LEMMA DivModUnique ==
    ASSUME NEW d \in Nat, d > 0, NEW q \in Int, NEW r \in 0..(d - 1)
    PROVE  (q * d + r) \div d = q /\ (q * d + r) % d = r
  BY SMT

LEMMA ModAdd ==
    ASSUME NEW a \in Nat, NEW b \in Nat
    PROVE  ((a % NWords) + b) % NWords = (a + b) % NWords
<1> DEFINE q == a \div NWords
           r == a % NWords
           p == (r + b) \div NWords
           s == (r + b) % NWords
<1>1. NWords \in Nat /\ NWords > 0
  BY PrefetchAssumption
<1>2. a = q * NWords + r /\ q \in Int /\ r \in 0..(NWords - 1)
  BY <1>1, SMT
<1>3. r + b = p * NWords + s /\ p \in Int /\ s \in 0..(NWords - 1)
  BY <1>1, <1>2, SMT
<1> HIDE DEF q, r, p, s
<1>4. a + b = (q + p) * NWords + s
  BY <1>1, <1>2, <1>3, SMT
<1>5. ((q + p) * NWords + s) % NWords = s
  <2>1. q + p \in Int
    BY <1>2, <1>3
  <2> QED
    BY <1>1, <1>3, <2>1, DivModUnique
<1> QED
  BY <1>4, <1>5 DEF r, s

LEMMA SmallMod ==
    ASSUME NEW m \in Nat, m > 0, NEW a \in Nat, a < 2 * m
    PROVE  /\ a < m => a % m = a
           /\ ~(a < m) => a % m = a - m
<1>1. CASE a < m
  <2>1. a \in 0..(m - 1) /\ 0 * m + a = a
    BY <1>1
  <2> QED
    BY <1>1, <2>1, DivModUnique
<1>2. CASE ~(a < m)
  <2>1. a - m \in 0..(m - 1) /\ 1 * m + (a - m) = a
    BY <1>2
  <2> QED
    BY <1>2, <2>1, DivModUnique
<1> QED
  BY <1>1, <1>2

LEMMA HalfForward ==
    ASSUME NEW h \in HalfAddr
    PROVE  /\ h % 2 # 1 => Stream!Forward(h, 1) \div 2 = h \div 2
           /\ h % 2 = 1 => Stream!Forward(h, 1) \div 2 = (h \div 2 + 1) % NWords
           /\ Stream!Forward(h, 2) \div 2 = (h \div 2 + 1) % NWords
<1> DEFINE w == h \div 2
           b == h % 2
           m == 2 * NWords
           next == IF w + 1 < NWords THEN w + 1 ELSE 0
<1>1. NWords \in Nat /\ NWords > 0 /\ m \in Nat /\ m > 0
  BY PrefetchAssumption
<1>2. h \in Nat /\ h < m
  BY <1>1 DEF HalfAddr, Stream!HalfAddr
<1>3. h = w * 2 + b /\ b \in 0..1 /\ w \in Nat /\ w < NWords
  BY <1>1, <1>2
<1>4. (w + 1) % NWords = next /\ next \in Nat
  <2>1. /\ w + 1 < NWords => (w + 1) % NWords = w + 1
        /\ ~(w + 1 < NWords) => (w + 1) % NWords = w + 1 - NWords
    BY <1>1, <1>3, SmallMod
  <2> QED
    BY <1>1, <1>3, <2>1
<1>5. Stream!Forward(h, 1) = (h + 1) % m /\ Stream!Forward(h, 2) = (h + 2) % m
  BY DEF Stream!Forward
<1> HIDE DEF w, b
<1>6. /\ h + 1 < m => (h + 1) % m = h + 1
      /\ ~(h + 1 < m) => (h + 1) % m = h + 1 - m
      /\ h + 2 < m => (h + 2) % m = h + 2
      /\ ~(h + 2 < m) => (h + 2) % m = h + 2 - m
  <2>1. h + 1 \in Nat /\ h + 1 < 2 * m /\ h + 2 \in Nat /\ h + 2 < 2 * m
    BY <1>1, <1>2, <1>3
  <2> HIDE DEF m
  <2> QED
    BY <1>1, <1>2, <2>1, SmallMod
<1>7. (h + 2) % m = next * 2 + b
  BY <1>1, <1>3, <1>6
<1>8. b = 1 => (h + 1) % m = next * 2 + 0
  BY <1>1, <1>3, <1>6
<1>9. b # 1 => (h + 1) % m = w * 2 + 1
  BY <1>1, <1>3, <1>6
<1> HIDE DEF m, next
<1>10. /\ (next * 2 + b) \div 2 = next
       /\ (next * 2 + 0) \div 2 = next
       /\ (w * 2 + 1) \div 2 = w
  BY <1>3, <1>4, DivModUnique
<1> QED
  BY <1>4, <1>5, <1>7, <1>8, <1>9, <1>10 DEF w, b

-----------------------------------------------------------------------------
(***************************************************************************)
(* Element by element, what one cycle does to the queue of outstanding     *)
(* requests, to the bus and to the FIFO's input: what is left moves down   *)
(* by one for an answer, what was granted is last.                         *)
(***************************************************************************)
LEMMA OutstandingElements ==
    ASSUME TypeOK, Room, NEW req \in BOOLEAN, NEW branch \in BOOLEAN,
           NEW gnt \in BOOLEAN, NEW rvalid \in BOOLEAN,
           gnt => valid_req(req, branch), rvalid => pending # <<>>,
           NEW i \in 1..(Len(pending) + One(gnt) - One(rvalid))
    PROVE  LET joins == gnt /\ discard_req_d(branch)
               now   == Outstanding(req, branch, gnt, rvalid)[i]
           IN  /\ i + One(rvalid) <= Len(pending) =>
                      now = (branch_discard_q[i + One(rvalid)] \/ branch \/ joins)
               /\ ~(i + One(rvalid) <= Len(pending)) => now = joins
<1> DEFINE n      == Len(branch_discard_q)
           joins  == gnt /\ discard_req_d(branch)
           marked == [j \in 1..n |-> branch_discard_q[j] \/ branch \/ joins]
           joined == IF gnt /\ Len(marked) < NUM_REQS
                     THEN Append(marked, joins) ELSE marked
<1>1. branch_discard_q \in Seq(BOOLEAN) /\ n \in Nat /\ n = Len(pending)
  BY LenProperties DEF TypeOK, Room
<1>2. marked \in Seq(BOOLEAN) /\ Len(marked) = n
  <2>1. marked \in [1..n -> BOOLEAN]
    OBVIOUS
  <2> QED
    BY <1>1, <2>1, MapSeq
<1>3. gnt => n < NUM_REQS
  BY <1>1, PrefetchAssumption, SMT DEF Room, held, valid_req, valid_new_req, TypeOK
<1>4. joins \in BOOLEAN
  BY DEF TypeOK, discard_req_d
<1>5. \A j \in 1..n : marked[j] = (branch_discard_q[j] \/ branch \/ joins)
  OBVIOUS
<1>6. Outstanding(req, branch, gnt, rvalid) = IF rvalid THEN Tail(joined) ELSE joined
  BY DEF Outstanding
<1> HIDE DEF marked, joins
<1>7. /\ joined \in Seq(BOOLEAN) /\ Len(joined) = n + One(gnt)
      /\ \A j \in 1..(n + One(gnt)) : joined[j] = IF j <= n THEN marked[j] ELSE joins
  <2>1. CASE gnt
    <3>1. joined = Append(marked, joins)
      BY <2>1, <1>2, <1>3 DEF joined
    <3>2. /\ Append(marked, joins) \in Seq(BOOLEAN)
          /\ Len(Append(marked, joins)) = Len(marked) + 1
      BY <1>2, <1>4, AppendProperties, Zenon
    <3>3. Append(marked, joins)[Len(marked) + 1] = joins
      BY <1>2, <1>4, AppendProperties, Zenon
    <3>4. \A j \in 1..Len(marked) : Append(marked, joins)[j] = marked[j]
      BY <1>2, <1>4, AppendProperties
    <3>5. /\ joined \in Seq(BOOLEAN) /\ Len(joined) = n + 1
          /\ \A j \in 1..n : joined[j] = marked[j]
          /\ joined[n + 1] = joins
      BY <3>1, <3>2, <3>3, <3>4, <1>2, Zenon
    <3>6. One(gnt) = 1
      BY <2>1, OneValue
    <3> HIDE DEF joined, n
    <3>7. \A j \in 1..(n + 1) : j \in 1..n \/ j = n + 1
      BY <1>1
    <3>8. \A j \in 1..(n + 1) : joined[j] = IF j <= n THEN marked[j] ELSE joins
      BY <3>5, <3>7, <1>1
    <3> QED
      BY <3>5, <3>6, <3>8
  <2>2. CASE ~gnt
    <3>1. joined = marked
      BY <2>2 DEF joined
    <3> HIDE DEF joined, n
    <3> QED
      BY <2>2, <3>1, <1>1, <1>2, OneValue
  <2> QED
    BY <2>1, <2>2
<1> HIDE DEF joined, n
<1>8. Outstanding(req, branch, gnt, rvalid)[i] = joined[i + One(rvalid)]
  <2>1. CASE rvalid
    <3>1. One(rvalid) = 1
      BY <2>1, OneValue
    <3>2. Len(pending) > 0
      BY <2>1, EmptySeq, LenProperties DEF TypeOK
    <3>3. joined # <<>>
      BY <3>2, <1>1, <1>7, OneValue, EmptySeq
    <3>4. \A j \in 1..Len(Tail(joined)) : Tail(joined)[j] = joined[j + 1]
      BY <3>3, <1>7, HeadTailProperties, Zenon
    <3>5. Len(Tail(joined)) = Len(joined) - 1
      BY <3>3, <1>7, HeadTailProperties, Zenon
    <3>6. i \in 1..Len(Tail(joined))
      BY <3>1, <3>5, <1>1, <1>7, OneValue
    <3> QED
      BY <2>1, <3>1, <3>4, <3>6, <1>6
  <2>2. CASE ~rvalid
    <3>1. One(rvalid) = 0 /\ i + 0 = i
      BY <2>2, OneValue
    <3> QED
      BY <2>2, <3>1, <1>6
  <2> QED
    BY <2>1, <2>2
<1>9. i + One(rvalid) \in 1..(n + One(gnt))
  BY <1>1, OneValue
<1>10. joined[i + One(rvalid)] = IF i + One(rvalid) <= n THEN marked[i + One(rvalid)] ELSE joins
  BY <1>7, <1>9
<1>11. CASE i + One(rvalid) <= n
  <2>1. i + One(rvalid) \in 1..n
    BY <1>1, <1>9, <1>11, OneValue
  <2>2. marked[i + One(rvalid)] = (branch_discard_q[i + One(rvalid)] \/ branch \/ joins)
    BY <1>5, <2>1
  <2> QED
    BY <1>1, <1>8, <1>10, <1>11, <2>2, Zenon DEF joins
<1>12. CASE ~(i + One(rvalid) <= n)
  BY <1>1, <1>8, <1>10, <1>12, Zenon DEF joins
<1> QED
  BY <1>11, <1>12

LEMMA BusElements ==
    ASSUME TypeOK, NEW branch \in BOOLEAN, NEW gnt \in BOOLEAN,
           NEW rvalid \in BOOLEAN, NEW addr \in Words, rvalid => pending # <<>>,
           NEW i \in 1..(Len(pending) + One(gnt) - One(rvalid))
    PROVE  LET now == Bus(branch, gnt, rvalid, addr)[i]
           IN  /\ i + One(rvalid) <= Len(pending) =>
                      now = [word |-> pending[i + One(rvalid)].word,
                             old  |-> pending[i + One(rvalid)].old \/ branch]
               /\ ~(i + One(rvalid) <= Len(pending)) =>
                      now = [word |-> addr, old |-> valid_req_q /\ branch]
<1> DEFINE left   == IF rvalid THEN Tail(pending) ELSE pending
           n      == Len(left)
           marked == [j \in 1..n |-> [left[j] EXCEPT !.old = @ \/ branch]]
           new    == [word |-> addr, old |-> valid_req_q /\ branch]
           k      == i + One(rvalid)
<1>1. pending \in Seq(Entries) /\ Len(pending) \in Nat
  BY LenProperties DEF TypeOK
<1>2. /\ left \in Seq(Entries) /\ n = Len(pending) - One(rvalid) /\ n \in Nat
      /\ \A j \in 1..n : left[j] = pending[j + One(rvalid)]
  <2>1. CASE rvalid
    <3>1. /\ Tail(pending) \in Seq(Entries) /\ Len(Tail(pending)) = Len(pending) - 1
          /\ \A j \in 1..Len(Tail(pending)) : Tail(pending)[j] = pending[j + 1]
      BY <2>1, <1>1, HeadTailProperties, Zenon
    <3>2. Len(Tail(pending)) \in Nat
      BY <3>1, LenProperties
    <3>3. left = Tail(pending) /\ One(rvalid) = 1
      BY <2>1, OneValue
    <3> QED
      BY <3>1, <3>2, <3>3
  <2>2. CASE ~rvalid
    <3>1. left = pending /\ One(rvalid) = 0
      BY <2>2, OneValue
    <3> QED
      BY <3>1, <1>1
  <2> QED
    BY <2>1, <2>2
<1>3. \A j \in 1..n : left[j] \in Entries
  BY <1>2, ElementOfSeq
<1>4. /\ marked \in Seq(Entries) /\ Len(marked) = n
      /\ \A j \in 1..n : marked[j] = [word |-> left[j].word, old |-> left[j].old \/ branch]
  <2>1. \A j \in 1..n : [left[j] EXCEPT !.old = @ \/ branch]
                          = [word |-> left[j].word, old |-> left[j].old \/ branch]
    <3> HIDE DEF left, n
    <3> QED
      BY <1>3 DEF Entries
  <2>2. \A j \in 1..n : [word |-> left[j].word, old |-> left[j].old \/ branch] \in Entries
    <3> HIDE DEF left, n
    <3> QED
      BY <1>3 DEF Entries
  <2>3. marked \in [1..n -> Entries]
    <3> HIDE DEF left, n
    <3> QED
      BY <2>1, <2>2
  <2>4. marked \in Seq(Entries) /\ Len(marked) = n
    BY <1>2, <2>3, MapSeq
  <2> QED
    BY <2>1, <2>4
<1>5. new \in Entries
  BY DEF TypeOK, Entries
<1>6. Bus(branch, gnt, rvalid, addr) = IF gnt THEN Append(marked, new) ELSE marked
  BY DEF Bus
<1> HIDE DEF left, n, marked, new
<1>7. CASE i <= n
  <2>1. i \in 1..n
    BY <1>7, <1>2
  <2>2. Bus(branch, gnt, rvalid, addr)[i] = marked[i]
    <3>1. CASE gnt
      <4>1. \A j \in 1..Len(marked) : Append(marked, new)[j] = marked[j]
        BY <1>4, <1>5, AppendProperties, SMT
      <4> QED
        BY <3>1, <4>1, <2>1, <1>4, <1>6
    <3>2. CASE ~gnt
      BY <3>2, <1>6
    <3> QED
      BY <3>1, <3>2
  <2>3. marked[i] = [word |-> pending[k].word, old |-> pending[k].old \/ branch]
    BY <2>1, <1>2, <1>4
  <2>4. k <= Len(pending)
    BY <1>1, <1>2, <1>7, OneValue
  <2> QED
    BY <2>2, <2>3, <2>4
<1>8. CASE ~(i <= n)
  <2>1. gnt /\ i = n + 1 /\ ~(k <= Len(pending))
    BY <1>1, <1>2, <1>8, OneValue
  <2>2. Append(marked, new)[Len(marked) + 1] = new
    BY <1>4, <1>5, AppendProperties, SMT
  <2>3. Bus(branch, gnt, rvalid, addr)[i] = new
    BY <2>1, <2>2, <1>4, <1>6
  <2> QED
    BY <2>1, <2>3 DEF new
<1> QED
  BY <1>7, <1>8

LEMMA PushedElements ==
    ASSUME TypeOK, Room, NEW rvalid \in BOOLEAN, rvalid => pending # <<>>
    PROVE  LET pushes == rvalid /\ ~branch_discard_q[1]
           IN  /\ Pushed(rvalid) \in Seq(Entries)
               /\ Len(Pushed(rvalid)) = Len(fifo) + One(pushes)
               /\ \A i \in 1..Len(fifo) : Pushed(rvalid)[i] = fifo[i]
               /\ pushes => Pushed(rvalid)[Len(fifo) + 1] = pending[1]
<1> DEFINE pushes == rvalid /\ ~branch_discard_q[1]
<1>1. fifo \in Seq(Entries) /\ Len(fifo) \in Nat /\ pending \in Seq(Entries)
      /\ Len(pending) \in Nat
  BY LenProperties DEF TypeOK
<1>2. Pushed(rvalid) \in Seq(Entries)
  BY PushedLength
<1>3. CASE pushes
  <2>1. Len(pending) > 0
    BY <1>1, <1>3, EmptySeq
  <2>2. Len(fifo) < DEPTH
    BY <2>1, <1>1, PrefetchAssumption DEF Room, held, DEPTH
  <2>3. Pushed(rvalid) = Append(fifo, Head(pending))
    BY <1>3, <2>2 DEF Pushed, fifo_valid
  <2>4. Head(pending) \in Entries
    BY <1>1, <1>3, HeadTailProperties, Zenon
  <2>5. Head(pending) = pending[1]
    BY <1>1, <1>3
  <2>6. /\ Len(Append(fifo, Head(pending))) = Len(fifo) + 1
        /\ \A i \in 1..Len(fifo) : Append(fifo, Head(pending))[i] = fifo[i]
        /\ Append(fifo, Head(pending))[Len(fifo) + 1] = Head(pending)
    BY <1>1, <2>4, AppendProperties, SMT
  <2>7. One(pushes) = 1
    BY <1>3, Zenon DEF One
  <2> QED
    BY <1>2, <2>3, <2>5, <2>6, <2>7, Zenon
<1>4. CASE ~pushes
  <2>1. Pushed(rvalid) = fifo
    BY <1>4, Zenon DEF Pushed, fifo_valid
  <2>2. One(pushes) = 0
    BY <1>4, Zenon DEF One
  <2> HIDE DEF pushes
  <2>3. Len(fifo) = Len(fifo) + One(pushes)
    BY <2>2, <1>1
  <2> QED
    BY <1>2, <1>4, <2>1, <2>3, Zenon DEF pushes
<1> QED
  BY <1>3, <1>4

-----------------------------------------------------------------------------
(* The k-th word from the one in which half word h lies, and its entry. *)
Place(h, k) == (h \div 2 + k) % NWords

Entry(h, k) == [word |-> Place(h, k), old |-> FALSE]

(***************************************************************************)
(* The inductive invariant behind Consecutive.  The first d outstanding    *)
(* requests are discarded and no other; the FIFO, the other outstanding    *)
(* requests and the request that waits for its grant hold one word after   *)
(* the other, from the output address on and read after the last branch. A *)
(* request that waits and is to be discarded has only discarded ones       *)
(* before it: without this the discarded requests would not come first     *)
(* after its grant.                                                        *)
(***************************************************************************)
Follows(d) ==
    LET next == Len(fifo) + Len(pending) - d
    IN  /\ \A i \in 1..Len(pending) : branch_discard_q[i] = (i <= d)
        /\ \A i \in 1..Len(fifo) : fifo[i] = Entry(instr_addr_q, i - 1)
        /\ \A i \in (d + 1)..Len(pending) :
               pending[i] = Entry(instr_addr_q, Len(fifo) + i - d - 1)
        /\ valid_req_q /\ discard_req_q => d = Len(pending)
        /\ IF valid_req_q /\ ~discard_req_q
           THEN /\ stored_addr_q = Place(instr_addr_q, next)
                /\ fetch_addr_q = Place(instr_addr_q, next + 1)
           ELSE fetch_addr_q = Place(instr_addr_q, next)

Followed == \E d \in 0..Len(pending) : Follows(d)

(* Places wrap with the memory, and shift with the output address. *)
LEMMA PlaceFacts ==
    ASSUME NEW h \in HalfAddr
    PROVE  /\ Place(h, 0) = h \div 2
           /\ \A k \in Nat : Place(h, k) \in Words
           /\ \A k \in Nat : (Place(h, k) + 1) % NWords = Place(h, k + 1)
<1>1. h \div 2 \in Words /\ h \div 2 \in Nat
  BY Wraps
<1>2. NWords \in Nat /\ NWords > 0
  BY PrefetchAssumption
<1>3. (h \div 2) < NWords /\ (h \div 2) + 0 = h \div 2 /\ (h \div 2) < 2 * NWords
  BY <1>1, <1>2 DEF Words
<1>4. Place(h, 0) = h \div 2
  BY <1>1, <1>2, <1>3, SmallMod DEF Place
<1>5. ASSUME NEW k \in Nat
      PROVE  Place(h, k) \in Words /\ (Place(h, k) + 1) % NWords = Place(h, k + 1)
  <2>1. (h \div 2) + k \in Nat
    BY <1>1
  <2>2. ((((h \div 2) + k) % NWords) + 1) % NWords = ((h \div 2) + k + 1) % NWords
    BY <2>1, ModAdd
  <2>3. (h \div 2) + k + 1 = (h \div 2) + (k + 1)
    BY <1>1
  <2> QED
    BY <2>1, <2>2, <2>3, Wraps DEF Place
<1> QED
  BY <1>4, <1>5

LEMMA PlaceShift ==
    ASSUME NEW h \in HalfAddr, NEW g \in HalfAddr, NEW p \in 0..1,
           g \div 2 = (h \div 2 + p) % NWords, NEW k \in Nat
    PROVE  Place(g, k) = Place(h, k + p)
<1>1. h \div 2 \in Nat /\ p \in Nat /\ h \div 2 + p \in Nat
  BY Wraps
<1>2. (((h \div 2 + p) % NWords) + k) % NWords = (h \div 2 + p + k) % NWords
  BY <1>1, ModAdd
<1>3. h \div 2 + p + k = h \div 2 + (k + p)
  BY <1>1
<1> QED
  BY <1>2, <1>3 DEF Place

(* The two queues after a cycle, in terms of the queues before it. *)
QueueLengths(gnt, rvalid) ==
    /\ Len(pending) \in Nat /\ Len(pending') \in Nat
    /\ One(rvalid) \in 0..1
    /\ One(rvalid) <= Len(pending)
    /\ gnt => Len(pending') = Len(pending) + 1 - One(rvalid)
    /\ ~gnt => Len(pending') = Len(pending) - One(rvalid)

QueueElements(branch, target, gnt, rvalid) ==
    \A i \in 1..Len(pending') :
       /\ i + One(rvalid) <= Len(pending) =>
             /\ branch_discard_q'[i] = (\/ branch_discard_q[i + One(rvalid)]
                                        \/ branch
                                        \/ (gnt /\ discard_req_d(branch)))
             /\ pending'[i] = [word |-> pending[i + One(rvalid)].word,
                               old  |-> pending[i + One(rvalid)].old \/ branch]
       /\ ~(i + One(rvalid) <= Len(pending)) =>
             /\ branch_discard_q'[i] = (gnt /\ discard_req_d(branch))
             /\ pending'[i] = [word |-> instr_addr(branch, target),
                               old  |-> valid_req_q /\ branch]

LEMMA QueuesAfter ==
    ASSUME TypeOK, Room, NEW req \in BOOLEAN, NEW branch \in BOOLEAN,
           NEW target \in HalfAddr, NEW ready \in BOOLEAN, NEW gnt \in BOOLEAN,
           NEW rvalid \in BOOLEAN, Cycle(req, branch, target, ready, gnt, rvalid)
    PROVE  /\ QueueLengths(gnt, rvalid)
           /\ QueueElements(branch, target, gnt, rvalid)
<1> DEFINE joins == gnt /\ discard_req_d(branch)
           r     == One(rvalid)
           addr  == instr_addr(branch, target)
<1>1. (gnt => valid_req(req, branch)) /\ (rvalid => pending # <<>>)
  BY Zenon DEF Cycle
<1>2. addr \in Words
  BY Wraps DEF TypeOK, instr_addr
<1>3. /\ branch_discard_q' = Outstanding(req, branch, gnt, rvalid)
      /\ pending' = Bus(branch, gnt, rvalid, addr)
  BY Zenon DEF Cycle
<1>4. /\ pending \in Seq(Entries) /\ Len(pending) \in Nat
      /\ rvalid => Len(pending) > 0
  BY <1>1, LenProperties, EmptySeq DEF TypeOK
<1>5. /\ pending' \in Seq(Entries)
      /\ Len(pending') = Len(pending) + One(gnt) - r
  BY <1>1, <1>2, <1>3, BusLength, Zenon
<1>6. Len(pending') \in Nat
  BY <1>5, LenProperties
<1>7. ASSUME NEW i \in 1..Len(pending')
      PROVE  /\ i + r <= Len(pending) =>
                 /\ branch_discard_q'[i] = (branch_discard_q[i + r] \/ branch \/ joins)
                 /\ pending'[i] = [word |-> pending[i + r].word,
                                   old  |-> pending[i + r].old \/ branch]
             /\ ~(i + r <= Len(pending)) =>
                 /\ branch_discard_q'[i] = joins
                 /\ pending'[i] = [word |-> addr, old |-> valid_req_q /\ branch]
  <2>1. i \in 1..(Len(pending) + One(gnt) - r)
    BY <1>5
  <2>2. LET now == Outstanding(req, branch, gnt, rvalid)[i]
        IN  /\ i + r <= Len(pending) =>
                   now = (branch_discard_q[i + r] \/ branch \/ joins)
            /\ ~(i + r <= Len(pending)) => now = joins
    BY <2>1, <1>1, OutstandingElements
  <2>3. LET now == Bus(branch, gnt, rvalid, addr)[i]
        IN  /\ i + r <= Len(pending) =>
                   now = [word |-> pending[i + r].word,
                          old  |-> pending[i + r].old \/ branch]
            /\ ~(i + r <= Len(pending)) =>
                   now = [word |-> addr, old |-> valid_req_q /\ branch]
    BY <2>1, <1>1, <1>2, BusElements
  <2> HIDE DEF r, joins, addr
  <2> QED
    BY <1>3, <2>2, <2>3, Zenon
<1>8. QueueLengths(gnt, rvalid)
  <2>1. /\ r \in 0..1 /\ (rvalid => r = 1) /\ (~rvalid => r = 0)
        /\ (gnt => One(gnt) = 1) /\ (~gnt => One(gnt) = 0)
    BY OneValue
  <2> HIDE DEF r
  <2>2. r <= Len(pending)
    BY <2>1, <1>4
  <2> QED
    BY <2>1, <2>2, <1>4, <1>5, <1>6 DEF QueueLengths, r
<1>9. QueueElements(branch, target, gnt, rvalid)
  BY <1>7, Zenon DEF QueueElements
<1> QED
  BY <1>8, <1>9

(***************************************************************************)
(* When no branch comes, the FIFO's output moves by p words, p being 0 or  *)
(* 1, and the FIFO drops as many.                                          *)
(***************************************************************************)
LEMMA FifoAfter ==
    ASSUME TypeOK, Room, NEW req \in BOOLEAN, NEW ready \in BOOLEAN, NEW gnt \in BOOLEAN,
           NEW rvalid \in BOOLEAN, Cycle(req, FALSE, 0, ready, gnt, rvalid)
    PROVE  \E p \in 0..1 :
               /\ instr_addr_q' \div 2 = (instr_addr_q \div 2 + p) % NWords
               /\ p <= Len(Pushed(rvalid))
               /\ Len(fifo') = Len(Pushed(rvalid)) - p
               /\ \A i \in 1..Len(fifo') : fifo'[i] = Pushed(rvalid)[i + p]
<1> DEFINE words == Pushed(rvalid)
           takes == ready /\ out_valid(words)
           w     == instr_addr_q \div 2
<1>1. rvalid => pending # <<>>
  BY Zenon DEF Cycle
<1>2. words \in Seq(Entries) /\ Len(words) \in Nat
  BY <1>1, PushedLength
<1>3. fifo' = IF takes /\ pop_fifo(words) THEN Tail(words) ELSE words
  BY DEF Cycle
<1>4. instr_addr_q' = IF takes THEN instr_addr_next(words) ELSE instr_addr_q
  BY DEF Cycle
<1>5. instr_addr_q \in HalfAddr
  BY DEF TypeOK
<1>6. w = (w + 0) % NWords
  <2>1. w = Place(instr_addr_q, 0)
    BY <1>5, PlaceFacts
  <2> QED
    BY <2>1 DEF Place
<1>7. CASE takes /\ pop_fifo(words)
  <2>1. words # <<>>
    BY <1>7, Zenon DEF out_valid
  <2>2. /\ Len(Tail(words)) = Len(words) - 1
        /\ \A i \in 1..Len(Tail(words)) : Tail(words)[i] = words[i + 1]
    BY <1>2, <2>1, HeadTailProperties, Zenon
  <2>3. Len(words) > 0
    BY <1>2, <2>1, EmptySeq
  <2>4. instr_addr_q' \div 2 = (w + 1) % NWords
    <3>1. CASE is_compressed(words[1])
      <4>1. instr_addr_q % 2 = 1
        BY <3>1, <1>7 DEF pop_fifo, Unaligned
      <4>2. instr_addr_q' = Stream!Forward(instr_addr_q, 1)
        BY <3>1, <1>4, <1>7 DEF instr_addr_next
      <4> QED
        BY <4>1, <4>2, <1>5, HalfForward
    <3>2. CASE ~is_compressed(words[1])
      <4>1. instr_addr_q' = Stream!Forward(instr_addr_q, 2)
        BY <3>2, <1>4, <1>7 DEF instr_addr_next
      <4> QED
        BY <4>1, <1>5, HalfForward
    <3> QED
      BY <3>1, <3>2
  <2>5. fifo' = Tail(words)
    BY <1>3, <1>7
  <2>6. 1 <= Len(words)
    BY <1>2, <2>3
  <2> HIDE DEF words, takes, w
  <2>7. 1 \in 0..1
    OBVIOUS
  <2> QED
    BY <2>2, <2>4, <2>5, <2>6, <2>7, Zenon DEF words, w
<1>8. CASE ~(takes /\ pop_fifo(words))
  <2>1. instr_addr_q' \div 2 = w
    <3>1. CASE takes
      <4>1. is_compressed(words[1]) /\ instr_addr_q % 2 # 1
        BY <3>1, <1>8 DEF pop_fifo, Unaligned
      <4>2. instr_addr_q' = Stream!Forward(instr_addr_q, 1)
        BY <3>1, <4>1, <1>4 DEF instr_addr_next
      <4> QED
        BY <4>1, <4>2, <1>5, HalfForward
    <3>2. CASE ~takes
      BY <3>2, <1>4
    <3> QED
      BY <3>1, <3>2
  <2>2. fifo' = words
    BY <1>3, <1>8
  <2> HIDE DEF words, takes
  <2>3. \A i \in 1..Len(fifo') : i + 0 = i
    BY <1>2, <2>2
  <2>4. 0 \in 0..1 /\ 0 <= Len(words) /\ Len(words) - 0 = Len(words)
    BY <1>2
  <2>5. \A i \in 1..Len(fifo') : fifo'[i] = words[i + 0]
    BY <2>2, <2>3
  <2>6. instr_addr_q' \div 2 = (w + 0) % NWords
    BY <2>1, <1>6
  <2>7. Len(fifo') = Len(words) - 0
    BY <2>2, <2>4
  <2> QED
    BY <2>4, <2>5, <2>6, <2>7, Zenon DEF words
<1> QED
  BY <1>7, <1>8

-----------------------------------------------------------------------------
(***************************************************************************)
(* A branch makes the invariant true, whatever was in the FIFO and on the  *)
(* bus: all of it is discarded, and the only word asked for is the         *)
(* target's.                                                               *)
(***************************************************************************)
LEMMA BranchFollows ==
    ASSUME TypeOK, Room, NEW req \in BOOLEAN, NEW target \in HalfAddr, NEW gnt \in BOOLEAN,
           NEW rvalid \in BOOLEAN, Cycle(req, TRUE, target, FALSE, gnt, rvalid)
    PROVE  Followed'
<1> DEFINE r   == One(rvalid)
           n   == Len(pending)
           m   == Len(pending')
<1>1. /\ valid_req_q \in BOOLEAN /\ valid_new_req(req, TRUE) \in BOOLEAN
      /\ discard_req_d(TRUE) = valid_req_q
  BY DEF TypeOK, valid_new_req, discard_req_d
<1>2. QueueLengths(gnt, rvalid) /\ QueueElements(TRUE, target, gnt, rvalid)
  BY QueuesAfter
<1>3. /\ gnt => valid_req_q \/ valid_new_req(req, TRUE)
      /\ n \in Nat /\ m \in Nat /\ r \in 0..1 /\ r <= n
      /\ gnt => m = n + 1 - r
      /\ ~gnt => m = n - r
  BY <1>2, Zenon DEF QueueLengths, Cycle, valid_req
<1>4. \A i \in 1..m :
          /\ i + r <= n => branch_discard_q'[i] = TRUE
          /\ ~(i + r <= n) =>
                /\ branch_discard_q'[i] = (gnt /\ valid_req_q)
                /\ pending'[i] = [word |-> instr_addr(TRUE, target), old |-> valid_req_q]
  <2>1. (valid_req_q /\ TRUE) = valid_req_q
    BY <1>1
  <2>2. \A i \in 1..m :
          i + r <= n => branch_discard_q'[i] =
              (branch_discard_q[i + r] \/ TRUE \/ (gnt /\ discard_req_d(TRUE)))
    BY <1>2, Zenon DEF QueueElements
  <2>3. \A i \in 1..m :
          ~(i + r <= n) =>
                /\ branch_discard_q'[i] = (gnt /\ discard_req_d(TRUE))
                /\ pending'[i] = [word |-> instr_addr(TRUE, target),
                                  old |-> valid_req_q /\ TRUE]
    BY <1>2, Zenon DEF QueueElements
  <2> HIDE DEF r, n, m
  <2> QED
    BY <2>1, <2>2, <2>3, <1>1
<1> HIDE DEF r, n, m
<1>5. PICK e \in 0..m : /\ gnt /\ ~valid_req_q => e = m - 1
                        /\ ~(gnt /\ ~valid_req_q) => e = m
  <2>1. CASE gnt /\ ~valid_req_q
    <3>1. m - 1 \in 0..m
      BY <2>1, <1>3
    <3> QED
      BY <2>1, <3>1
  <2>2. CASE ~(gnt /\ ~valid_req_q)
    <3>1. m \in 0..m
      BY <1>3
    <3> QED
      BY <2>2, <3>1
  <2> QED
    BY <2>1, <2>2
<1>6. /\ fifo' = <<>> /\ instr_addr_q' = target
      /\ fetch_addr_q' = NextWord(target \div 2, valid_new_req(req, TRUE) /\ ~valid_req_q)
      /\ valid_req_q' = ((valid_req_q \/ valid_new_req(req, TRUE)) /\ ~gnt)
      /\ discard_req_q' = valid_req_q
  BY <1>1 DEF Cycle, valid_req
<1>7. valid_new_req(req, TRUE) /\ ~valid_req_q /\ ~gnt => stored_addr_q' = target \div 2
  BY DEF Cycle, instr_addr
<1>8. Len(fifo') = 0
  BY <1>6, EmptySeq
<1>9. /\ Place(target, 0) = target \div 2
      /\ Place(target, 1) = (Place(target, 0) + 1) % NWords
  BY PlaceFacts
<1>10. fetch_addr_q' = IF valid_new_req(req, TRUE) /\ ~valid_req_q
                      THEN Place(target, 1) ELSE Place(target, 0)
  BY <1>6, <1>9 DEF NextWord
<1>11. \A i \in 1..m : branch_discard_q'[i] = (i <= e)
  <2> SUFFICES ASSUME NEW i \in 1..m PROVE branch_discard_q'[i] = (i <= e)
    OBVIOUS
  <2>1. CASE i + r <= n
    <3>1. i <= e
      BY <1>5, <1>3, <2>1
    <3>2. branch_discard_q'[i] = TRUE
      BY <1>4, <2>1
    <3> QED
      BY <3>1, <3>2
  <2>2. CASE ~(i + r <= n)
    <3>1. gnt /\ i = m
      BY <1>3, <2>2
    <3>2. (i <= e) = valid_req_q
      <4>1. CASE valid_req_q
        <5>1. e = m
          BY <1>5, <4>1
        <5>2. i <= e
          BY <5>1, <3>1, <1>3
        <5>3. (i <= e) = TRUE
          BY <5>2
        <5> QED
          BY <5>3, <4>1, <1>1
      <4>2. CASE ~valid_req_q
        <5>1. e = m - 1
          BY <1>5, <4>2, <3>1
        <5>2. ~(i <= e)
          BY <5>1, <3>1, <1>3
        <5> QED
          BY <5>2, <4>2, <1>1
      <4> QED
        BY <4>1, <4>2
    <3>3. branch_discard_q'[i] = valid_req_q
      <4>1. (gnt /\ valid_req_q) = valid_req_q
        BY <3>1, <1>1
      <4> QED
        BY <1>4, <2>2, <4>1, Zenon
    <3> QED
      BY <3>2, <3>3
  <2> QED
    BY <2>1, <2>2
<1>12. \A i \in (e + 1)..m : pending'[i] = Entry(target, 0 + i - e - 1)
  <2> SUFFICES ASSUME NEW i \in (e + 1)..m
               PROVE  pending'[i] = Entry(target, 0 + i - e - 1)
    OBVIOUS
  <2>1. gnt /\ ~valid_req_q /\ i = m /\ 0 + i - e - 1 = 0 /\ i \in 1..m
    BY <1>5, <1>3
  <2>2. ~(i + r <= n)
    BY <2>1, <1>5, <1>3
  <2>3. pending'[i] = [word |-> instr_addr(TRUE, target), old |-> valid_req_q]
    BY <2>1, <2>2, <1>4
  <2>4. instr_addr(TRUE, target) = Place(target, 0) /\ valid_req_q = FALSE
    BY <2>1, <1>1, <1>9 DEF instr_addr
  <2> QED
    BY <2>1, <2>3, <2>4 DEF Entry
<1>13. valid_req_q' /\ discard_req_q' => e = m
  BY <1>5, <1>6
<1>14. IF valid_req_q' /\ ~discard_req_q'
       THEN /\ stored_addr_q' = Place(target, 0 + m - e)
            /\ fetch_addr_q' = Place(target, 0 + m - e + 1)
       ELSE fetch_addr_q' = Place(target, 0 + m - e)
  <2>1. CASE gnt /\ ~valid_req_q
    <3>1. 0 + m - e = 1
      BY <2>1, <1>5, <1>3
    <3>2. ~valid_req_q' /\ fetch_addr_q' = Place(target, 1)
      BY <2>1, <1>3, <1>6, <1>10
    <3> QED
      BY <3>1, <3>2
  <2>2. CASE ~(gnt /\ ~valid_req_q)
    <3>1. 0 + m - e = 0 /\ 0 + m - e + 1 = 1
      BY <2>2, <1>5, <1>3
    <3>2. CASE valid_req_q' /\ ~discard_req_q'
      <4>1. ~valid_req_q /\ valid_new_req(req, TRUE) /\ ~gnt
        BY <3>2, <1>6
      <4> QED
        BY <4>1, <3>1, <3>2, <1>7, <1>9, <1>10
    <3>3. CASE ~(valid_req_q' /\ ~discard_req_q')
      <4>1. valid_req_q \/ ~valid_new_req(req, TRUE)
        BY <3>3, <2>2, <1>6
      <4> QED
        BY <4>1, <3>1, <3>3, <1>10
    <3> QED
      BY <3>2, <3>3
  <2> QED
    BY <2>1, <2>2
<1>15. \A i \in 1..Len(fifo') : fifo'[i] = Entry(target, i - 1)
  BY <1>8
<1>16. Follows(e)'
  BY <1>6, <1>8, <1>11, <1>12, <1>13, <1>14, <1>15 DEF Follows, m
<1> QED
  BY <1>5, <1>16 DEF Followed, m

(* The FIFO after a cycle without branch that took q words in and gave p. *)
FifoFollows(d, rvalid, p, q) ==
    /\ p \in 0..1 /\ q \in 0..1
    /\ d = 0 => q = One(rvalid)
    /\ d > 0 => q = 0
    /\ Len(fifo) + q - p \in Nat
    /\ Len(fifo') = Len(fifo) + q - p
    /\ instr_addr_q' \in HalfAddr
    /\ \A k \in Nat : Place(instr_addr_q', k) = Place(instr_addr_q, k + p)
    /\ \A i \in 1..Len(fifo') : fifo'[i] = Entry(instr_addr_q', i - 1)

-----------------------------------------------------------------------------
(***************************************************************************)
(* The FIFO with the word coming in continues the stream: a word comes in  *)
(* only when no discarded request is left, and then it is the first of the *)
(* others.                                                                 *)
(***************************************************************************)
LEMMA PushedFollows ==
    ASSUME TypeOK, Room, NEW rvalid \in BOOLEAN, rvalid => pending # <<>>,
           NEW d \in 0..Len(pending), Follows(d)
    PROVE  /\ d > 0 => Len(Pushed(rvalid)) = Len(fifo)
           /\ d = 0 => Len(Pushed(rvalid)) = Len(fifo) + One(rvalid)
           /\ \A i \in 1..Len(Pushed(rvalid)) :
                 Pushed(rvalid)[i] = Entry(instr_addr_q, i - 1)
<1> DEFINE words  == Pushed(rvalid)
           pushes == rvalid /\ ~branch_discard_q[1]
           n      == Len(fifo)
<1>1. n \in Nat /\ Len(pending) \in Nat /\ (rvalid => Len(pending) > 0)
  BY LenProperties, EmptySeq DEF TypeOK
<1>2. rvalid => branch_discard_q[1] = (1 <= d)
  <2>1. \A i \in 1..Len(pending) : branch_discard_q[i] = (i <= d)
    BY DEF Follows
  <2> QED
    BY <1>1, <2>1
<1>3. PICK q \in 0..1 : q = One(pushes)
  <2>1. (pushes => One(pushes) = 1) /\ (~pushes => One(pushes) = 0)
    BY Zenon DEF One
  <2> QED
    BY <2>1
<1>4. d = 0 => q = One(rvalid)
  <2> SUFFICES ASSUME d = 0 PROVE q = One(rvalid)
    OBVIOUS
  <2>1. ~(1 <= d)
    OBVIOUS
  <2>2. rvalid => ~branch_discard_q[1]
    BY <1>2, <2>1
  <2>3. pushes = rvalid
    BY <2>2
  <2> QED
    BY <2>3, <1>3
<1>5. d > 0 => q = 0
  BY <1>2, <1>3 DEF One
<1>6. /\ Len(words) = n + q
      /\ \A i \in 1..n : words[i] = fifo[i]
      /\ pushes => words[n + 1] = pending[1]
  BY <1>3, PushedElements
<1>7. \A i \in 1..(n + q) : words[i] = Entry(instr_addr_q, i - 1)
  <2> SUFFICES ASSUME NEW i \in 1..(n + q)
               PROVE  words[i] = Entry(instr_addr_q, i - 1)
    OBVIOUS
  <2>1. CASE i <= n
    <3>1. \A j \in 1..n : fifo[j] = Entry(instr_addr_q, j - 1)
      BY DEF Follows
    <3> HIDE DEF words, pushes
    <3> QED
      BY <2>1, <3>1, <1>1, <1>6
  <2>2. CASE ~(i <= n)
    <3>1. i = n + 1 /\ q = 1
      BY <2>2, <1>1, <1>3
    <3>2. pushes /\ rvalid
      BY <3>1, <1>3 DEF One
    <3>3. d = 0
      BY <3>1, <1>5
    <3>4. \A j \in (d + 1)..Len(pending) :
              pending[j] = Entry(instr_addr_q, n + j - d - 1)
      BY DEF Follows
    <3>5. 1 \in (d + 1)..Len(pending) /\ n + 1 - d - 1 = i - 1
      BY <3>1, <3>2, <3>3, <1>1
    <3>6. pending[1] = Entry(instr_addr_q, i - 1)
      BY <3>4, <3>5
    <3> HIDE DEF words
    <3> QED
      BY <3>1, <3>2, <3>6, <1>6
  <2> QED
    BY <2>1, <2>2
<1> HIDE DEF words, pushes
<1>8. Len(words) \in Nat /\ (d > 0 => Len(words) = n) /\ (d = 0 => Len(words) = n + One(rvalid))
  BY <1>1, <1>4, <1>5, <1>6
<1> QED
  BY <1>6, <1>7, <1>8 DEF words

LEMMA FetchFifo ==
    ASSUME TypeOK, Room, TypeOK', NEW req \in BOOLEAN, NEW ready \in BOOLEAN,
           NEW gnt \in BOOLEAN, NEW rvalid \in BOOLEAN,
           Cycle(req, FALSE, 0, ready, gnt, rvalid),
           NEW d \in 0..Len(pending), Follows(d)
    PROVE  \E p, q \in 0..1 : FifoFollows(d, rvalid, p, q)
<1> DEFINE words  == Pushed(rvalid)
           n      == Len(fifo)
<1>1. rvalid => pending # <<>>
  BY Zenon DEF Cycle
<1>2. n \in Nat /\ Len(words) \in Nat
  BY <1>1, PushedLength, LenProperties DEF TypeOK
<1>3. /\ d > 0 => Len(words) = n
      /\ d = 0 => Len(words) = n + One(rvalid)
      /\ \A i \in 1..Len(words) : words[i] = Entry(instr_addr_q, i - 1)
  BY <1>1, PushedFollows
<1> HIDE DEF words, n
<1>4. PICK q \in 0..1 : /\ Len(words) = n + q
                        /\ d = 0 => q = One(rvalid)
                        /\ d > 0 => q = 0
  <2>1. One(rvalid) \in 0..1
    BY OneValue
  <2>2. CASE d = 0
    BY <1>3, <2>1, <2>2
  <2>3. CASE d > 0
    <3>1. Len(words) = n + 0
      BY <1>2, <1>3, <2>3
    <3> QED
      BY <2>3, <3>1
  <2> QED
    BY <2>2, <2>3
<1>5. instr_addr_q \in HalfAddr /\ instr_addr_q' \in HalfAddr
  BY DEF TypeOK
<1>6. PICK p \in 0..1 :
          /\ instr_addr_q' \div 2 = (instr_addr_q \div 2 + p) % NWords
          /\ p <= Len(words)
          /\ Len(fifo') = Len(words) - p
          /\ \A i \in 1..Len(fifo') : fifo'[i] = words[i + p]
  BY FifoAfter DEF words
<1>7. \A k \in Nat : Place(instr_addr_q', k) = Place(instr_addr_q, k + p)
  <2> SUFFICES ASSUME NEW k \in Nat
               PROVE  Place(instr_addr_q', k) = Place(instr_addr_q, k + p)
    OBVIOUS
  <2> QED
    BY <1>5, <1>6, PlaceShift, Zenon
<1>8. n + q - p \in Nat /\ Len(fifo') = n + q - p
  BY <1>2, <1>4, <1>6
<1>9. ASSUME NEW i \in 1..Len(fifo')
       PROVE  fifo'[i] = Entry(instr_addr_q', i - 1)
  <2>1. i + p \in 1..(n + q) /\ i - 1 \in Nat /\ i + p - 1 = i - 1 + p
    BY <1>2, <1>8
  <2>2. fifo'[i] = words[i + p]
    BY <1>6
  <2>3. words[i + p] = Entry(instr_addr_q, i - 1 + p)
    BY <2>1, <1>3, <1>4
  <2>4. Place(instr_addr_q', i - 1) = Place(instr_addr_q, i - 1 + p)
    BY <2>1, <1>7
  <2> QED
    BY <2>2, <2>3, <2>4 DEF Entry
<1>10. FifoFollows(d, rvalid, p, q)
  BY <1>4, <1>5, <1>7, <1>8, <1>9 DEF FifoFollows, n
<1> QED
  BY <1>10

-----------------------------------------------------------------------------
(***************************************************************************)
(* A cycle without branch preserves the invariant.  With the grant of a    *)
(* request that is to be discarded everything outstanding is discarded;    *)
(* otherwise e, the discarded ones left, are as many as before without the *)
(* one answered.                                                           *)
(***************************************************************************)
LEMMA FetchFollows ==
    ASSUME TypeOK, Room, TypeOK', NEW req \in BOOLEAN, NEW ready \in BOOLEAN,
           NEW gnt \in BOOLEAN, NEW rvalid \in BOOLEAN,
           Cycle(req, FALSE, 0, ready, gnt, rvalid), Followed
    PROVE  Followed'
<1> DEFINE r   == One(rvalid)
           n   == Len(fifo)
           l   == Len(pending)
           m   == Len(pending')
           new == valid_new_req(req, FALSE)
<1>1. PICK d \in 0..l : Follows(d)
  BY DEF Followed
<1>2. PICK p \in 0..1, q \in 0..1 : FifoFollows(d, rvalid, p, q)
  BY <1>1, FetchFifo
<1>3. QueueLengths(gnt, rvalid) /\ QueueElements(FALSE, 0, gnt, rvalid)
  <2>1. 0 \in HalfAddr
    BY PrefetchAssumption DEF HalfAddr, Stream!HalfAddr
  <2> QED
    BY <2>1, QueuesAfter
<1>4. /\ valid_req_q \in BOOLEAN /\ discard_req_q \in BOOLEAN /\ new \in BOOLEAN
      /\ instr_addr_q \in HalfAddr
  BY DEF TypeOK, valid_new_req
<1>5. /\ gnt => valid_req_q \/ new
      /\ fetch_addr_q' = NextWord(fetch_addr_q, new /\ ~valid_req_q)
      /\ new /\ ~valid_req_q /\ ~gnt => stored_addr_q' = fetch_addr_q
      /\ ~(new /\ ~valid_req_q) => stored_addr_q' = stored_addr_q
      /\ valid_req_q' = ((valid_req_q \/ new) /\ ~gnt)
      /\ discard_req_q' = (valid_req_q /\ discard_req_q)
      /\ discard_req_d(FALSE) = (valid_req_q /\ discard_req_q)
  BY <1>4 DEF Cycle, valid_req, instr_addr, discard_req_d
<1>6. /\ n \in Nat /\ l \in Nat /\ m \in Nat /\ r \in 0..1 /\ r <= l
      /\ gnt => m = l + 1 - r
      /\ ~gnt => m = l - r
  BY <1>3, LenProperties DEF QueueLengths, TypeOK
<1>7. /\ d = 0 => q = r
      /\ d > 0 => q = 0
      /\ n + q - p \in Nat /\ Len(fifo') = n + q - p
      /\ instr_addr_q' \in HalfAddr
      /\ \A i \in 1..Len(fifo') : fifo'[i] = Entry(instr_addr_q', i - 1)
  BY <1>2 DEF FifoFollows
<1>8. \A k \in Nat : Place(instr_addr_q', k) = Place(instr_addr_q, k + p)
  BY <1>2 DEF FifoFollows
<1>9. /\ \A i \in 1..l : branch_discard_q[i] = (i <= d)
      /\ \A i \in (d + 1)..l : pending[i] = Entry(instr_addr_q, n + i - d - 1)
      /\ valid_req_q /\ discard_req_q => d = l
      /\ valid_req_q /\ ~discard_req_q =>
           /\ stored_addr_q = Place(instr_addr_q, n + l - d)
           /\ fetch_addr_q = Place(instr_addr_q, n + l - d + 1)
      /\ ~(valid_req_q /\ ~discard_req_q) =>
           fetch_addr_q = Place(instr_addr_q, n + l - d)
  BY <1>1 DEF Follows
<1> HIDE DEF r, n, l, m, new
<1>10. ASSUME NEW e \in 0..m,
              \A i \in 1..m : branch_discard_q'[i] = (i <= e),
              \A i \in (e + 1)..m :
                  pending'[i] = Entry(instr_addr_q', Len(fifo') + i - e - 1),
              valid_req_q' /\ discard_req_q' => e = m,
              IF valid_req_q' /\ ~discard_req_q'
              THEN /\ stored_addr_q' = Place(instr_addr_q', Len(fifo') + m - e)
                   /\ fetch_addr_q' = Place(instr_addr_q', Len(fifo') + m - e + 1)
              ELSE fetch_addr_q' = Place(instr_addr_q', Len(fifo') + m - e)
       PROVE  Followed'
  <2>1. Follows(e)'
    BY <1>7, <1>10 DEF Follows, m
  <2> QED
    BY <2>1, <1>10 DEF Followed, m
<1>11. \A i \in 1..m :
          /\ i + r <= l =>
                /\ branch_discard_q'[i] = (branch_discard_q[i + r] \/ FALSE
                                             \/ (gnt /\ discard_req_d(FALSE)))
                /\ pending'[i] = [word |-> pending[i + r].word,
                                  old  |-> pending[i + r].old \/ FALSE]
          /\ ~(i + r <= l) =>
                /\ branch_discard_q'[i] = (gnt /\ discard_req_d(FALSE))
                /\ pending'[i] = [word |-> instr_addr(FALSE, 0),
                                  old  |-> valid_req_q /\ FALSE]
  BY <1>3, Zenon DEF QueueElements, r, l, m
<1>12. CASE gnt /\ valid_req_q /\ discard_req_q
  <2>1. d = l /\ (r = 1 => d > 0)
    BY <1>6, <1>9, <1>12
  <2>2. q = 0
    BY <2>1, <1>6, <1>7
  <2>3. \A i \in 1..m : branch_discard_q'[i] = (i <= m)
    <3> SUFFICES ASSUME NEW i \in 1..m PROVE branch_discard_q'[i] = (i <= m)
      OBVIOUS
    <3>1. (i <= m) = TRUE
      BY <1>6
    <3>2. (gnt /\ discard_req_d(FALSE)) = TRUE
      BY <1>5, <1>12
    <3>3. branch_discard_q'[i] = TRUE
      BY <3>2, <1>11
    <3> QED
      BY <3>1, <3>3
  <2>4. ~valid_req_q' /\ ~(new /\ ~valid_req_q)
    BY <1>5, <1>12
  <2>5. fetch_addr_q' = Place(instr_addr_q', Len(fifo') + m - m)
    <3>1. fetch_addr_q' = fetch_addr_q
      BY <2>4, <1>5 DEF NextWord
    <3>2. fetch_addr_q = Place(instr_addr_q, n + l - d)
      BY <1>9, <1>12
    <3>3. Len(fifo') + m - m \in Nat /\ Len(fifo') + m - m + p = n + l - d
      BY <2>1, <2>2, <1>6, <1>7
    <3> QED
      BY <3>1, <3>2, <3>3, <1>8
  <2>6. m \in 0..m /\ (m + 1)..m = {}
    BY <1>6
  <2> QED
    BY <2>3, <2>4, <2>5, <2>6, <1>10
<1>13. CASE ~(gnt /\ valid_req_q /\ discard_req_q)
  <2>1. (gnt /\ discard_req_d(FALSE)) = FALSE
    BY <1>5, <1>13
  <2>2. PICK e \in 0..l : e = d - r + q
    <3>1. d - r + q \in 0..l
      BY <1>6, <1>7
    <3> QED
      BY <3>1
  <2>3. e \in 0..m
    <3>1. CASE gnt
      BY <3>1, <2>2, <1>6, <1>7
    <3>2. CASE ~gnt
      BY <3>2, <2>2, <1>6, <1>7
    <3> QED
      BY <3>1, <3>2
  <2>4. ASSUME NEW i \in 1..m, i + r <= l
        PROVE  branch_discard_q'[i] = (i <= e)
    <3>1. i + r \in 1..l
      BY <2>4, <1>6
    <3>2. branch_discard_q'[i] = (branch_discard_q[i + r] \/ FALSE)
      BY <2>1, <2>4, <1>11
    <3>3. branch_discard_q[i + r] = (i + r <= d)
      BY <3>1, <1>9
    <3>4. (i + r <= d) <=> (i <= e)
      BY <3>1, <2>2, <1>6, <1>7
    <3>5. CASE i <= e
      <4>1. (i <= e) = TRUE /\ (i + r <= d) = TRUE
        BY <3>4, <3>5
      <4> QED
        BY <3>2, <3>3, <4>1
    <3>6. CASE ~(i <= e)
      <4>1. (i <= e) = FALSE /\ (i + r <= d) = FALSE
        BY <3>4, <3>6
      <4> QED
        BY <3>2, <3>3, <4>1
    <3> QED
      BY <3>5, <3>6
  <2>5. ASSUME NEW i \in 1..m, ~(i + r <= l)
        PROVE  gnt /\ i = m /\ (i <= e) = FALSE /\ branch_discard_q'[i] = FALSE
               /\ pending'[i] = [word |-> instr_addr(FALSE, 0), old |-> FALSE]
    <3>1. gnt /\ i = m
      BY <2>5, <1>6
    <3>2. (i <= e) = FALSE
      BY <3>1, <2>2, <1>6, <1>7
    <3>3. (valid_req_q /\ FALSE) = FALSE
      BY <1>4
    <3> QED
      BY <3>1, <3>2, <3>3, <2>1, <2>5, <1>11
  <2>6. ASSUME NEW i \in 1..m PROVE branch_discard_q'[i] = (i <= e)
    <3>1. CASE i + r <= l
      BY <2>4, <3>1
    <3>2. CASE ~(i + r <= l)
      <4>1. (i <= e) = FALSE /\ branch_discard_q'[i] = FALSE
        BY <2>5, <3>2
      <4> QED
        BY <4>1
    <3> QED
      BY <3>1, <3>2
  <2>7. \A i \in (e + 1)..m :
            pending'[i] = Entry(instr_addr_q', Len(fifo') + i - e - 1)
    <3> SUFFICES ASSUME NEW i \in (e + 1)..m
                 PROVE  pending'[i] = Entry(instr_addr_q', Len(fifo') + i - e - 1)
      OBVIOUS
    <3>1. i \in 1..m /\ Len(fifo') + i - e - 1 \in Nat
      BY <2>2, <1>7
    <3>2. Len(fifo') + i - e - 1 + p = n + (i + r) - d - 1
      BY <2>2, <1>6, <1>7
    <3>3. Place(instr_addr_q', Len(fifo') + i - e - 1)
            = Place(instr_addr_q, n + (i + r) - d - 1)
      BY <3>1, <3>2, <1>8
    <3>4. CASE i + r <= l
      <4>1. i + r \in (d + 1)..l
        BY <3>1, <3>4, <2>2, <1>6, <1>7
      <4>2. pending[i + r] = Entry(instr_addr_q, n + (i + r) - d - 1)
        BY <4>1, <1>9
      <4>3. pending'[i] = [word |-> pending[i + r].word,
                           old  |-> pending[i + r].old \/ FALSE]
        BY <3>1, <3>4, <1>11
      <4>4. /\ pending[i + r].word = Place(instr_addr_q, n + (i + r) - d - 1)
            /\ (pending[i + r].old \/ FALSE) = FALSE
        BY <4>2 DEF Entry
      <4> QED
        BY <4>3, <4>4, <3>3 DEF Entry
    <3>5. CASE ~(i + r <= l)
      <4>1. /\ gnt /\ i = m
            /\ pending'[i] = [word |-> instr_addr(FALSE, 0), old |-> FALSE]
        BY <3>1, <3>5, <2>5
      <4>2. n + (i + r) - d - 1 = n + l - d
        BY <4>1, <1>6
      <4>3. instr_addr(FALSE, 0) = Place(instr_addr_q, n + l - d)
        <5>1. CASE valid_req_q
          BY <5>1, <4>1, <1>9, <1>13 DEF instr_addr
        <5>2. CASE ~valid_req_q
          BY <5>2, <1>9 DEF instr_addr
        <5> QED
          BY <5>1, <5>2
      <4> QED
        BY <4>1, <4>2, <4>3, <3>3 DEF Entry
    <3> QED
      BY <3>4, <3>5
  <2>8. valid_req_q' /\ discard_req_q' => e = m
    <3> SUFFICES ASSUME valid_req_q', discard_req_q' PROVE e = m
      OBVIOUS
    <3>1. ~gnt /\ d = l
      BY <1>5, <1>9
    <3>2. q = 0
      BY <3>1, <1>6, <1>7
    <3> QED
      BY <3>1, <3>2, <2>2, <1>6
  <2>9. \A k \in Nat : (Place(instr_addr_q, k) + 1) % NWords = Place(instr_addr_q, k + 1)
    BY <1>4, PlaceFacts
  <2>10. /\ n + l - d \in Nat /\ Len(fifo') + m - e \in Nat
         /\ Len(fifo') + m - e + 1 \in Nat
    BY <2>3, <1>6, <1>7
  <2>11. /\ gnt => Len(fifo') + m - e + p = n + l - d + 1
         /\ ~gnt => Len(fifo') + m - e + p = n + l - d
         /\ ~gnt => Len(fifo') + m - e + 1 + p = n + l - d + 1
    BY <2>2, <1>6, <1>7
  <2>12. /\ gnt => Place(instr_addr_q', Len(fifo') + m - e)
                     = Place(instr_addr_q, n + l - d + 1)
         /\ ~gnt => Place(instr_addr_q', Len(fifo') + m - e)
                     = Place(instr_addr_q, n + l - d)
         /\ ~gnt => Place(instr_addr_q', Len(fifo') + m - e + 1)
                     = Place(instr_addr_q, n + l - d + 1)
    BY <2>10, <2>11, <1>8
  <2>13. CASE valid_req_q
    <3>1. fetch_addr_q' = fetch_addr_q /\ stored_addr_q' = stored_addr_q
      BY <2>13, <1>5 DEF NextWord
    <3>2. valid_req_q' = ~gnt /\ discard_req_q' = discard_req_q
      BY <2>13, <1>4, <1>5
    <3>3. CASE gnt
      BY <3>1, <3>2, <3>3, <2>3, <2>6, <2>7, <2>8, <2>12, <2>13, <1>9, <1>10, <1>13
    <3>4. CASE ~gnt
      BY <3>1, <3>2, <3>4, <2>3, <2>6, <2>7, <2>8, <2>12, <2>13, <1>9, <1>10
    <3> QED
      BY <3>3, <3>4
  <2>14. CASE ~valid_req_q /\ new
    <3>1. fetch_addr_q = Place(instr_addr_q, n + l - d)
      BY <2>14, <1>9
    <3>2. fetch_addr_q' = Place(instr_addr_q, n + l - d + 1)
      BY <3>1, <2>9, <2>10, <2>14, <1>5 DEF NextWord
    <3>3. valid_req_q' = ~gnt /\ discard_req_q' = FALSE
      BY <2>14, <1>4, <1>5
    <3>4. ~gnt => stored_addr_q' = fetch_addr_q
      BY <2>14, <1>5
    <3>5. CASE gnt
      BY <3>2, <3>3, <3>5, <2>3, <2>6, <2>7, <2>8, <2>12, <1>10
    <3>6. CASE ~gnt
      BY <3>1, <3>2, <3>3, <3>4, <3>6, <2>3, <2>6, <2>7, <2>8, <2>12, <1>10
    <3> QED
      BY <3>5, <3>6
  <2>15. CASE ~valid_req_q /\ ~new
    <3>1. ~gnt /\ ~valid_req_q' /\ fetch_addr_q' = fetch_addr_q
      BY <2>15, <1>5 DEF NextWord
    <3>2. fetch_addr_q = Place(instr_addr_q, n + l - d)
      BY <2>15, <1>9
    <3> QED
      BY <3>1, <3>2, <2>3, <2>6, <2>7, <2>8, <2>12, <1>10
  <2> QED
    BY <2>13, <2>14, <2>15
<1> QED
  BY <1>12, <1>13

-----------------------------------------------------------------------------
(***************************************************************************)
(* From the first branch on, the words fetched follow each other.          *)
(***************************************************************************)
StreamInv == TypeOK /\ Room /\ (booted => Followed)

LEMMA StreamInvariant == Safety => []StreamInv
<1>1. Init => StreamInv
  <2> SUFFICES ASSUME Init PROVE StreamInv
    OBVIOUS
  <2>1. TypeOK /\ Room
    BY InitRoom
  <2> QED
    BY <2>1 DEF Init, StreamInv
<1>2. StreamInv /\ [Next]_vars => StreamInv'
  <2> SUFFICES ASSUME StreamInv, [Next]_vars PROVE StreamInv'
    OBVIOUS
  <2>1. TypeOK' /\ Room'
    BY StepRoom DEF StreamInv
  <2>2. CASE Boot
    <3>1. PICK gnt \in BOOLEAN, target \in HalfAddr :
                Cycle(TRUE, TRUE, target, FALSE, gnt, FALSE)
      BY <2>2 DEF Boot
    <3> QED
      BY <2>1, <3>1, BranchFollows DEF StreamInv
  <2>3. CASE Branch
    <3>1. PICK req \in BOOLEAN, gnt \in BOOLEAN, rvalid \in BOOLEAN, target \in HalfAddr :
                Cycle(req, TRUE, target, FALSE, gnt, rvalid)
      BY <2>3 DEF Branch
    <3> QED
      BY <2>1, <3>1, BranchFollows DEF StreamInv
  <2>4. CASE Fetch
    <3>1. PICK req \in BOOLEAN, ready \in BOOLEAN, gnt \in BOOLEAN, rvalid \in BOOLEAN :
                Cycle(req, FALSE, 0, ready, gnt, rvalid)
      BY <2>4 DEF Fetch
    <3>2. Followed
      BY <2>4 DEF Fetch, StreamInv
    <3> QED
      BY <2>1, <3>1, <3>2, FetchFollows DEF StreamInv
  <2>5. CASE UNCHANGED vars
    BY <2>1, <2>5 DEF vars, StreamInv, Followed, Follows, Place, Entry
  <2> QED
    BY <2>2, <2>3, <2>4, <2>5 DEF Next
<1> QED
  BY <1>1, <1>2, PTL DEF Safety

(* The invariant says what Consecutive does, which counts the requests. *)
LEMMA FollowedIsConsecutive ==
    ASSUME TypeOK, Room, Followed
    PROVE  Consecutive
<1> DEFINE l == Len(pending)
           n == Len(fifo)
<1>1. l \in Nat /\ n \in Nat /\ instr_addr_q \div 2 \in Nat
  BY LenProperties, Wraps DEF TypeOK
<1>2. PICK d \in 0..l : Follows(d)
  BY DEF Followed
<1>3. Live = (d + 1)..l
  <2>1. \A i \in 1..l : branch_discard_q[i] = (i <= d)
    BY <1>2 DEF Follows
  <2>2. ASSUME NEW i \in 1..l PROVE ~branch_discard_q[i] <=> i \in (d + 1)..l
    <3>1. branch_discard_q[i] = (i <= d)
      BY <2>1
    <3>2. ~(i <= d) <=> i \in (d + 1)..l
      BY <1>1
    <3> QED
      BY <3>1, <3>2
  <2>3. (d + 1)..l \subseteq 1..l
    BY <1>1
  <2> QED
    BY <2>2, <2>3 DEF Live
<1>4. Cardinality(Live) = l - d
  <2>1. d + 1 \in Int /\ l \in Int
    BY <1>1
  <2>2. Cardinality((d + 1)..l) = IF d + 1 > l THEN 0 ELSE l - (d + 1) + 1
    BY <2>1, FS_Interval
  <2> QED
    BY <1>1, <1>3, <2>2
<1>5. Dead = d
  BY <1>1, <1>4 DEF Dead
<1>6. ASSUME NEW i \in 1..n
      PROVE  fifo[i].word = (instr_addr_q \div 2 + i - 1) % NWords
  <2>1. fifo[i] = Entry(instr_addr_q, i - 1)
    BY <1>2, <1>6 DEF Follows
  <2>2. fifo[i].word = (instr_addr_q \div 2 + (i - 1)) % NWords
    <3>1. fifo[i].word = Place(instr_addr_q, i - 1)
      BY <2>1 DEF Entry
    <3> QED
      BY <3>1 DEF Place
  <2>3. instr_addr_q \div 2 + (i - 1) = instr_addr_q \div 2 + i - 1
    BY <1>1, <1>6
  <2> QED
    BY <2>2, <2>3
<1>7. ASSUME NEW i \in Live
      PROVE  pending[i].word = (instr_addr_q \div 2 + n + i - Dead - 1) % NWords
  <2>1. pending[i].word = (instr_addr_q \div 2 + (n + i - d - 1)) % NWords
    <3>1. pending[i] = Entry(instr_addr_q, n + i - d - 1)
      BY <1>2, <1>3, <1>7 DEF Follows
    <3>2. pending[i].word = Place(instr_addr_q, n + i - d - 1)
      BY <3>1 DEF Entry
    <3> QED
      BY <3>2 DEF Place
  <2>2. instr_addr_q \div 2 + (n + i - d - 1) = instr_addr_q \div 2 + n + i - d - 1
    BY <1>1, <1>3, <1>7
  <2> QED
    BY <2>1, <2>2, <1>5
<1>8. LET m == n + Cardinality(Live)
      IN  IF valid_req_q /\ ~discard_req_q
          THEN /\ stored_addr_q = (instr_addr_q \div 2 + m) % NWords
               /\ fetch_addr_q = (instr_addr_q \div 2 + m + 1) % NWords
          ELSE fetch_addr_q = (instr_addr_q \div 2 + m) % NWords
  <2>1. n + Cardinality(Live) = n + l - d
    BY <1>1, <1>4
  <2>2. instr_addr_q \div 2 + (n + l - d) + 1 = instr_addr_q \div 2 + (n + l - d + 1)
    BY <1>1
  <2> QED
    BY <2>1, <2>2, <1>2 DEF Follows, Place
<1> QED
  BY <1>3, <1>5, <1>6, <1>7, <1>8 DEF Consecutive

(***************************************************************************)
(* The words in the FIFO, those to come and the one being requested are    *)
(* the words from the output address on, without gap or repetition,        *)
(* whatever branches come and however the bus grants and answers; and a    *)
(* word that is not discarded has room.                                    *)
(***************************************************************************)
THEOREM FetchesConsecutive == Safety => []BufferInv
<1>1. StreamInv => BufferInv
  BY FollowedIsConsecutive, RoomPushes DEF StreamInv, BufferInv, Consecutive
<1> QED
  BY <1>1, StreamInvariant, PTL

(* What the ID stage takes is the instruction at the output address. *)
LEMMA HeadIsInstruction ==
    ASSUME TypeOK, Room, TypeOK', NEW req \in BOOLEAN, NEW ready \in BOOLEAN,
           NEW gnt \in BOOLEAN, NEW rvalid \in BOOLEAN,
           Cycle(req, FALSE, 0, ready, gnt, rvalid), Followed
    PROVE  [Stream!Deliver]_(Stream!vars)
<1> DEFINE words == Pushed(rvalid)
           h     == instr_addr_q
<1>1. h \in HalfAddr
  BY DEF TypeOK
<1>2. CASE ready /\ out_valid(words)
  <2>1. PICK d \in 0..Len(pending) : Follows(d)
    BY DEF Followed
  <2>2. rvalid => pending # <<>>
    BY Zenon DEF Cycle
  <2>3. words \in Seq(Entries) /\ Len(words) \in Nat
    BY <2>2, PushedLength
  <2>4. \A i \in 1..Len(words) : words[i] = Entry(h, i - 1)
    BY <2>1, <2>2, PushedFollows
  <2>5. words # <<>> /\ (Unaligned /\ ~is_compressed(words[1]) => Len(words) >= 2)
    BY <1>2, Zenon DEF out_valid
  <2>6. Len(words) >= 1
    BY <2>3, <2>5, EmptySeq
  <2> HIDE DEF words
  <2>7. words[1].word = h \div 2 /\ words[1].old = FALSE
    <3>1. words[1] = Entry(h, 0)
      BY <2>3, <2>4, <2>6
    <3> QED
      BY <3>1, <1>1, PlaceFacts DEF Entry
  <2>8. is_compressed(words[1]) = Stream!Compressed(h)
    BY <2>7 DEF is_compressed, Failed, Stream!Compressed, Stream!Failed, Stream!WordOf
  <2>9. Unaligned /\ ~Stream!Compressed(h) =>
          words[2].word = Stream!LastWord(h) /\ words[2].old = FALSE
    <3> SUFFICES ASSUME Unaligned, ~Stream!Compressed(h)
                 PROVE  words[2].word = Stream!LastWord(h) /\ words[2].old = FALSE
      OBVIOUS
    <3>1. words[2] = Entry(h, 1)
      BY <2>3, <2>4, <2>5, <2>8
    <3>2. Stream!LastWord(h) = Place(h, 1)
      BY <1>1, HalfForward DEF Stream!LastWord, Stream!WordOf, Place, Unaligned
    <3> QED
      BY <3>1, <3>2 DEF Entry
  <2>10. ~(Unaligned /\ ~Stream!Compressed(h)) => Stream!LastWord(h) = h \div 2
    BY <1>1, HalfForward DEF Stream!LastWord, Stream!WordOf, Unaligned
  <2>11. out(words) = Stream!Instruction(h)
    <3>1. CASE Unaligned /\ ~Stream!Compressed(h)
      BY <2>7, <2>8, <2>9, <3>1
      DEF out, Stream!Instruction, Stream!WordOf, Failed, Stream!Failed
    <3>2. CASE ~(Unaligned /\ ~Stream!Compressed(h))
      BY <2>7, <2>8, <2>10, <3>2
      DEF out, Stream!Instruction, Stream!WordOf, Failed, Stream!Failed
    <3> QED
      BY <3>1, <3>2
  <2>12. instr_addr_q' = Stream!Forward(h, IF Stream!Compressed(h) THEN 1 ELSE 2)
    BY <1>2, <2>8 DEF Cycle, instr_addr_next, words
  <2>13. delivered' = out(words) /\ layout' = layout
    BY <1>2 DEF Cycle, words
  <2> QED
    BY <2>11, <2>12, <2>13 DEF Stream!Deliver
<1>3. CASE ~(ready /\ out_valid(words))
  BY <1>3 DEF Cycle, Stream!vars
<1> QED
  BY <1>2, <1>3

(***************************************************************************)
(* The prefetch buffer implements FetchStream: since the last branch it    *)
(* delivers every instruction once, in order, read after that branch and   *)
(* with the right error marks.                                             *)
(***************************************************************************)
THEOREM DeliversTheStream == Safety => InstructionStream
<1>1. Init => Stream!Init
  BY DEF Init, Stream!Init, HalfAddr
<1>2. StreamInv /\ StreamInv' /\ [Next]_vars => [Stream!Next]_(Stream!vars)
  <2> SUFFICES ASSUME StreamInv, StreamInv', [Next]_vars
               PROVE  [Stream!Next]_(Stream!vars)
    OBVIOUS
  <2>1. ASSUME NEW req \in BOOLEAN, NEW gnt \in BOOLEAN, NEW rvalid \in BOOLEAN,
               NEW target \in HalfAddr, Cycle(req, TRUE, target, FALSE, gnt, rvalid)
        PROVE  Stream!Branch
    <3>1. instr_addr_q' = target /\ UNCHANGED <<layout, delivered>>
      BY <2>1 DEF Cycle
    <3> QED
      BY <3>1 DEF Stream!Branch, HalfAddr
  <2>2. CASE Boot
    BY <2>1, <2>2 DEF Boot, Stream!Next
  <2>3. CASE Branch
    BY <2>1, <2>3 DEF Branch, Stream!Next
  <2>4. CASE Fetch
    <3>1. PICK req \in BOOLEAN, ready \in BOOLEAN, gnt \in BOOLEAN, rvalid \in BOOLEAN :
                Cycle(req, FALSE, 0, ready, gnt, rvalid)
      BY <2>4 DEF Fetch
    <3>2. TypeOK /\ Room /\ TypeOK' /\ Followed
      BY <2>4 DEF Fetch, StreamInv
    <3> QED
      BY <3>1, <3>2, HeadIsInstruction DEF Stream!Next
  <2>5. CASE UNCHANGED vars
    BY <2>5 DEF vars, Stream!vars
  <2> QED
    BY <2>2, <2>3, <2>4, <2>5 DEF Next
<1> QED
  BY <1>1, <1>2, StreamInvariant, PTL DEF Safety, InstructionStream, Stream!Spec
=============================================================================
