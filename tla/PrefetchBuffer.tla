-------------------------- MODULE PrefetchBuffer ---------------------------
(***************************************************************************)
(* The prefetch buffer (ibex_prefetch_buffer.sv) and its fetch FIFO        *)
(* (ibex_fetch_fifo.sv), between the instruction bus and the IF/ID         *)
(* register.  One step is one clock cycle.                                 *)
(*                                                                         *)
(* A fetched word is its address: what matters is which word an            *)
(* instruction is taken from, how long it is and whether the word failed.  *)
(* Requests and answers are known by word, the head of the FIFO and branch *)
(* targets by half word.  The FIFO's valid bits and the outstanding bits   *)
(* are always set from the bottom, and kept as lengths of sequences.       *)
(***************************************************************************)
EXTENDS Naturals, Sequences, FiniteSets

CONSTANTS
    NUM_REQS,    \* requests outstanding on the bus (2)
    NWords,      \* words of instruction memory; addresses wrap
    Layouts      \* layouts of the code: compressed half words, failing words

ASSUME PrefetchAssumption ==
    /\ NUM_REQS \in Nat \ {0, 1} /\ NWords \in Nat \ {0}
    /\ Layouts \subseteq [compressed : SUBSET (0..(2 * NWords - 1)),
                          failing : SUBSET (0..(NWords - 1))]

VARIABLES
    layout,          \* layout of the code (does not change)
    fifo,            \* rdata_q with its valid bits
    instr_addr_q,    \* address of the FIFO's output
    fetch_addr_q,    \* next word to fetch
    stored_addr_q,   \* word of the request waiting for its grant
    valid_req_q, discard_req_q,
    branch_discard_q,  \* for each outstanding request, whether it is discarded
    pending,         \* bus: granted requests to be answered
    booted,          \* the controller has left BOOT_SET
    delivered        \* IF/ID register: the last instruction taken

vars == <<layout, fifo, instr_addr_q, fetch_addr_q, stored_addr_q, valid_req_q,
          discard_req_q, branch_discard_q, pending, booted, delivered>>

DEPTH == NUM_REQS + 1

Stream == INSTANCE FetchStream WITH pc <- instr_addr_q

Words    == 0..(NWords - 1)
HalfAddr == Stream!HalfAddr
Failed(w) == w \in layout.failing

-----------------------------------------------------------------------------
(***************************************************************************)
(* The FIFO's output port: the FIFO followed by the word coming in, both   *)
(* as a sequence of entries.  An entry remembers whether the bus read the  *)
(* word before the last branch (old); the hardware does not know.          *)
(***************************************************************************)
Unaligned == instr_addr_q % 2 = 1

(* Mutant of is_compressed: a failed word's bits are trusted. *)
CompressedBits(entry) == instr_addr_q \in layout.compressed

is_compressed(entry) == instr_addr_q \in layout.compressed /\ ~Failed(entry.word)

(* An instruction that spans two words is valid when both are there. *)
out_valid(words) ==
    /\ words # <<>>
    /\ (Unaligned /\ ~is_compressed(words[1])) => Len(words) >= 2

out(words) ==
    LET spans == Unaligned /\ ~is_compressed(words[1])
        last  == IF spans THEN words[2] ELSE words[1]
    IN  [addr  |-> instr_addr_q,
         first |-> words[1].word,
         last  |-> last.word,
         err   |-> Failed(words[1].word) \/ Failed(last.word),
         plus2 |-> spans /\ Failed(last.word) /\ ~Failed(words[1].word),
         old   |-> words[1].old \/ last.old]

(* A compressed instruction in the lower half leaves its word in the FIFO. *)
pop_fifo(words) == ~is_compressed(words[1]) \/ Unaligned

instr_addr_next(words) ==
    Stream!Forward(instr_addr_q, IF is_compressed(words[1]) THEN 1 ELSE 2)

-----------------------------------------------------------------------------
(* Mutant of fifo_ready: the outstanding requests are not reversed. *)
OverlayNotReversed ==
    \E i \in 0..(NUM_REQS - 1) :
        Len(fifo) < i + 2 /\ Len(branch_discard_q) < i + 1

(***************************************************************************)
(* There is room for another request: the FIFO's fill state overlaid with  *)
(* the outstanding requests, entry by entry, has a gap.                    *)
(***************************************************************************)
fifo_ready ==
    \E i \in 0..(NUM_REQS - 1) :
        Len(fifo) < i + 2 /\ Len(branch_discard_q) < NUM_REQS - i

valid_new_req(req, branch) ==
    req /\ (fifo_ready \/ branch) /\ Len(branch_discard_q) < NUM_REQS

valid_req(req, branch) == valid_req_q \/ valid_new_req(req, branch)

(* Mutant of discard_req_d: the mark outlives its request. *)
DiscardStays(branch) == branch \/ discard_req_q

discard_req_d(branch) == valid_req_q /\ (branch \/ discard_req_q)

(* Mutant of instr_addr: the held request's address is not stable. *)
InstrAddrUnstable(branch, target) == IF branch THEN target \div 2 ELSE fetch_addr_q

instr_addr(branch, target) ==
    IF valid_req_q THEN stored_addr_q
    ELSE IF branch THEN target \div 2
    ELSE fetch_addr_q

(* A fetch in this cycle moves the next address on. *)
NextWord(w, moves) == IF moves THEN (w + 1) % NWords ELSE w

(***************************************************************************)
(* The queue of outstanding requests: a branch marks those already there,  *)
(* a granted request joins, an answered one leaves.                        *)
(***************************************************************************)
Outstanding(req, branch, gnt, rvalid) ==
    LET joins  == gnt /\ discard_req_d(branch)
        marked == [i \in 1..Len(branch_discard_q) |->
                      branch_discard_q[i] \/ branch \/ joins]
        joined == IF gnt /\ Len(marked) < NUM_REQS
                  THEN Append(marked, joins) ELSE marked
    IN  IF rvalid THEN Tail(joined) ELSE joined

(* The bus: answers come in order, in a later cycle than the grant. *)
Bus(branch, gnt, rvalid, addr) ==
    LET left   == IF rvalid THEN Tail(pending) ELSE pending
        marked == [i \in 1..Len(left) |-> [left[i] EXCEPT !.old = @ \/ branch]]
    IN  IF gnt THEN Append(marked, [word |-> addr, old |-> valid_req_q /\ branch])
        ELSE marked

-----------------------------------------------------------------------------
(* The reset state.  The address registers have no reset (ResetAll is 0)   *)
(* and hold anything; the controller branches before it fetches.           *)
Init ==
    /\ layout \in Layouts
    /\ fifo = <<>>
    /\ instr_addr_q \in HalfAddr /\ fetch_addr_q \in Words /\ stored_addr_q \in Words
    /\ valid_req_q = FALSE /\ discard_req_q = FALSE
    /\ branch_discard_q = <<>>
    /\ pending = <<>>
    /\ booted = FALSE
    /\ delivered = Stream!Nothing

(***************************************************************************)
(* One cycle.  From the core: req (fetching is enabled), branch with its   *)
(* target, ready (the ID stage takes an instruction); from the bus: gnt    *)
(* and rvalid.                                                             *)
(***************************************************************************)
fifo_valid(rvalid) == rvalid /\ ~branch_discard_q[1]

Pushed(rvalid) ==
    IF fifo_valid(rvalid) /\ Len(fifo) < DEPTH
    THEN Append(fifo, Head(pending)) ELSE fifo

Cycle(req, branch, target, ready, gnt, rvalid) ==
    /\ gnt => valid_req(req, branch)
    /\ rvalid => pending # <<>>
    /\ LET words   == Pushed(rvalid)
           addr    == instr_addr(branch, target)
           starts  == valid_new_req(req, branch) /\ ~valid_req_q
           takes   == ready /\ out_valid(words)
       IN  /\ fifo' = IF branch THEN <<>>
                      ELSE IF takes /\ pop_fifo(words) THEN Tail(words)
                      ELSE words
           /\ instr_addr_q' = IF branch THEN target
                              ELSE IF takes THEN instr_addr_next(words)
                              ELSE instr_addr_q
           /\ delivered' = IF takes /\ ~branch THEN out(words) ELSE delivered
           /\ fetch_addr_q' = NextWord(IF branch THEN target \div 2 ELSE fetch_addr_q,
                                       starts)
           /\ stored_addr_q' = IF starts /\ ~gnt THEN addr ELSE stored_addr_q
           /\ valid_req_q' = (valid_req(req, branch) /\ ~gnt)
           /\ discard_req_q' = discard_req_d(branch)
           /\ branch_discard_q' = Outstanding(req, branch, gnt, rvalid)
           /\ pending' = Bus(branch, gnt, rvalid, addr)
           /\ UNCHANGED layout

(* BOOT_SET: the first branch, to the boot address. *)
Boot ==
    /\ ~booted
    /\ \E gnt \in BOOLEAN, target \in HalfAddr :
           Cycle(TRUE, TRUE, target, FALSE, gnt, FALSE)
    /\ booted' = TRUE

(* Taking an instruction has no effect in the cycle of a branch. *)
Branch ==
    /\ booted
    /\ \E req, gnt, rvalid \in BOOLEAN, target \in HalfAddr :
           Cycle(req, TRUE, target, FALSE, gnt, rvalid)
    /\ UNCHANGED booted

Fetch ==
    /\ booted
    /\ \E req, ready, gnt, rvalid \in BOOLEAN :
           Cycle(req, FALSE, 0, ready, gnt, rvalid)
    /\ UNCHANGED booted

(* A cycle in which everybody does what is asked of them. *)
Busy ==
    /\ booted
    /\ \E gnt, rvalid \in BOOLEAN :
           /\ gnt = valid_req(TRUE, FALSE)
           /\ rvalid = (pending # <<>>)
           /\ Cycle(TRUE, FALSE, 0, TRUE, gnt, rvalid)
    /\ UNCHANGED booted

Next == Boot \/ Branch \/ Fetch

Safety == Init /\ [][Next]_vars

(***************************************************************************)
(* The controller boots; the bus grants and answers, and the ID stage      *)
(* becomes ready, again and again.                                         *)
(***************************************************************************)
Spec == Safety /\ WF_vars(Boot) /\ WF_vars(Busy)

-----------------------------------------------------------------------------
Entries == [word : Words, old : BOOLEAN]

TypeOK ==
    /\ layout \in Layouts
    /\ fifo \in Seq(Entries)
    /\ instr_addr_q \in HalfAddr
    /\ fetch_addr_q \in Words /\ stored_addr_q \in Words
    /\ valid_req_q \in BOOLEAN /\ discard_req_q \in BOOLEAN
    /\ branch_discard_q \in Seq(BOOLEAN)
    /\ pending \in Seq(Entries)
    /\ booted \in BOOLEAN

(***************************************************************************)
(* The assertion IbexFetchFifoPushFull: a word that is not discarded finds *)
(* a free entry, whenever the bus answers.                                 *)
(***************************************************************************)
PushFits ==
    branch_discard_q # <<>> /\ ~branch_discard_q[1] => Len(fifo) < DEPTH

(***************************************************************************)
(* Why it does: every request, from the cycle it is made, has its place in *)
(* the FIFO and in the queue of outstanding requests, which follows the    *)
(* bus.                                                                    *)
(***************************************************************************)
held == IF valid_req_q THEN 1 ELSE 0

Room ==
    /\ Len(fifo) + Len(branch_discard_q) + held <= DEPTH
    /\ Len(branch_discard_q) + held <= NUM_REQS
    /\ Len(branch_discard_q) = Len(pending)

(***************************************************************************)
(* The words in the FIFO, the outstanding ones that will not be discarded  *)
(* and the one being requested are the words from the output address on,   *)
(* without gap or repetition, up to the next word to be fetched.           *)
(***************************************************************************)
Live == {i \in 1..Len(pending) : ~branch_discard_q[i]}
Dead == Len(pending) - Cardinality(Live)

Consecutive ==
    booted =>
    LET w == instr_addr_q \div 2
        n == Len(fifo) + Cardinality(Live)
    IN  /\ Live = (Dead + 1)..Len(pending)
        /\ \A i \in 1..Len(fifo) : fifo[i].word = (w + i - 1) % NWords
        /\ \A i \in Live : pending[i].word = (w + Len(fifo) + i - Dead - 1) % NWords
        /\ IF valid_req_q /\ ~discard_req_q
           THEN /\ stored_addr_q = (w + n) % NWords
                /\ fetch_addr_q = (w + n + 1) % NWords
           ELSE fetch_addr_q = (w + n) % NWords

BufferInv == TypeOK /\ PushFits /\ Consecutive

(***************************************************************************)
(* The buffer delivers the instruction stream: every instruction since the *)
(* last branch, in order, once, read after the branch, with the right      *)
(* error marks.                                                            *)
(***************************************************************************)
InstructionStream == Stream!Spec

(* And it goes on delivering, unless branches keep coming. *)
Delivers ==
    \/ []<><<Branch>>_vars
    \/ []<><<instr_addr_q' # instr_addr_q>>_vars
=============================================================================
