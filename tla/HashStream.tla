----------------------------- MODULE HashStream -----------------------------
(***************************************************************************)
(* The SHA-256 and SHA-512 of TinyCrypt (sha256.c, sha512.c) and the       *)
(* one-call wrappers of the Kyber software.  The two differ in the size of *)
(* a block and in the room the length field takes.  The compression        *)
(* function is ideal: iv holds the blocks compressed so far.               *)
(***************************************************************************)
EXTENDS Integers, Sequences, SequencesExt

CONSTANTS BLOCK_SIZE, LENGTH_SIZE, Chunks, MaxMessage

(* What the constants must be. *)
HashConstants ==
    /\ BLOCK_SIZE \in Nat \ {0} /\ LENGTH_SIZE \in 8..(BLOCK_SIZE - 1)
    /\ Chunks \subseteq Nat /\ MaxMessage \in Nat

VARIABLES
    s,          \* the state struct
    ready,      \* it was set up by init and not used up by final
    out         \* the caller's digest buffer

vars == <<s, ready, out>>

Byte(i) == 256 + i
Data(from, n) == [i \in 1..n |-> Byte(from + i)]

Zeros == [i \in 0..(BLOCK_SIZE - 1) |-> 0]

Erased == [iv |-> <<>>, bits_hashed |-> 0, leftover |-> Zeros, leftover_offset |-> 0]

BlockOf(t) == [i \in 1..BLOCK_SIZE |-> t.leftover[i - 1]]

Compress(t) == [t EXCEPT !.iv = Append(@, BlockOf(t)), !.leftover_offset = 0]

(* One byte of an update. *)
TakeByteLate(t, byte) ==        \* mutant: the block is taken for full one byte late
    LET u == [t EXCEPT !.leftover[t.leftover_offset] = byte, !.leftover_offset = @ + 1]
    IN  IF u.leftover_offset > BLOCK_SIZE
        THEN [Compress(u) EXCEPT !.bits_hashed = @ + 8 * BLOCK_SIZE]
        ELSE u

TakeByte(t, byte) ==
    LET u == [t EXCEPT !.leftover[t.leftover_offset] = byte, !.leftover_offset = @ + 1]
    IN  IF u.leftover_offset >= BLOCK_SIZE
        THEN [Compress(u) EXCEPT !.bits_hashed = @ + 8 * BLOCK_SIZE]
        ELSE u

Update(t, data) == FoldLeft(TakeByte, t, data)

(* _set(t->leftover + from, 0, to - from) *)
Clear(t, from, to) ==
    [t EXCEPT !.leftover = [i \in DOMAIN @ |-> IF from <= i /\ i < to THEN 0 ELSE @[i]]]

(* The last eight bytes of the block; SHA-512's field is longer by eight. *)
WriteLength(t) ==
    [t EXCEPT !.leftover =
        [i \in DOMAIN @ |->
            IF i < BLOCK_SIZE - 8 THEN @[i]
            ELSE IF i < BLOCK_SIZE - 4 THEN 0
            ELSE (t.bits_hashed \div 256^(BLOCK_SIZE - 1 - i)) % 256]]

RoomForLengthOneLess(t) == t.leftover_offset <= BLOCK_SIZE - LENGTH_SIZE + 1    \* mutant
RoomForLength(t) == t.leftover_offset <= BLOCK_SIZE - LENGTH_SIZE

(* tc_sha256_final and tc_sha512_final up to the digest. *)
Pad(t) ==
    LET counted == [t EXCEPT !.bits_hashed = @ + 8 * t.leftover_offset]
        marked  == [counted EXCEPT !.leftover[t.leftover_offset] = 128,
                                   !.leftover_offset = @ + 1]
        room    == IF RoomForLength(marked) THEN marked
                   ELSE Compress(Clear(marked, marked.leftover_offset, BLOCK_SIZE))
    IN  Compress(WriteLength(Clear(room, room.leftover_offset, BLOCK_SIZE - 8)))

DestroyState(t) == Erased

-----------------------------------------------------------------------------
tc_sha_init == s' = Erased /\ ready' = TRUE /\ UNCHANGED out

MessageLength == Len(s.iv) * BLOCK_SIZE + s.leftover_offset

tc_sha_update(n) ==
    /\ s' = Update(s, Data(MessageLength, n))
    /\ UNCHANGED <<ready, out>>

tc_sha_final ==
    /\ out' = Pad(s).iv
    /\ s' = DestroyState(Pad(s)) /\ ready' = FALSE

(* sha256 and sha512 of the Kyber software, on a state of their own. *)
sha_once(n) ==
    /\ out' = Pad(Update(Erased, Data(0, n))).iv
    /\ UNCHANGED <<s, ready>>

Init == s = Erased /\ ready = FALSE /\ out = <<>>

(* The header's contract: update and final on a state init has set up. *)
StartHash  == tc_sha_init
UpdateHash == \E n \in Chunks : ready /\ MessageLength + n <= MaxMessage /\ tc_sha_update(n)
FinishHash == ready /\ tc_sha_final
HashOnce   == \E n \in Chunks : sha_once(n)

Next == StartHash \/ UpdateHash \/ FinishHash \/ HashOnce

Spec == Init /\ [][Next]_vars

-----------------------------------------------------------------------------
(***************************************************************************)
(* The state struct has its type, with room in the block for a byte more   *)
(* ("always room for one byte", sha256.c:100).                             *)
(***************************************************************************)
TypeOK ==
    /\ ready \in BOOLEAN
    /\ s.leftover_offset \in 0..(BLOCK_SIZE - 1)
    /\ DOMAIN s.leftover = 0..(BLOCK_SIZE - 1)
    /\ \A b \in DOMAIN s.iv : DOMAIN s.iv[b] = 1..BLOCK_SIZE

(***************************************************************************)
(* However a message is cut into updates, and wherever the cuts fall in a  *)
(* block, the digest is the one of the whole message (sha256.c:76, 101).   *)
(***************************************************************************)
Message == FlattenSeq(s.iv) \o [i \in 1..s.leftover_offset |-> s.leftover[i - 1]]

Whole == INSTANCE MessageDigest WITH open <- ready, message <- Message, digest <- out
DigestOfWholeMessage == Whole!Spec

(***************************************************************************)
(* Once a digest is out, no byte of its message is left in the state       *)
(* (sha256.c:134, where the header only warns of what stays behind).       *)
(***************************************************************************)
NothingLeftBehind == ~ready => \A i \in DOMAIN s.leftover : s.leftover[i] < 256
=============================================================================
