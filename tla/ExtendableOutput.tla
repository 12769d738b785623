-------------------------- MODULE ExtendableOutput --------------------------
(***************************************************************************)
(* What a sponge promises.  Whatever pieces a message is absorbed in, it   *)
(* is padded once, and whatever pieces the output is drawn in, they are    *)
(* consecutive pieces of one stream, which the message determines.  A byte *)
(* of the stream is named by what was XORed into the state before each     *)
(* permutation so far, and by its place in the state.                      *)
(***************************************************************************)
EXTENDS Integers, Sequences

CONSTANTS
    RATE,               \* bytes of the state that take input and give output
    HASH_SUFFIX, XOF_SUFFIX, LAST,  \* what pads a message: after it, and at the end
    Chunks,             \* lengths of the pieces of input and of output
    MaxMessage, MaxOutput

VARIABLES phase, message, suffix, squeezed, output

(* Byte i of any message.  A byte of the state is the set of what was XORed to it. *)
Byte(i) == 256 + i
Nothing == [i \in 0..(RATE - 1) |-> {}]

Blocks(m, pad) ==
    LET last == Len(m) \div RATE
        At(p) == (IF p < Len(m) THEN {m[p + 1]} ELSE {})
                 \cup (IF p = Len(m) THEN pad ELSE {})
                 \cup (IF p = (last + 1) * RATE - 1 THEN LAST ELSE {})
    IN  [b \in 1..(last + 1) |-> [i \in 0..(RATE - 1) |-> At((b - 1) * RATE + i)]]

Stream(m, pad, from, n) ==
    LET absorbed == Blocks(m, pad)
    IN  [i \in 1..n |->
            [input |-> absorbed \o [b \in 1..((from + i - 1) \div RATE) |-> Nothing],
             place |-> (from + i - 1) % RATE]]

Piece(from, n) == [i \in 1..n |-> Byte(from + i)]

Init == phase = "none" /\ message = <<>> /\ suffix = {} /\ squeezed = 0 /\ output = <<>>

Start == /\ phase' = "absorb" /\ message' = <<>> /\ squeezed' = 0 /\ suffix' = {}
         /\ UNCHANGED output
Absorb(n) == /\ phase = "absorb"
             /\ message' = message \o Piece(Len(message), n)
             /\ UNCHANGED <<phase, suffix, squeezed, output>>
Close == /\ phase = "absorb"
         /\ phase' = "squeeze" /\ suffix' = XOF_SUFFIX
         /\ UNCHANGED <<message, squeezed, output>>
Draw(n) == /\ phase = "squeeze"
           /\ output' = Stream(message, suffix, squeezed, n)
           /\ squeezed' = squeezed + n
           /\ UNCHANGED <<phase, message, suffix>>
Digest(n) == /\ phase = "absorb" /\ phase' = "none"
             /\ output' = Stream(message, HASH_SUFFIX, 0, n)
             /\ UNCHANGED <<message, suffix, squeezed>>
(* A message in one piece, its output in another. *)
Once(pad, n, k) == /\ output' = Stream(Piece(0, n), pad, 0, k)
                   /\ UNCHANGED <<phase, message, suffix, squeezed>>

Next == \/ Start \/ Close
        \/ \E n \in Chunks :
              \/ Absorb(n) \/ Draw(n) \/ Digest(n)
              \/ \E k \in Chunks, pad \in {HASH_SUFFIX, XOF_SUFFIX} : Once(pad, n, k)

Spec == Init /\ [][Next]_<<phase, message, suffix, squeezed, output>>
=============================================================================
