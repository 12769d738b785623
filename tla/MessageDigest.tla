--------------------------- MODULE MessageDigest ---------------------------
(***************************************************************************)
(* What a streaming hash promises: whatever pieces a message arrives in,   *)
(* its digest is that of the whole message, padded as FIPS 180-4 says.     *)
(* The digest stands for the blocks that were compressed to get it, and    *)
(* the i-th byte of every message is the same one, Byte(i).                *)
(***************************************************************************)
EXTENDS Integers, Sequences

CONSTANTS
    BLOCK_SIZE,         \* in bytes: 64 for SHA-256, 128 for SHA-512
    LENGTH_SIZE,        \* bytes of the padding's length field: 8 and 16
    Chunks,             \* lengths an update is called with
    MaxMessage          \* a bound on the length of the message

VARIABLES open, message, digest

Byte(i) == 256 + i      \* no byte of the padding is one of these

Data(from, n) == [i \in 1..n |-> Byte(from + i)]

(* The length field: big-endian, in bits. *)
LengthField(len) ==
    [i \in 1..LENGTH_SIZE |->
        IF i <= LENGTH_SIZE - 4 THEN 0 ELSE ((8 * len) \div 256^(LENGTH_SIZE - i)) % 256]

Padded(m) ==
    LET zeros == (-(Len(m) + 1 + LENGTH_SIZE)) % BLOCK_SIZE
    IN  m \o <<128>> \o [i \in 1..zeros |-> 0] \o LengthField(Len(m))

BlocksOf(m) ==
    [b \in 1..(Len(m) \div BLOCK_SIZE) |-> SubSeq(m, (b - 1) * BLOCK_SIZE + 1, b * BLOCK_SIZE)]

Digest(m) == BlocksOf(Padded(m))

Init == open = FALSE /\ message = <<>> /\ digest = <<>>

Start  == open' = TRUE /\ message' = <<>> /\ UNCHANGED digest
AppendData(n) == /\ open
                 /\ message' = message \o Data(Len(message), n)
                 /\ UNCHANGED <<open, digest>>
Finish == open /\ open' = FALSE /\ message' = <<>> /\ digest' = Digest(message)
Once(n) == digest' = Digest(Data(0, n)) /\ UNCHANGED <<open, message>>

Next == Start \/ Finish \/ \E n \in Chunks : AppendData(n) \/ Once(n)

Spec == Init /\ [][Next]_<<open, message, digest>>
=============================================================================
