----------------------------- MODULE XofStream -----------------------------
(***************************************************************************)
(* The hash and extendable-output calls of sha3_api.c and the Ascon hash   *)
(* of ascon_hash.c, and a caller of theirs: a context is set up, takes a   *)
(* message in pieces, and gives a digest (sha3_final) or is closed         *)
(* (shake_xof) and gives output in pieces.  sha3, kyber_shake256 and       *)
(* ascon_hash do it in one call, on a context of their own.                *)
(*                                                                         *)
(* The permutation is ideal: a state is the sequence of what was XORed     *)
(* into it before each permutation (perms), and what was since (in).       *)
(* Offsets count from zero, as in the code.                                *)
(***************************************************************************)
EXTENDS Integers, Sequences, SequencesExt

CONSTANTS RATE, HASH_SUFFIX, XOF_SUFFIX, LAST, Chunks, MaxMessage, MaxOutput

(* What the constants must be: the bits that pad a message are different ones. *)
ASSUME XofAssumption ==
    /\ RATE \in Nat \ {0}
    /\ HASH_SUFFIX \subseteq Nat /\ XOF_SUFFIX \subseteq Nat /\ LAST \subseteq Nat
    /\ HASH_SUFFIX \cap LAST = {} /\ XOF_SUFFIX \cap LAST = {}
    /\ Chunks \subseteq Nat /\ MaxMessage \in Nat /\ MaxOutput \in Nat

VARIABLES
    alg,                    \* the algorithm in the build
    phase, sponge, out,     \* what the context is ready for, the context, the last output
    message, squeezed       \* the message absorbed and the bytes given of its stream (history)

xofVars == <<alg, phase, sponge, out, message, squeezed>>

Byte(i) == 256 + i
Piece(from, n) == [i \in 1..n |-> Byte(from + i)]

Nothing == [i \in 0..(RATE - 1) |-> {}]

Xor(A, B) == (A \ B) \cup (B \ A)

Permute(c) == [c EXCEPT !.perms = Append(@, c.in), !.in = Nothing]

XorByte(c, place, b) == [c EXCEPT !.in[place] = Xor(@, b)]

(* st.b[place] *)
ByteAt(c, place) == [input |-> c.perms, place |-> place]

-----------------------------------------------------------------------------
sha3_init == [perms |-> <<>>, in |-> Nothing, pt |-> 0]

(* One byte of sha3_update: the block is permuted as soon as it is full. *)
TakeByte(c, b) ==
    LET d == XorByte(c, c.pt, {b})
    IN  IF c.pt + 1 >= RATE THEN [Permute(d) EXCEPT !.pt = 0] ELSE [d EXCEPT !.pt = @ + 1]

sha3_update(c, data) == FoldLeft(TakeByte, c, data)

PadLastOnly(c, suffix) ==       \* mutant: the suffix is lost on the last byte of a block
    IF c.pt = RATE - 1 THEN XorByte(c, c.pt, LAST)
    ELSE XorByte(XorByte(c, c.pt, suffix), RATE - 1, LAST)

Pad(c, suffix) == XorByte(XorByte(c, c.pt, suffix), RATE - 1, LAST)

(* What sha3_final writes: mdlen bytes of the state, from its start. *)
sha3_final(c, mdlen) ==
    LET d == Permute(Pad(c, HASH_SUFFIX))
    IN  [state |-> d, out |-> [i \in 1..mdlen |-> ByteAt(d, i - 1)]]

shake_xof(c) == [Permute(Pad(c, XOF_SUFFIX)) EXCEPT !.pt = 0]

(* One byte of shake_out: permute only when a byte is asked for that is not there. *)
GiveByte(r, i) ==
    LET c == IF r.state.pt >= RATE THEN [Permute(r.state) EXCEPT !.pt = 0] ELSE r.state
    IN  [state |-> [c EXCEPT !.pt = @ + 1], out |-> Append(r.out, ByteAt(c, c.pt))]

shake_out(c, len) == FoldLeft(GiveByte, [state |-> c, out |-> <<>>], [i \in 1..len |-> i])

-----------------------------------------------------------------------------
(***************************************************************************)
(* ascon_hash_absorb: the state after its first permutation, whole blocks  *)
(* of the message, then what is left of it and the byte that ends it.      *)
(***************************************************************************)
AsconBlocks(data) == Len(data) \div RATE

AbsorbRest(c, data) ==
    LET done == RATE * AsconBlocks(data)
        XorAt(d, i) == XorByte(d, i, {data[done + i + 1]})
    IN  FoldLeft(XorAt, c, [i \in 1..(Len(data) - done) |-> i - 1])

AbsorbBlocks(data) ==
    LET XorBlock(c, b) ==
            Permute([c EXCEPT !.in = [i \in 0..(RATE - 1) |-> {data[b * RATE + i + 1]}]])
    IN  FoldLeft(XorBlock, [perms |-> <<>>, in |-> Nothing],
                 [b \in 1..AsconBlocks(data) |-> b - 1])

ascon_hash_absorb(data) ==
    Permute(XorByte(AbsorbRest(AbsorbBlocks(data), data), Len(data) % RATE, XOF_SUFFIX))

(***************************************************************************)
(* ascon_hash_squeeze of len bytes: a permutation between blocks, but none *)
(* after the last, which is always written whole.                          *)
(***************************************************************************)
GiveBlocks(c, n) ==
    [state |-> c, out |-> [i \in 1..RATE |-> ByteAt(c, i - 1)]]

ascon_hash_squeeze(c, len) ==
    LET between == IF len > RATE THEN (len - 1) \div RATE ELSE 0
        AddBlock(r, b) == LET d == Permute(r.state)
                          IN  [state |-> d, out |-> r.out \o [i \in 1..RATE |-> ByteAt(d, i - 1)]]
    IN  FoldLeft(AddBlock, GiveBlocks(c, 1), [b \in 1..between |-> b])

-----------------------------------------------------------------------------
XofInit ==
    /\ alg \in {"keccak", "ascon"}
    /\ phase = "none" /\ sponge = sha3_init /\ out = <<>>
    /\ message = <<>> /\ squeezed = 0

Start == /\ alg = "keccak"
         /\ sponge' = sha3_init
         /\ phase' = "absorb" /\ message' = <<>> /\ squeezed' = 0
         /\ UNCHANGED <<alg, out>>

Update == \E n \in Chunks :
    LET data == Piece(Len(message), n)
    IN  /\ phase = "absorb" /\ Len(message) + n <= MaxMessage
        /\ sponge' = sha3_update(sponge, data)
        /\ message' = message \o data
        /\ UNCHANGED <<alg, phase, out, squeezed>>

Final == \E mdlen \in Chunks \cap 0..RATE :
    LET r == sha3_final(sponge, mdlen)
    IN  /\ phase = "absorb"
        /\ sponge' = r.state /\ out' = r.out
        /\ phase' = "none"
        /\ UNCHANGED <<alg, message, squeezed>>

Close == /\ phase = "absorb"
         /\ sponge' = shake_xof(sponge)
         /\ phase' = "squeeze"
         /\ UNCHANGED <<alg, out, message, squeezed>>

Out == \E n \in Chunks :
    LET r == shake_out(sponge, n)
    IN  /\ phase = "squeeze" /\ squeezed + n <= MaxOutput
        /\ sponge' = r.state /\ out' = r.out
        /\ squeezed' = squeezed + n
        /\ UNCHANGED <<alg, phase, message>>

kyber_shake256(n, k) == shake_out(shake_xof(sha3_update(sha3_init, Piece(0, n))), k).out
sha3(n, k) == sha3_final(sha3_update(sha3_init, Piece(0, n)), k).out

ascon_hash(n, k) == ascon_hash_squeeze(ascon_hash_absorb(Piece(0, n)), k).out

(* An Ascon caller asks for whole blocks. *)
OneCall == \E n, k \in Chunks :
    /\ phase = "none"
    /\ \/ alg = "keccak" /\ out' = kyber_shake256(n, k)
       \/ alg = "keccak" /\ k <= RATE /\ out' = sha3(n, k)
       \/ alg = "ascon" /\ k > 0 /\ k % RATE = 0 /\ out' = ascon_hash(n, k)
    /\ UNCHANGED <<alg, phase, sponge, message, squeezed>>

XofNext == Start \/ Update \/ Final \/ Close \/ Out \/ OneCall

XofSpec == XofInit /\ [][XofNext]_xofVars

-----------------------------------------------------------------------------
(* The context has its type, and a place for the byte that pads (sha3_api.c:54). *)
XofTypeOK ==
    /\ phase \in {"none", "absorb", "squeeze"}
    /\ sponge.pt \in 0..RATE /\ (phase = "absorb" => sponge.pt < RATE)
    /\ \A b \in DOMAIN sponge.perms : DOMAIN sponge.perms[b] = 0..(RATE - 1)

(***************************************************************************)
(* The output depends on the message and on the place in its stream, not   *)
(* on how the one was cut up or the other drawn (sha3_api.c:54 and 117).   *)
(***************************************************************************)
Suffix == IF phase = "squeeze" THEN XOF_SUFFIX ELSE {}

Keccak == INSTANCE ExtendableOutput WITH suffix <- Suffix, output <- out
Ascon  == INSTANCE ExtendableOutput WITH suffix <- Suffix, output <- out, LAST <- {}

OneStream ==
    [][/\ alg = "keccak" => [Keccak!Next]_<<phase, message, Suffix, squeezed, out>>
       /\ alg = "ascon" => [Ascon!Next]_<<phase, message, Suffix, squeezed, out>>]_xofVars
=============================================================================
