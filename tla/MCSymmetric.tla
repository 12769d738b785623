---------------------------- MODULE MCSymmetric ----------------------------
(***************************************************************************)
(* The symmetric primitives, whose ciphers and permutations are ideal.     *)
(* Blocks are short and bytes have few values, so that every position of a *)
(* boundary in a block occurs.  A behaviour runs one program:              *)
(*   prng            a context of the random bit generator (CtrPrng)       *)
(*   sha256, sha512  a streaming hash (HashStream)                         *)
(*   xof             Keccak or Ascon as hash and as stream (XofStream)     *)
(*   ccm             a message under CCM (CcmMode)                         *)
(*   ctr             a series of buffers in counter mode (CtrMode)         *)
(*   aead            a message under Ascon-128 (AsconAead)                 *)
(***************************************************************************)
EXTENDS CtrPrng, CtrMode, XofStream, CcmMode, AsconAead

VARIABLES
    program,
    sha256_s, sha256_ready, sha256_out,
    sha512_s, sha512_ready, sha512_out

sha256Vars == <<sha256_s, sha256_ready, sha256_out>>
sha512Vars == <<sha512_s, sha512_ready, sha512_out>>
allVars    == <<program, vars, sha256Vars, sha512Vars, xofVars, ccmVars, ctrVars, aeadVars>>

-----------------------------------------------------------------------------
(* The length field takes a third of the one block and two thirds of the other. *)
Sha256 == INSTANCE HashStream WITH
    BLOCK_SIZE <- 24, LENGTH_SIZE <- 8, Chunks <- {0, 1, 8, 15, 16, 24}, MaxMessage <- 52,
    s <- sha256_s, ready <- sha256_ready, out <- sha256_out

Sha512 == INSTANCE HashStream WITH
    BLOCK_SIZE <- 24, LENGTH_SIZE <- 16, Chunks <- {0, 1, 7, 8, 24, 25}, MaxMessage <- 52,
    s <- sha512_s, ready <- sha512_ready, out <- sha512_out

(* Payloads and associated data of ones, and some that end in a zero. *)
Ones(n)    == [i \in 1..n |-> 1]
EndZero(n) == [i \in 1..n |-> IF i = n THEN 0 ELSE 1]

MCNonces   == {<<0>>, <<1>>}
MCPayloads == {Ones(n) : n \in {0, 1, 2, 4, 5, 8}} \cup {EndZero(n) : n \in {1, 3, 4, 5}}
MCData     == {Ones(n) : n \in {0, 1, 2, 3, 5}} \cup {EndZero(n) : n \in {1, 2, 3}}

(* Counters that start at zero, before a carry, and before the wrap. *)
MCStarts == {<<0, 0>>, <<1, 2>>, <<2, 2>>}

(* All messages of up to three bytes that are not zero, and some with zeroes. *)
UpTo(n) == UNION {[1..k -> {1, 2}] : k \in 0..n}

MCAeadNonces     == {[p \in 0..1 |-> 0], [p \in 0..1 |-> 1]}
MCAeadMessages   == UpTo(3) \cup {<<1, 2, 0>>, <<1, 0, 2, 2>>, <<1, 2, 0, 1, 1>>}
MCAeadAssociated == UpTo(2) \cup {<<1, 0, 2>>, <<2, 2, 0, 2>>}

ASSUME SymmetricAssumption ==
    Sha256!HashConstants /\ Sha512!HashConstants

-----------------------------------------------------------------------------
Programs == {"prng", "sha256", "sha512", "xof", "ccm", "ctr", "aead"}

MCInit ==
    /\ program \in Programs
    /\ Init /\ Sha256!Init /\ Sha512!Init /\ CcmInit /\ AeadInit
    /\ XofInit /\ (program # "xof" => alg = "keccak")
    /\ CtrInit /\ (program # "ctr" => counter = <<0, 0>>)

RunPrng   == program = "prng" /\ Next
             /\ UNCHANGED <<program, sha256Vars, sha512Vars, xofVars, ccmVars, ctrVars, aeadVars>>
RunSha256 == program = "sha256" /\ Sha256!Next
             /\ UNCHANGED <<program, vars, sha512Vars, xofVars, ccmVars, ctrVars, aeadVars>>
RunSha512 == program = "sha512" /\ Sha512!Next
             /\ UNCHANGED <<program, vars, sha256Vars, xofVars, ccmVars, ctrVars, aeadVars>>
RunXof    == program = "xof" /\ XofNext
             /\ UNCHANGED <<program, vars, sha256Vars, sha512Vars, ccmVars, ctrVars, aeadVars>>
RunCcm    == program = "ccm" /\ CcmNext
             /\ UNCHANGED <<program, vars, sha256Vars, sha512Vars, xofVars, ctrVars, aeadVars>>
RunCtr    == program = "ctr" /\ CtrNext
             /\ UNCHANGED <<program, vars, sha256Vars, sha512Vars, xofVars, ccmVars, aeadVars>>
RunAead   == program = "aead" /\ AeadNext
             /\ UNCHANGED <<program, vars, sha256Vars, sha512Vars, xofVars, ccmVars, ctrVars>>

MCNext == RunPrng \/ RunSha256 \/ RunSha512 \/ RunXof \/ RunCcm \/ RunCtr \/ RunAead

MCSpec == MCInit /\ [][MCNext]_allVars

-----------------------------------------------------------------------------
(* The properties of the programs; those of the modules extended are in theirs. *)
DigestOfWholeMessage == Sha256!DigestOfWholeMessage /\ Sha512!DigestOfWholeMessage

(* Positions stay inside their buffers, and a hash leaves nothing in its own. *)
BuffersFit ==
    /\ Sha256!TypeOK /\ Sha512!TypeOK /\ XofTypeOK /\ CtrTypeOK
    /\ Sha256!NothingLeftBehind /\ Sha512!NothingLeftBehind
=============================================================================
