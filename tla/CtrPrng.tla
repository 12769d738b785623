------------------------------ MODULE CtrPrng ------------------------------
(***************************************************************************)
(* The deterministic random bit generator of TinyCrypt (ctr_prng.c) and    *)
(* the randombytes interface the Kyber software calls it through (rng.c).  *)
(* One context, one action per call: nothing runs concurrently with it.    *)
(*                                                                         *)
(* The block cipher is ideal: a key derived by an update is unlike every   *)
(* key before, and the counter block derived with it can have any value.   *)
(* So a key is known only by whether there is one, and the ghost variables *)
(* record which counter blocks the current key has encrypted.              *)
(***************************************************************************)
EXTENDS Integers

CONSTANTS
    VSize,                      \* values of the counter block V
    BLOCK_SIZE,                 \* TC_AES_BLOCK_SIZE, in bytes
    SEED_BLOCKS,                \* blocks of key and V together
    MAX_REQS_BEFORE_RESEED,
    MAX_BYTES_PER_REQ

MaxBlocks == (MAX_BYTES_PER_REQ + BLOCK_SIZE - 1) \div BLOCK_SIZE

ASSUME PrngAssumption ==
    /\ BLOCK_SIZE \in Nat \ {0} /\ SEED_BLOCKS \in Nat \ {0}
    /\ MAX_REQS_BEFORE_RESEED \in Nat /\ MAX_BYTES_PER_REQ \in Nat \ {0}
    /\ VSize \in Nat /\ MaxBlocks \in Nat /\ MaxBlocks + SEED_BLOCKS <= VSize

VARIABLES
    V, key, reseedCount,    \* the context; key is "none" when it is all zeroes
    result,                 \* what the last call returned
    filled,                 \* the last call wrote all of its caller's buffer
    used,                   \* counter blocks encrypted with the current key (ghost)
    twice,                  \* some key encrypted a counter block twice (ghost)
    served                  \* requests served since the last seed (ghost)

vars == <<V, key, reseedCount, result, filled, used, twice, served>>

SEEDLEN == SEED_BLOCKS * BLOCK_SIZE

-----------------------------------------------------------------------------
(***************************************************************************)
(* The counter n increments after v (arrInc): all its bytes are one        *)
(* number, so a carry runs through them and the last value wraps.          *)
(***************************************************************************)
arrInc(v, n) == IF v + n < VSize THEN v + n ELSE v + n - VSize

(***************************************************************************)
(* Encrypting n blocks, each after an increment of V.  c holds V and the   *)
(* ghosts.                                                                 *)
(***************************************************************************)
Encrypt(c, n) ==
    LET blocks == {arrInc(c.v, i) : i \in 1..n}
    IN  [v     |-> arrInc(c.v, n),
         used  |-> c.used \cup blocks,
         twice |-> \/ c.twice
                   \/ blocks \cap c.used # {}
                   \/ \E i, j \in 1..n : i # j /\ arrInc(c.v, i) = arrInc(c.v, j)]

(* tc_ctr_prng_update: a new key, and with it the new counter block v. *)
UpdateNoIncrement(c, v) ==      \* mutant: encrypts V before it is incremented
    [v |-> v, used |-> {},
     twice |-> \/ c.twice
               \/ ({c.v} \cup {arrInc(c.v, i) : i \in 1..(SEED_BLOCKS - 1)}) \cap c.used # {}]

tc_ctr_prng_update(c, v) ==
    [v |-> v, used |-> {}, twice |-> Encrypt(c, SEED_BLOCKS).twice]

Context == [v |-> V, used |-> used, twice |-> twice]

Store(c) == V' = c.v /\ used' = c.used /\ twice' = c.twice

(* How a call ends. *)
Returns(r, wrote) == result' = r /\ filled' = wrote
Refuses(r)        == /\ Returns(r, FALSE)
                     /\ UNCHANGED <<V, key, reseedCount, used, twice, served>>

-----------------------------------------------------------------------------
(***************************************************************************)
(* tc_ctr_prng_init(ctx, entropy, entropyLen, ...): the personalization    *)
(* string only changes which key is derived.                               *)
(***************************************************************************)
tc_ctr_prng_init(entropy, entropyLen) ==
    \/ /\ entropy = "null" \/ entropyLen < SEEDLEN
       /\ Refuses("FAIL")
    \/ /\ entropy # "null" /\ entropyLen >= SEEDLEN
       /\ \E v \in 0..(VSize - 1) :
             Store(tc_ctr_prng_update([v |-> 0, used |-> {}, twice |-> twice], v))
       /\ key' = "derived"
       /\ reseedCount' = 1 /\ served' = 0
       /\ Returns("SUCCESS", TRUE)

(***************************************************************************)
(* tc_ctr_prng_reseed: unlike init it does not look whether entropy is a   *)
(* null pointer, and mixes in what it finds there.                         *)
(***************************************************************************)
tc_ctr_prng_reseed(entropy, entropyLen) ==
    \/ /\ entropyLen < SEEDLEN
       /\ Refuses("FAIL")
    \/ /\ entropyLen >= SEEDLEN
       /\ \E v \in 0..(VSize - 1) : Store(tc_ctr_prng_update(Context, v))
       /\ key' = "derived"
       /\ reseedCount' = 1 /\ served' = 0
       /\ Returns("SUCCESS", TRUE)

(***************************************************************************)
(* What tc_ctr_prng_generate leaves of the context: an update first if     *)
(* there is additional input, the blocks of output, and an update last.    *)
(***************************************************************************)
Blocks(outlen) == (outlen + BLOCK_SIZE - 1) \div BLOCK_SIZE

Generated(c, additional, outlen, v1, v2) ==
    LET seeded == IF additional THEN tc_ctr_prng_update(c, v1) ELSE c
    IN  tc_ctr_prng_update(Encrypt(seeded, Blocks(outlen)), v2)

Exhausted(count) == count > MAX_REQS_BEFORE_RESEED

Generate(additional, outlen, success, failure, exhausted) ==
    \/ /\ outlen >= MAX_BYTES_PER_REQ
       /\ Refuses(failure)
    \/ /\ outlen < MAX_BYTES_PER_REQ /\ Exhausted(reseedCount)
       /\ Refuses(exhausted)
    \/ /\ outlen < MAX_BYTES_PER_REQ /\ ~Exhausted(reseedCount)
       /\ \E v1, v2 \in 0..(VSize - 1) :
             /\ ~additional => v1 = 0
             /\ Store(Generated(Context, additional, outlen, v1, v2))
       /\ reseedCount' = reseedCount + 1 /\ served' = served + 1
       /\ Returns(success, TRUE)
       /\ UNCHANGED key

tc_ctr_prng_generate(additional, outlen) ==
    Generate(additional, outlen, "SUCCESS", "FAIL", "RESEED_REQ")

(* randombytes drops the result and reports success. *)
randombytes(xlen) ==
    Generate(FALSE, xlen, "RNG_SUCCESS", "RNG_SUCCESS", "RNG_SUCCESS")

tc_ctr_prng_uninstantiate ==
    /\ key' = "none" /\ V' = 0 /\ reseedCount' = 0
    /\ used' = {} /\ served' = 0
    /\ Returns("NONE", FALSE)
    /\ UNCHANGED twice

-----------------------------------------------------------------------------
(***************************************************************************)
(* The header's contract: reseed and generate are called on a context that *)
(* tc_ctr_prng_init has set up.  Lengths are those on either side of each  *)
(* bound, and of a block.                                                  *)
(***************************************************************************)
EntropyLens == {SEEDLEN - 1, SEEDLEN}
OutLens     == {0, 1, BLOCK_SIZE, BLOCK_SIZE + 1, MAX_BYTES_PER_REQ - 1, MAX_BYTES_PER_REQ}
Instantiated == key = "derived"

Init ==
    /\ V = 0 /\ key = "none" /\ reseedCount = 0
    /\ result = "NONE" /\ filled = FALSE
    /\ used = {} /\ twice = FALSE /\ served = 0

Instantiate == \E e \in {"null", "data"}, n \in EntropyLens : tc_ctr_prng_init(e, n)
Reseed      == Instantiated /\ \E e \in {"null", "data"}, n \in EntropyLens : tc_ctr_prng_reseed(e, n)
GenerateTc  == Instantiated /\ \E a \in BOOLEAN, n \in OutLens : tc_ctr_prng_generate(a, n)
Randombytes == Instantiated /\ \E n \in OutLens : randombytes(n)
Uninstantiate == tc_ctr_prng_uninstantiate

Next == Instantiate \/ Reseed \/ GenerateTc \/ Randombytes \/ Uninstantiate

Spec == Init /\ [][Next]_vars

-----------------------------------------------------------------------------
Results == {"NONE", "SUCCESS", "FAIL", "RESEED_REQ", "RNG_SUCCESS"}

(* Every variable has its type; the request counter cannot overflow. *)
TypeOK ==
    /\ V \in 0..(VSize - 1) /\ key \in {"none", "derived"}
    /\ reseedCount \in 0..(MAX_REQS_BEFORE_RESEED + 1)
    /\ result \in Results /\ filled \in BOOLEAN
    /\ used \subseteq 0..(VSize - 1) /\ twice \in BOOLEAN
    /\ served \in 0..MAX_REQS_BEFORE_RESEED

(***************************************************************************)
(* No key encrypts a counter block twice: blocks handed out in one         *)
(* request, and those that become the next key and counter, all differ     *)
(* (arrInc before each encryption, ctr_prng.c:87 and 259).                  *)
(***************************************************************************)
NoBlockTwice == ~twice

(***************************************************************************)
(* Between calls the context's key has produced nothing yet, so its        *)
(* present state explains no output of the past (the update that ends      *)
(* generate, ctr_prng.c:274).                                              *)
(***************************************************************************)
PastOutputSafe == Instantiated => used = {}

(***************************************************************************)
(* One seed serves at most MAX_REQS_BEFORE_RESEED requests, and the        *)
(* context counts exactly those that were served (ctr_prng.c:236, 277).    *)
(***************************************************************************)
RequestsPerSeed ==
    Instantiated => /\ reseedCount = served + 1
                    /\ served <= MAX_REQS_BEFORE_RESEED

PrngInv == TypeOK /\ NoBlockTwice /\ PastOutputSafe /\ RequestsPerSeed
=============================================================================
