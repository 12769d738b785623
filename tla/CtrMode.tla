------------------------------ MODULE CtrMode ------------------------------
(***************************************************************************)
(* Counter mode (ctr_mode.c): a caller encrypts or decrypts a series of    *)
(* buffers under one key and hands the counter block from call to call.    *)
(* AES is ideal: a keystream byte is named by the block that was encrypted *)
(* and its place in it.                                                    *)
(***************************************************************************)
EXTENDS Counter, FiniteSets

CONSTANTS
    TC_AES_BLOCK_SIZE,
    Lengths,            \* of the buffers
    Starts              \* counter blocks the first call may be handed

(* What the constants must be. *)
ASSUME CtrAssumption ==
    /\ TC_AES_BLOCK_SIZE \in Nat \ {0}
    /\ Lengths \subseteq Nat /\ Starts \subseteq [1..DIGITS -> 0..(BASE - 1)]

VARIABLES
    counter,    \* ctr: the last bytes of the caller's counter block
    keystream,  \* what the last call XORed to its input
    returned,
    encrypted,  \* blocks encrypted since the counter was set (history)
    given       \* keystream bytes given out under the key (history)

ctrVars == <<counter, keystream, returned, encrypted, given>>

BlocksOf(len) == (len + TC_AES_BLOCK_SIZE - 1) \div TC_AES_BLOCK_SIZE
WholeBlocks(len) == len \div TC_AES_BLOCK_SIZE

(* Counter blocks a call leaves behind; what it did not use of the last one is lost. *)
AdvancePartial(len) == WholeBlocks(len)     \* mutant: a partial block is used again
Advance(len) == BlocksOf(len)

tc_ctr_mode(inlen, outlen) ==
    \/ /\ inlen = 0 \/ outlen = 0 \/ outlen # inlen
       /\ returned' = "FAIL" /\ keystream' = <<>>
       /\ UNCHANGED <<counter, encrypted, given>>
    \/ /\ inlen > 0 /\ outlen = inlen
       /\ keystream' = [i \in 1..inlen |->
                          <<(BlockNum(counter) + (i - 1) \div TC_AES_BLOCK_SIZE) % Period,
                            (i - 1) % TC_AES_BLOCK_SIZE>>]
       /\ counter' = DigitsOf(BlockNum(counter) + Advance(inlen))
       /\ encrypted' = encrypted + BlocksOf(inlen)
       /\ given' = given \cup Range(keystream')
       /\ returned' = "SUCCESS"

CtrInit == /\ counter \in Starts /\ keystream = <<>> /\ returned = "NONE"
           /\ encrypted = 0 /\ given = {}

(* The header: after Period blocks the key must be replaced. *)
Call == \E n, m \in Lengths :
            encrypted + BlocksOf(n) <= Period /\ tc_ctr_mode(n, m)

(* A new key, and a counter block that was not used with it. *)
Rekey == /\ encrypted > 0
         /\ counter' \in Starts /\ keystream' = <<>> /\ returned' = "NONE"
         /\ encrypted' = 0 /\ given' = {}

CtrNext == Call \/ Rekey

CtrSpec == CtrInit /\ [][CtrNext]_ctrVars

-----------------------------------------------------------------------------
(* The counter is a number of DIGITS bytes, and so are its users' blocks. *)
CtrTypeOK ==
    /\ counter \in [1..DIGITS -> 0..(BASE - 1)]
    /\ encrypted \in 0..Period
    /\ given \subseteq (0..(Period - 1)) \X (0..(TC_AES_BLOCK_SIZE - 1))

(***************************************************************************)
(* Over a whole series of calls no byte of the keystream is used twice,    *)
(* wherever the counter starts and although it wraps, until as many blocks *)
(* as it has values are encrypted (ctr_mode.h, "after 2^32 block           *)
(* encryptions, the counter will be reused").                              *)
(***************************************************************************)
KeystreamOnce ==
    [][returned' = "SUCCESS" =>
          /\ Range(keystream') \cap given = {}
          /\ Cardinality(Range(keystream')) = Len(keystream')]_ctrVars
=============================================================================
