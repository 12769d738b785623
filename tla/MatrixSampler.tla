--------------------------- MODULE MatrixSampler ---------------------------
(***************************************************************************)
(* gen_matrix and rej_uniform of indcpa.c, which expand a seed into the    *)
(* public matrix, over the three extendable-output functions the Kyber     *)
(* software can be built with: SHAKE128, AES-256 in counter mode and Ascon.*)
(* A step is one iteration of a loop.  The streams are ideal: whether a    *)
(* candidate is below q is a choice, and a byte is its stream position.    *)
(***************************************************************************)
EXTENDS Counter

CONSTANTS
    K, N,               \* KYBER_K and KYBER_N
    Rates,              \* XOF_BLOCKBYTES of each function, by name
    Kinds,              \* the functions the run builds
    MaxRefills          \* refills after which every candidate is accepted

(* What the constants must be. *)
ASSUME SamplerAssumption ==
    /\ K \in Nat \ {0} /\ N \in Nat \ {0} /\ MaxRefills \in Nat
    /\ Kinds \subseteq DOMAIN Rates /\ DOMAIN Rates \subseteq {"shake", "aes", "ascon"}
    /\ \A k \in DOMAIN Rates : Rates[k] \in Nat \ {0}

VARIABLES
    kind, transposed,   \* the build, and which matrix is being generated
    pc, row, col,       \* i and j of gen_matrix
    xof,                \* the state of the extendable-output function
    buf, buflen,
    pos, got,           \* rej_uniform: its position and what it has sampled
    ctr,                \* coefficients of the entry so far
    last, triples,      \* the bytes of the last triple, and how many triples (history)
    refills,            \* of this entry (history)
    nonce               \* the two bytes each entry of either matrix came from (history)

samplerVars == <<kind, transposed, pc, row, col, xof, buf, buflen, pos, got, ctr,
                 last, triples, refills, nonce>>

RATE == Rates[kind]

-----------------------------------------------------------------------------
(***************************************************************************)
(* Absorbing starts a stream.  A state remembers how often it was permuted *)
(* since; SHAKE's has a place in the block; AES's is the counter in the    *)
(* last bytes of its IV, most significant first.                           *)
(***************************************************************************)
Zeros == [d \in 1..DIGITS |-> 0]

xof_absorb ==
    CASE kind = "shake" -> [perms |-> 0, pt |-> 0]
      [] kind = "aes"   -> [iv |-> Zeros]
      [] kind = "ascon" -> [perms |-> 0]

(* shake_out: permutes before a byte that is not there. *)
shake_out(s, len) ==
    [out   |-> [b \in 1..len |-> s.perms * RATE + s.pt + b - 1],
     state |-> LET permuted == IF len = 0 THEN 0 ELSE (s.pt + len - 1) \div RATE
               IN  [perms |-> s.perms + permuted, pt |-> s.pt + len - permuted * RATE]]

(* kyber_aes256ctr_xof_squeezeblocks: the counter is read, and written after each block. *)
AesBlocks(s, nblocks) ==
    [out   |-> [b \in 1..(nblocks * RATE) |-> BlockNum(s.iv) * RATE + b - 1],
     state |-> [iv |-> DigitsOf(BlockNum(s.iv) + nblocks)]]

(* ascon_hash_squeeze: permutes between the blocks, not after the last. *)
AsconBlocks(s, nblocks) ==
    [out   |-> [b \in 1..(nblocks * RATE) |-> s.perms * RATE + b - 1],
     state |-> [perms |-> s.perms + nblocks - 1]]

xof_squeezeblocks(s, nblocks) ==
    CASE kind = "shake" -> shake_out(s, nblocks * RATE)
      [] kind = "aes"   -> AesBlocks(s, nblocks)
      [] kind = "ascon" -> AsconBlocks(s, nblocks)

(* GEN_MATRIX_NBLOCKS *)
NBlocks == ((((12 * N) \div 8) * 4096) \div 3329 + RATE) \div RATE
Capacity == NBlocks * RATE + 2

Unwritten == -1
Write(b, from, bytes) ==
    [p \in DOMAIN b |-> IF from <= p /\ p < from + Len(bytes) THEN bytes[p - from + 1] ELSE b[p]]

-----------------------------------------------------------------------------
SamplerInit ==
    /\ kind \in Kinds /\ transposed = FALSE
    /\ pc = "absorb" /\ row = 0 /\ col = 0
    /\ xof = xof_absorb
    /\ buf = [p \in 0..(Capacity - 1) |-> Unwritten] /\ buflen = 0
    /\ pos = 0 /\ got = 0 /\ ctr = 0
    /\ last = <<>> /\ triples = 0 /\ refills = 0
    /\ nonce = [t \in BOOLEAN |-> [e \in (0..(K - 1)) \X (0..(K - 1)) |-> <<>>]]

(* The two bytes an entry's stream is told apart by. *)
NonceSwapped(t, r, c) == <<r, c>>           \* mutant: the flag is ignored
Nonce(t, r, c) == IF t THEN <<r, c>> ELSE <<c, r>>

(* xof_absorb and the first xof_squeezeblocks of an entry. *)
Absorb ==
    /\ pc = "absorb"
    /\ nonce' = [nonce EXCEPT ![transposed][<<row, col>>] = Nonce(transposed, row, col)]
    /\ LET r == xof_squeezeblocks(xof_absorb, NBlocks)
       IN  xof' = r.state /\ buf' = Write(buf, 0, r.out)
    /\ buflen' = NBlocks * RATE
    /\ pos' = 0 /\ got' = 0 /\ ctr' = 0
    /\ last' = <<>> /\ triples' = 0 /\ refills' = 0
    /\ pc' = "sample"
    /\ UNCHANGED <<kind, transposed, row, col>>

Sampling == got < N - ctr /\ pos + 3 <= buflen

(* Whether the second candidate of a triple is still wanted. *)
SecondWanted(n) == n < N - ctr

(* One iteration of rej_uniform's loop: a triple of bytes, two candidates. *)
Sample == \E low, high \in BOOLEAN :
    LET first  == got + (IF low THEN 1 ELSE 0)
        second == IF SecondWanted(first) /\ high THEN 1 ELSE 0
    IN  /\ pc = "sample" /\ Sampling
        /\ refills >= MaxRefills => low /\ high
        /\ got' = first + second
        /\ last' = <<buf[pos], buf[pos + 1], buf[pos + 2]>>
        /\ pos' = pos + 3
        /\ triples' = triples + 1
        /\ UNCHANGED <<kind, transposed, pc, row, col, xof, buf, buflen, ctr, refills, nonce>>

(* rej_uniform returns. *)
Return == /\ pc = "sample" /\ ~Sampling
          /\ ctr' = ctr + got /\ got' = 0
          /\ pc' = IF ctr + got < N THEN "refill" ELSE "next"
          /\ UNCHANGED <<kind, transposed, row, col, xof, buf, buflen, pos, last, triples,
                         refills, nonce>>

(* The bytes of the buffer that make no triple move to its front. *)
LeftoverNone(n) == 0                    \* mutant: they are dropped
Leftover(n) == n % 3

Refill ==
    LET off   == Leftover(buflen)
        moved == [p \in 1..off |-> buf[buflen - off + p - 1]]
        r     == xof_squeezeblocks(xof, 1)
    IN  /\ pc = "refill"
        /\ buf' = Write(Write(buf, 0, moved), off, r.out)
        /\ xof' = r.state
        /\ buflen' = off + RATE
        /\ pos' = 0 /\ refills' = refills + 1
        /\ pc' = "sample"
        /\ UNCHANGED <<kind, transposed, row, col, got, ctr, last, triples, nonce>>

(* Mutant of NextEntry: the row is not advanced. *)
NextEntrySameRow ==
    /\ pc = "next"
    /\ col' = (col + 1) % K
    /\ pc' = "absorb"
    /\ UNCHANGED <<kind, transposed, row, xof, buf, buflen, pos, got, ctr, last, triples,
                   refills, nonce>>

(* On to the next entry, from one matrix to its transpose, and to the end. *)
NextEntry ==
    /\ pc = "next"
    /\ IF col + 1 < K THEN col' = col + 1 /\ UNCHANGED <<row, transposed>> /\ pc' = "absorb"
       ELSE IF row + 1 < K THEN row' = row + 1 /\ col' = 0 /\ pc' = "absorb" /\ UNCHANGED transposed
       ELSE /\ row' = 0 /\ col' = 0 /\ transposed' = TRUE
            /\ pc' = IF transposed THEN "done" ELSE "absorb"
    /\ UNCHANGED <<kind, xof, buf, buflen, pos, got, ctr, last, triples, refills, nonce>>

SamplerNext == Absorb \/ Sample \/ Return \/ Refill \/ NextEntry

SamplerSpec == SamplerInit /\ [][SamplerNext]_samplerVars /\ WF_samplerVars(SamplerNext)

-----------------------------------------------------------------------------
(* Every variable has its type, and no read or write leaves its array (indcpa.c:181). *)
InBounds ==
    /\ DOMAIN buf = 0..(Capacity - 1) /\ buflen \in 0..Capacity /\ pos \in 0..buflen
    /\ ctr + got \in 0..N
    /\ pc \in {"absorb", "sample", "refill", "next", "done"}

(***************************************************************************)
(* rej_uniform is fed the stream as it comes: the n-th triple it samples   *)
(* is the n-th of the entry's stream, whatever the block size leaves over  *)
(* at the end of a buffer, and no byte is dropped, stale or used again     *)
(* (indcpa.c:196-200, "assumed to be uniform random bytes").               *)
(***************************************************************************)
TriplesInOrder ==
    triples > 0 => last = [b \in 1..3 |-> 3 * (triples - 1) + b - 1]

(* An entry that is left has all its coefficients (indcpa.c:195). *)
EntriesComplete == pc = "next" => ctr = N

(***************************************************************************)
(* Entry (i, j) of the transpose comes from the bytes of entry (j, i) of   *)
(* the matrix, and entries of one matrix from different bytes: what the    *)
(* encryptor multiplies with is what the key pair was made from            *)
(* (indcpa.c:186-189).                                                     *)
(***************************************************************************)
TransposeAgrees ==
    pc = "done" => \A e, f \in (0..(K - 1)) \X (0..(K - 1)) :
        (nonce[TRUE][e] = nonce[FALSE][f]) <=> (f = <<e[2], e[1]>>)

(* Both parties expand the whole matrix, in bounds, each in its orientation. *)
MatrixIsExpanded == InBounds /\ EntriesComplete /\ TransposeAgrees
=============================================================================
