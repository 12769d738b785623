------------------------------ MODULE KyberKem ------------------------------
(***************************************************************************)
(* Key encapsulation (kem.c): key pairs, encapsulations to them, and       *)
(* decapsulations of ciphertexts that may have been altered, spliced or    *)
(* sent to the wrong key on their way.                                     *)
(*                                                                         *)
(* Hashes are ideal: the value of one is the term of its argument, so two  *)
(* values are equal only if they were computed of equal arguments.  A      *)
(* ciphertext has its two parts, u and v, as indcpa.c makes them.          *)
(***************************************************************************)
EXTENDS Naturals, FiniteSets

CONSTANTS
    Keys,               \* names of key pairs
    MaxEncapsulations,
    MaxAlterations

VARIABLES
    drawn,          \* requests randombytes has answered
    pairs,          \* key pairs generated: what crypto_kem_keypair wrote to sk
    sent,           \* encapsulations: key, ciphertext and secret
    altered,        \* ciphertexts that were altered on their way
    received,       \* decapsulations: key, ciphertext and secret
    encryptions     \* arguments of every call of indcpa_enc (ghost)

kemVars == <<drawn, pairs, sent, altered, received, encryptions>>

(* The n-th answer of randombytes, after those already given. *)
randombytes(n) == <<"random", drawn + n>>

hash_h(x) == <<"h", x>>
hash_g(b) == [lo |-> <<"g lo", b>>, hi |-> <<"g hi", b>>]
kdf(k)    == <<"kdf", k>>

(* The shared secret: the pre-key, and the hash of the ciphertext over the coins. *)
Secret(pre, ct) == kdf([lo |-> pre, hi |-> hash_h(ct)])

-----------------------------------------------------------------------------
(* The scheme underneath: a key pair is known by the seed it was made of. *)
Public(seed) == <<"pk", seed>>

indcpa_enc(m, pk, coins) == [u |-> <<"u", pk, coins>>, v |-> <<"v", pk, coins, m>>]

(***************************************************************************)
(* A part altered slightly decrypts as the part did: decryption rounds.    *)
(* Parts that do not belong together decrypt to some other message.        *)
(***************************************************************************)
Rounded(part) == IF part[1] = "slightly" THEN part[2] ELSE part

indcpa_dec(ct, seed) ==
    LET u == Rounded(ct.u)
        v == Rounded(ct.v)
    IN  IF /\ u[1] = "u" /\ v[1] = "v"
           /\ u[2] = Public(seed) /\ v[2] = u[2] /\ v[3] = u[3]
        THEN v[4] ELSE <<"other", ct, seed>>

(* 0 if the ciphertexts are the same in all their bytes, 1 if not. *)
verify(a, b) == IF a = b THEN 0 ELSE 1

cmovNever(r, x, b) == r         \* mutant: the pre-key is never replaced
cmov(r, x, b) == IF b = 1 THEN x ELSE r

-----------------------------------------------------------------------------
KemInit ==
    /\ drawn = 0 /\ pairs = [k \in {} |-> <<>>]
    /\ sent = {} /\ altered = {} /\ received = {} /\ encryptions = {}

(* The secret key holds the public one, its hash, and z for rejections. *)
SecretKey(seed, z) ==
    [seed |-> seed, pk |-> Public(seed), hpk |-> hash_h(Public(seed)), z |-> z]

Keypair(k) ==
    /\ k \notin DOMAIN pairs
    /\ pairs' = [j \in DOMAIN pairs \cup {k} |->
                    IF j = k THEN SecretKey(randombytes(1), randombytes(2)) ELSE pairs[j]]
    /\ drawn' = drawn + 2
    /\ UNCHANGED <<sent, altered, received, encryptions>>

(* What both sides derive of the message and the hash of the public key. *)
DeriveHashOnly(buf) == [lo |-> <<"g lo", buf>>, hi |-> <<"g hi", buf.hi>>]   \* mutant
Derive(buf) == hash_g(buf)

Encapsulate(k) ==
    LET buf == [lo |-> hash_h(randombytes(1)), hi |-> hash_h(pairs[k].pk)]
        kr  == Derive(buf)
        ct  == indcpa_enc(buf.lo, pairs[k].pk, kr.hi)
    IN  /\ Cardinality(sent) < MaxEncapsulations
        /\ drawn' = drawn + 1
        /\ sent' = sent \cup {[key |-> k, ct |-> ct, ss |-> Secret(kr.lo, ct)]}
        /\ encryptions' = encryptions \cup {[m |-> buf.lo, pk |-> pairs[k].pk, coins |-> kr.hi]}
        /\ UNCHANGED <<pairs, altered, received>>

Ciphertexts == {s.ct : s \in sent} \cup altered

(* A part is changed, slightly or beyond recognition, or exchanged. *)
Alterations(ct) ==
    (UNION {{[ct EXCEPT !.u = <<how, ct.u>>], [ct EXCEPT !.v = <<how, ct.v>>]} :
               how \in {"slightly", "wholly"}})
    \cup {[ct EXCEPT !.v = c.v] : c \in Ciphertexts}

Alter == \E ct \in Ciphertexts :
    /\ Cardinality(altered) < MaxAlterations
    /\ altered' \in {altered \cup {c} : c \in Alterations(ct)}
    /\ UNCHANGED <<drawn, pairs, sent, received, encryptions>>

Decapsulate(k) == \E ct \in Ciphertexts :
    LET sk   == pairs[k]
        buf  == [lo |-> indcpa_dec(ct, sk.seed), hi |-> sk.hpk]
        kr   == Derive(buf)
        fail == verify(ct, indcpa_enc(buf.lo, sk.pk, kr.hi))
        pre  == cmov(kr.lo, sk.z, fail)
    IN  /\ received' = received \cup {[key |-> k, ct |-> ct, ss |-> Secret(pre, ct)]}
        /\ encryptions' = encryptions \cup {[m |-> buf.lo, pk |-> sk.pk, coins |-> kr.hi]}
        /\ UNCHANGED <<drawn, pairs, sent, altered>>

KemNext ==
    \/ \E k \in Keys \ DOMAIN pairs : Keypair(k)
    \/ \E k \in DOMAIN pairs : Encapsulate(k) \/ Decapsulate(k)
    \/ Alter

KemSpec == KemInit /\ [][KemNext]_kemVars

-----------------------------------------------------------------------------
(***************************************************************************)
(* Two secrets are the same exactly if they belong to the same ciphertext  *)
(* and key, on whichever side they were computed: the receiver of what was *)
(* sent shares the sender's secret, and nobody shares one otherwise        *)
(* (kem.c:69-72, 117-124).                                                 *)
(***************************************************************************)
SameSecretSameCiphertext ==
    \A x, y \in sent \cup received :
        x.ss = y.ss <=> x.key = y.key /\ x.ct = y.ct

(***************************************************************************)
(* A ciphertext that no encapsulation to the key made is answered with a   *)
(* secret that neither the public key nor any message and pre-key of an    *)
(* encapsulation or of the decryption itself yields (kem.c:115-121).       *)
(***************************************************************************)
Known(k) ==
    {pairs[k].pk, pairs[k].hpk}
    \cup {e.m : e \in encryptions}
    \cup {Derive([lo |-> e.m, hi |-> pairs[k].hpk]).lo : e \in encryptions}

RejectionIsSecret ==
    \A r \in received :
        (~\E s \in sent : s.key = r.key /\ s.ct = r.ct) =>
            \A x \in Known(r.key) : r.ss # Secret(x, r.ct)

(* Both sides share a secret if the ciphertext arrives intact, and only then. *)
SecretIffIntact == SameSecretSameCiphertext /\ RejectionIsSecret

(***************************************************************************)
(* The coins a message is encrypted with under a public key never encrypt  *)
(* another, when encapsulating or when encrypting again what an altered    *)
(* ciphertext decrypted to (kem.c:62-67, 107-113).                         *)
(***************************************************************************)
CoinsPerMessage ==
    \A x, y \in encryptions : x.pk = y.pk /\ x.coins = y.coins => x.m = y.m
=============================================================================
