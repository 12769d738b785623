------------------------------- MODULE IndCpa -------------------------------
(***************************************************************************)
(* The encryption scheme under Kyber (indcpa.c): a key pair is generated,  *)
(* a message encrypted with the public key and decrypted with the secret   *)
(* one.  Matrix, noise and message are choices; everything between them is *)
(* computed as the code does, in the build the program was compiled for,   *)
(* in a ring that may be small.                                            *)
(***************************************************************************)
EXTENDS KyberPoly

CONSTANTS
    K,              \* KYBER_K
    UBits, VBits,   \* 2^d of polyvec_compress and of poly_compress
    Matrices,       \* what gen_matrix may expand a seed to
    Noise1, Noise2, \* noise vectors and noise polynomials, as differences of counts
    Messages,       \* bits
    Unassigned      \* what poly_tomsg's t, never assigned in the ISE build, may hold

VARIABLES ise, pc, keys, inputs, ct, out

vars == <<ise, pc, keys, inputs, ct, out>>

(* poly_getnoise: an ISE build stores a negative difference plus Q. *)
Sampled(i, p)    == Map(LAMBDA d : Noise(i, d, 0), p)
SampledVec(i, v) == MapVec(LAMBDA p : Sampled(i, p), v)

polyvec_ntt(i, v) == MapVec(LAMBDA p : poly_ntt(i, p), v)
polyvec_invntt_tomont(i, v) == MapVec(LAMBDA p : invntt(i, p), v)
polyvec_add(i, a, b) == [n \in 1..K |-> poly_add(i, a[n], b[n])]
polyvec_reduce(i, v) == MapVec(LAMBDA p : poly_reduce(i, p), v)

-----------------------------------------------------------------------------
indcpa_keypair(i, a, s, e) ==
    LET skpv == polyvec_ntt(i, SampledVec(i, s))
        Row(n) == poly_tomont(i, polyvec_pointwise_acc_montgomery(i, a[n], skpv))
        pkpv == polyvec_reduce(i, polyvec_add(i, [n \in 1..K |-> Row(n)],
                                             polyvec_ntt(i, SampledVec(i, e))))
    IN  [sk |-> MapVec(LAMBDA p : poly_tobytes(i, p), skpv),
         pk |-> [t |-> MapVec(LAMBDA p : poly_tobytes(i, p), pkpv), seed |-> a]]

(* gen_at: the matrix with rows and columns exchanged. *)
AtNotTransposed(a) == a         \* mutant
At(a) == [n \in 1..K |-> [k \in 1..K |-> a[k][n]]]

indcpa_enc(i, m, pk, r, e1, e2) ==
    LET at == At(pk.seed)
        sp == polyvec_ntt(i, SampledVec(i, r))
        bp == polyvec_invntt_tomont(i,
                [n \in 1..K |-> polyvec_pointwise_acc_montgomery(i, at[n], sp)])
        v  == invntt(i, polyvec_pointwise_acc_montgomery(i, pk.t, sp))
        b  == polyvec_reduce(i, polyvec_add(i, bp, SampledVec(i, e1)))
        w  == poly_reduce(i, poly_add(i, poly_add(i, v, Sampled(i, e2)), poly_frommsg(m)))
    IN  [u |-> MapVec(LAMBDA p : poly_compress(i, p, UBits), b),
         v |-> poly_compress(i, w, VBits)]

(* The bits of poly_tomsg; in the ISE build each step j of a byte also ORs t << j to it. *)
MessageBits(i, bits, t) ==
    [n \in DOMAIN bits |-> IF i /\ t % 2^((n % 8) + 1) # 0 THEN 1 ELSE bits[n]]

indcpa_dec(i, c, sk, t) ==
    LET bp == MapVec(LAMBDA p : poly_decompress(p, UBits), c.u)
        mp == invntt(i, polyvec_pointwise_acc_montgomery(i, sk, polyvec_ntt(i, bp)))
        w  == poly_reduce(i, poly_sub(i, poly_decompress(c.v, VBits), mp))
    IN  MessageBits(i, poly_tomsg(i, w), t)

-----------------------------------------------------------------------------
Nothing == <<>>

Init == /\ ise = FALSE /\ pc = "idle"
        /\ keys = Nothing /\ inputs = Nothing /\ ct = Nothing /\ out = Nothing

Keypair == \E a \in Matrices, s, e \in Noise1 :
    /\ pc = "idle"
    /\ ise' \in BOOLEAN
    /\ keys' = indcpa_keypair(ise', a, s, e)
    /\ inputs' = [a |-> a, s |-> s, e |-> e]
    /\ pc' = "keys"
    /\ UNCHANGED <<ct, out>>

Encrypt == \E m \in Messages, r, e1 \in Noise1, e2 \in Noise2 :
    /\ pc = "keys"
    /\ ct' = indcpa_enc(ise, m, keys.pk, r, e1, e2)
    /\ inputs' = [a |-> inputs.a, s |-> inputs.s, e |-> inputs.e,
                  m |-> m, r |-> r, e1 |-> e1, e2 |-> e2]
    /\ pc' = "encrypted"
    /\ UNCHANGED <<ise, keys, out>>

Decrypt == \E t \in Unassigned :
    /\ pc = "encrypted"
    /\ out' = indcpa_dec(ise, ct, keys.sk, t)
    /\ pc' = "decrypted"
    /\ UNCHANGED <<ise, keys, inputs, ct>>

Next == Keypair \/ Encrypt \/ Decrypt

Spec == Init /\ [][Next]_vars

-----------------------------------------------------------------------------
(***************************************************************************)
(* What is decrypted is what was encrypted, for all noise the sampler can  *)
(* make: no factor of the Montgomery domain, no missing reduction and no   *)
(* transposition of the matrix is left over between the three (indcpa.c).  *)
(***************************************************************************)
MessageComesBack == pc = "decrypted" => out = inputs.m

(***************************************************************************)
(* The build with the instructions and the one without make the same keys  *)
(* and ciphertexts of the same seeds, bit for bit, so that either can      *)
(* decapsulate what the other encapsulated (the known answers of           *)
(* kyber_KAT are the same for both).                                       *)
(***************************************************************************)
BuildsAgree ==
    /\ pc = "keys" => keys = indcpa_keypair(~ise, inputs.a, inputs.s, inputs.e)
    /\ pc = "encrypted" =>
          ct = indcpa_enc(~ise, inputs.m, keys.pk, inputs.r, inputs.e1, inputs.e2)

(***************************************************************************)
(* What is sent and stored is canonical: coefficients below Q fit the 12   *)
(* bits they are stored in, and those of a public key are operands the     *)
(* other side's instructions take (poly.c:142, cbd.c:58).                  *)
(***************************************************************************)
StoredCanonical ==
    pc = "keys" => \A n \in 1..K, i \in 0..(KYBER_N - 1) :
                      Canonical(keys.sk[n][i]) /\ Canonical(keys.pk.t[n][i])
=============================================================================
