----------------------------- MODULE KyberPoly -----------------------------
(***************************************************************************)
(* Polynomials of the Kyber software: the number theoretic transform and   *)
(* its inverse, products in its domain (ntt.c), and what poly.c and        *)
(* polyvec.c do to every coefficient.  A polynomial is a function on its   *)
(* N coefficients.                                                         *)
(***************************************************************************)
EXTENDS KyberReduce, Sequences, SequencesExt

CONSTANTS
    KYBER_N,    \* 256
    Zetas,      \* for each build, the KYBER_N/2 powers of the root of unity
    Scale       \* for each build, f of invntt

Map(Op(_), r) == [i \in DOMAIN r |-> Op(r[i])]

(***************************************************************************)
(* The body of ntt's two outer loops: block s.start of layer s.len, with   *)
(* the next power of the root.                                             *)
(***************************************************************************)
NttBlock(ise, r, len, start, zeta) ==
    LET t(j) == fqmul(ise, zeta, r[j + len])
    IN  [i \in DOMAIN r |->
            IF i \in start..(start + len - 1) THEN Plus(ise, r[i], t(i))
            ELSE IF i \in (start + len)..(start + 2 * len - 1)
                 THEN Minus(ise, r[i - len], t(i - len))
            ELSE r[i]]

NttStart(r) == [r |-> r, len |-> KYBER_N \div 2, start |-> 0, k |-> 1]

NttStep(ise, s) ==
    LET next == s.start + 2 * s.len
    IN  [r     |-> NttBlock(ise, s.r, s.len, s.start, Zetas[ise][s.k]),
         k     |-> s.k + 1,
         len   |-> IF next < KYBER_N THEN s.len ELSE s.len \div 2,
         start |-> IF next < KYBER_N THEN next ELSE 0]

ntt(ise, r) ==
    LET Step(s, block) == NttStep(ise, s)
    IN  FoldLeft(Step, NttStart(r), [block \in 1..(KYBER_N \div 2 - 1) |-> block]).r

(* invntt: the layers and the roots in reverse. *)
InvNoReduce(ise, r, len, start, zeta) ==        \* mutant: the sum is not reduced
    [i \in DOMAIN r |->
        IF i \in start..(start + len - 1) THEN Plus(ise, r[i], r[i + len])
        ELSE IF i \in (start + len)..(start + 2 * len - 1)
             THEN fqmul(ise, zeta, Minus(ise, r[i], r[i - len]))
        ELSE r[i]]

InvBlock(ise, r, len, start, zeta) ==
    [i \in DOMAIN r |->
        IF i \in start..(start + len - 1) THEN Reduce(ise, Plus(ise, r[i], r[i + len]))
        ELSE IF i \in (start + len)..(start + 2 * len - 1)
             THEN fqmul(ise, zeta, Minus(ise, r[i], r[i - len]))
        ELSE r[i]]

InvStart(r) == [r |-> r, len |-> 2, start |-> 0, k |-> KYBER_N \div 2 - 1]

InvStep(ise, s) ==
    LET next == s.start + 2 * s.len
    IN  [r     |-> InvBlock(ise, s.r, s.len, s.start, Zetas[ise][s.k]),
         k     |-> s.k - 1,
         len   |-> IF next < KYBER_N THEN s.len ELSE 2 * s.len,
         start |-> IF next < KYBER_N THEN next ELSE 0]

InvScale(ise, r) == Map(LAMBDA a : fqmul(ise, a, Scale[ise]), r)

invntt(ise, r) ==
    LET Step(s, block) == InvStep(ise, s)
    IN  InvScale(ise, FoldLeft(Step, InvStart(r), [block \in 1..(KYBER_N \div 2 - 1) |-> block]).r)

-----------------------------------------------------------------------------
(* basemul on the pair of coefficients i and i + 1. *)
BasemulPair(ise, a, b, i, zeta) ==
    <<Plus(ise, fqmul(ise, fqmul(ise, a[i + 1], b[i + 1]), zeta), fqmul(ise, a[i], b[i])),
      Plus(ise, fqmul(ise, a[i], b[i + 1]), fqmul(ise, a[i + 1], b[i]))>>

PairZetaPlus(ise, i) == Zetas[ise][KYBER_N \div 4 + i \div 4]         \* mutant: never negated

(* Even pairs multiply modulo X^2 - zeta, odd ones modulo X^2 + zeta. *)
PairZeta(ise, i) ==
    LET zeta == Zetas[ise][KYBER_N \div 4 + i \div 4]
    IN  IF i % 4 = 0 THEN zeta ELSE IF ise THEN KYBER_Q - zeta ELSE -zeta

poly_basemul_montgomery(ise, a, b) ==
    LET pair(i) == BasemulPair(ise, a, b, i, PairZeta(ise, i))
    IN  [i \in DOMAIN a |-> IF i % 2 = 0 THEN pair(i)[1] ELSE pair(i - 1)[2]]

poly_reduce(ise, r) == Map(LAMBDA a : Reduce(ise, a), r)
poly_csubq(ise, r)  == Map(LAMBDA a : CondSubQ(ise, a), r)
poly_add(ise, a, b) == [i \in DOMAIN a |-> Plus(ise, a[i], b[i])]
poly_sub(ise, a, b) == [i \in DOMAIN a |-> Minus(ise, a[i], b[i])]

poly_ntt(ise, r) == poly_reduce(ise, ntt(ise, r))

(* f = 2^32 mod Q brings a product back; the ISE build has nothing to bring back. *)
TomontNot(ise, r) == r          \* mutant: forgotten
poly_tomont(ise, r) ==
    IF ise THEN r ELSE Map(LAMBDA a : montgomery_reduce(a * (((R % KYBER_Q) * (R % KYBER_Q)) % KYBER_Q)), r)

-----------------------------------------------------------------------------
(* Serialisation: 12 bits a coefficient, or as many as it is compressed to. *)
poly_tobytes(ise, r)  == Map(LAMBDA a : a % 4096, poly_csubq(ise, r))

poly_compress(ise, r, levels) == Map(LAMBDA a : Compress(a, levels), poly_csubq(ise, r))
poly_decompress(c, levels)    == Map(LAMBDA y : Decompress(y, levels), c)

poly_frommsg(msg)   == Map(FromBit, msg)
poly_tomsg(ise, r)  == poly_compress(ise, r, 2)

(* Vectors of polynomials. *)
MapVec(Op(_), v) == [i \in DOMAIN v |-> Op(v[i])]

polyvec_pointwise_acc_montgomery(ise, a, b) ==
    LET Add(sum, i) == poly_add(ise, sum, poly_basemul_montgomery(ise, a[i], b[i]))
        first == poly_basemul_montgomery(ise, a[1], b[1])
    IN  poly_reduce(ise, FoldLeft(Add, first, [i \in 1..(Len(a) - 1) |-> i + 1]))
=============================================================================
