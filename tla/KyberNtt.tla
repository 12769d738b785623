------------------------------ MODULE KyberNtt ------------------------------
(***************************************************************************)
(* The multiplication of two polynomials as the Kyber software does it: a  *)
(* polynomial is transformed, a block of a layer a step, multiplied with   *)
(* the transform of another, and transformed back.  The other polynomial   *)
(* is a monomial X^shift, so that the product is easy to tell.             *)
(***************************************************************************)
EXTENDS KyberPoly

Indices == 0..(KYBER_N - 1)

CONSTANTS
    Polynomials,    \* those that are multiplied
    Shifts          \* exponents of the monomials

(***************************************************************************)
(* What the constants must be: a transform of seven layers whose unreduced *)
(* sums fit 16 bits, roots reduced, and coefficients below KYBER_Q in      *)
(* magnitude.                                                              *)
(***************************************************************************)
ASSUME NttAssumption ==
    /\ KyberConstants /\ KYBER_Q * R <= 4 * BarrettPower
    /\ KYBER_N = 256 /\ 18 * KYBER_Q < R
    /\ \A b \in BOOLEAN : /\ \A k \in 1..127 : Canonical(Zetas[b][k])
                          /\ Canonical(Scale[b])
    /\ Polynomials \subseteq [Indices -> (1 - KYBER_Q)..(KYBER_Q - 1)]
    /\ Shifts \subseteq Indices

VARIABLES
    ntt_ise,        \* the build
    origin, shift,  \* the polynomial and the exponent
    ntt_pc,
    transform       \* the polynomial, and where the loops of ntt and invntt are

nttVars == <<ntt_ise, origin, shift, ntt_pc, transform>>

NoPolynomial == <<>>

(* As the build stores it: with the instructions a negative number plus KYBER_Q. *)
Stored(ise, p) == Map(LAMBDA a : Noise(ise, a, 0), p)

Monomial(n) == [i \in Indices |-> IF i = n THEN 1 ELSE 0]

NttInit ==
    /\ ntt_ise = FALSE /\ ntt_pc = "idle"
    /\ origin = NoPolynomial /\ shift = 0 /\ transform = NoPolynomial

NttBegin ==
    /\ ntt_pc = "idle"
    /\ ntt_ise' \in BOOLEAN /\ origin' \in Polynomials /\ shift' \in Shifts
    /\ transform' = NttStart(Stored(ntt_ise', origin'))
    /\ ntt_pc' = "ntt"

Forward ==
    /\ ntt_pc = "ntt" /\ transform.len >= 2
    /\ transform' = NttStep(ntt_ise, transform)
    /\ UNCHANGED <<ntt_ise, origin, shift, ntt_pc>>

(* poly_reduce after the transform. *)
EndForward ==
    /\ ntt_pc = "ntt" /\ transform.len < 2
    /\ transform' = [transform EXCEPT !.r = poly_reduce(ntt_ise, @)]
    /\ ntt_pc' = "transformed"
    /\ UNCHANGED <<ntt_ise, origin, shift>>

Multiply ==
    /\ ntt_pc = "transformed"
    /\ transform' = InvStart(poly_reduce(ntt_ise,
                poly_basemul_montgomery(ntt_ise, transform.r, poly_ntt(ntt_ise, Monomial(shift)))))
    /\ ntt_pc' = "invntt"
    /\ UNCHANGED <<ntt_ise, origin, shift>>

Backward ==
    /\ ntt_pc = "invntt" /\ transform.len < KYBER_N
    /\ transform' = InvStep(ntt_ise, transform)
    /\ UNCHANGED <<ntt_ise, origin, shift, ntt_pc>>

EndBackward ==
    /\ ntt_pc = "invntt" /\ transform.len >= KYBER_N
    /\ transform' = [transform EXCEPT !.r = InvScale(ntt_ise, @)]
    /\ ntt_pc' = "done"
    /\ UNCHANGED <<ntt_ise, origin, shift>>

NttNext == NttBegin \/ Forward \/ EndForward \/ Multiply \/ Backward \/ EndBackward

NttSpec == NttInit /\ [][NttNext]_nttVars

-----------------------------------------------------------------------------
(* The layers of ntt, by their len. *)
Layers == <<128, 64, 32, 16, 8, 4, 2>>

(***************************************************************************)
(* Without Kyber instructions no coefficient leaves its 16 bits before it  *)
(* is reduced: a layer of the transform adds at most Q.  With them every   *)
(* coefficient is canonical, as their operands have to be (ntt.c:178,      *)
(* ntt.c:270).                                                             *)
(***************************************************************************)
CoefficientsFit ==
    /\ ntt_ise => \A i \in Indices : Canonical(transform.r[i])
    /\ ntt_pc = "ntt" => \A l \in DOMAIN Layers : transform.len = Layers[l] =>
          \A i \in Indices : transform.r[i] \in (-(l + 1) * KYBER_Q)..((l + 1) * KYBER_Q)
    /\ ntt_pc = "transformed" => \A i \in Indices : transform.r[i] \in 0..KYBER_Q
    /\ ntt_pc = "invntt" => \A i \in Indices : transform.r[i] \in (1 - KYBER_Q)..KYBER_Q
    /\ ntt_pc = "done" => \A i \in Indices : transform.r[i] \in (1 - KYBER_Q)..(KYBER_Q - 1)

(***************************************************************************)
(* The transform is the Chinese remainder theorem: pair i of its result is *)
(* the polynomial modulo X^2 - zeta, where zeta is the power of the root   *)
(* the product multiplies that pair with (ntt.c:16-39, poly.c:321).        *)
(***************************************************************************)
PlainZeta(i) == PairZeta(TRUE, i)

RemainderModulo(p, i, first) ==
    LET Horner(acc, j) == (acc * PlainZeta(i) + p[KYBER_N - 2 * j + first]) % KYBER_Q
    IN  FoldLeft(Horner, 0, [j \in 1..(KYBER_N \div 2) |-> j])

Evaluates ==
    ntt_pc = "transformed" =>
        \A i \in {j \in Indices : j % 2 = 0} : \A first \in {0, 1} :
            transform.r[i + first] % KYBER_Q = RemainderModulo(origin, i, first)

(***************************************************************************)
(* Transformed back, the product is that of the polynomials modulo X^N + 1 *)
(* in either build, without a factor left over (ntt.c:234-237).            *)
(***************************************************************************)
Shifted(p, i) == IF i >= shift THEN p[i - shift] ELSE -p[KYBER_N + i - shift]

ProductInRing ==
    ntt_pc = "done" =>
        \A i \in Indices : (transform.r[i] - Shifted(origin, i)) % KYBER_Q = 0

(* Transforms evaluate at the roots, and products are those of the ring. *)
ProductIsRight == Evaluates /\ ProductInRing
=============================================================================
