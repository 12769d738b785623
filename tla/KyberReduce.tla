---------------------------- MODULE KyberReduce ----------------------------
(***************************************************************************)
(* The arithmetic modulo Q of the Kyber software (reduce.c, fqmul of       *)
(* ntt.c, and the rounding of poly.c and polyvec.c) in its two builds:     *)
(* the reference build computes in 16-bit integers and reduces now and     *)
(* then, the build for the Kyber instructions (ise, -DKYBER_ISE) leaves    *)
(* every reduction to them and keeps coefficients in 0..Q-1.  What the     *)
(* instructions compute is IsaRef's; the multiplier unit implements it.    *)
(***************************************************************************)
EXTENDS Integers

CONSTANTS
    KYBER_Q,        \* 3329
    R,              \* values of an int16_t, 2^16, the Montgomery factor
    QINV,           \* the inverse of KYBER_Q modulo R, between -R/2 and R/2
    BarrettPower    \* 2^26

(* What the constants must have to do with each other. *)
ReductionConstants(q, r, qinv, power) ==
    /\ q \in Nat /\ r \in Nat /\ power \in Nat
    /\ q > 2 /\ q % 2 = 1 /\ r % 2 = 0 /\ 4 * q < r
    /\ qinv \in (-(r \div 2))..(r \div 2) /\ (q * qinv) % r = 1

KyberConstants == ReductionConstants(KYBER_Q, R, QINV, BarrettPower)

(* Conversion to int16_t. *)
Int16(x) == ((x + R \div 2) % R) - R \div 2

(* Coefficients reduced completely. *)
Canonical(a) == a \in 0..(KYBER_Q - 1)

-----------------------------------------------------------------------------
(* u = a * QINV; t = (a - u * Q) >> 16 *)
montgomery_reduce(a) ==
    LET u == Int16((a % R) * QINV)
    IN  Int16((a - u * KYBER_Q) \div R)

barrett_reduce(a) ==
    LET v == (BarrettPower + KYBER_Q \div 2) \div KYBER_Q
        t == (v * a) \div BarrettPower
    IN  Int16(a - t * KYBER_Q)

csubq(a) ==
    LET b == Int16(a - KYBER_Q)
    IN  Int16(b + (IF b < 0 THEN KYBER_Q ELSE 0))

(* fqmul: the product with one factor 1/R in the reference build. *)
fqmul(ise, a, b) == IF ise THEN (a * b) % KYBER_Q ELSE montgomery_reduce(a * b)

(* An addition and a subtraction of coefficients. *)
Plus(ise, a, b)  == IF ise THEN (a + b) % KYBER_Q ELSE Int16(a + b)
Minus(ise, a, b) == IF ise THEN (a - b) % KYBER_Q ELSE Int16(a - b)

(* barrett_reduce and csubq on whole polynomials do nothing in the ISE build. *)
Reduce(ise, a)   == IF ise THEN a ELSE barrett_reduce(a)
CondSubQ(ise, a) == IF ise THEN a ELSE csubq(a)

-----------------------------------------------------------------------------
(* Coefficients to d bits and back; levels = 2^d. *)
Compress(a, levels) == (((a % R) * levels + KYBER_Q \div 2) \div KYBER_Q) % levels

Decompress(y, levels) == (y * KYBER_Q + levels \div 2) \div levels

(* A bit of a message, and the coefficient nearest to it. *)
FromBit(bit) == IF bit = 1 THEN (KYBER_Q + 1) \div 2 ELSE 0

(* A difference of two counts of bits, as cbd2 and cbd3 store it. *)
Noise(ise, a, b) == IF ise THEN (a - b) % KYBER_Q ELSE a - b
=============================================================================
