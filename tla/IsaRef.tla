------------------------------- MODULE IsaRef -------------------------------
(***************************************************************************)
(* What the instructions are to compute: the RISC-V M extension, and the   *)
(* modular arithmetic the Kyber software expects of its instructions (the  *)
(* reference values poly.c, cbd.c and kyber_ni_test.c compare them with).  *)
(***************************************************************************)
EXTENDS Words

(* Quotient truncated towards zero. *)
TruncDiv(x, y) ==
    LET Abs(n) == IF n < 0 THEN -n ELSE n
        magnitude == Abs(x) \div Abs(y)
    IN  IF (x < 0) = (y < 0) THEN magnitude ELSE -magnitude

MulLow(a, b)       == (a * b) % W
MulHigh(a, b, sa, sb) == ((Signed(a, sa) * Signed(b, sb)) \div W) % W
DivRef(a, b, s)    == IF b = 0 THEN W - 1
                      ELSE TruncDiv(Signed(a, s), Signed(b, s)) % W
RemRef(a, b, s)    ==
    IF b = 0 THEN a
    ELSE LET x == Signed(a, s)
             y == Signed(b, s)
         IN  (x - y * TruncDiv(x, y)) % W

(* One operation on each of the two coefficients of a word. *)
AddRef(a, b) == Join((Hi(a) + Hi(b)) % Q, (Lo(a) + Lo(b)) % Q)
SubRef(a, b) == Join((Hi(a) - Hi(b)) % Q, (Lo(a) - Lo(b)) % Q)

(* The product of the lower coefficients. *)
MulModRef(a, b) == (Lo(a) * Lo(b)) % Q

(* Centered binomial samples of two groups of 2*eta bits of a. *)
BitAt(a, i) == (a \div 2^i) % 2
Ones(a, first, n) == IF n = 2 THEN BitAt(a, first) + BitAt(a, first + 1)
                     ELSE BitAt(a, first) + BitAt(a, first + 1) + BitAt(a, first + 2)
CbdRef(a, eta) ==
    LET Sample(first) == (Ones(a, first, eta) - Ones(a, first + eta, eta)) % Q
    IN  Join(Sample(2 * eta), Sample(0))

(* round(2^d / Q * a) mod 2^d. *)
CompressRef(a, levels) == ((a * levels + Q \div 2) \div Q) % levels

Ref(i) ==
    CASE i.op = "MULL"           -> MulLow(i.a, i.b)
      [] i.op = "MULH"           -> MulHigh(i.a, i.b, i.sa, i.sb)
      [] i.op = "DIV"            -> DivRef(i.a, i.b, i.sa)
      [] i.op = "REM"            -> RemRef(i.a, i.b, i.sa)
      [] i.op = "KYBER_ADD"      -> AddRef(i.a, i.b)
      [] i.op = "KYBER_SUB"      -> SubRef(i.a, i.b)
      [] i.op = "KYBER_MUL"      -> MulModRef(i.a, i.b)
      [] i.op = "KYBER_CBD2"     -> CbdRef(i.a, 2)
      [] i.op = "KYBER_CBD3"     -> CbdRef(i.a, 3)
      [] i.op = "KYBER_COMPRESS" -> CompressRef(i.a, i.b)
=============================================================================
