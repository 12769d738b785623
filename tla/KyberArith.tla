----------------------------- MODULE KyberArith -----------------------------
(***************************************************************************)
(* The combinational Kyber datapath: the lane-wise adder of ibex_alu, the  *)
(* conditional correction and rounding logic of ibex_multdiv_fast, and the *)
(* constant multiplications of its Barrett reduction and compression.      *)
(* Operators take and return register values; nothing here has state.      *)
(***************************************************************************)
EXTENDS Words

CONSTANT
    CompressFrac     \* 2^16 times the fractional part of 2^24/Q (16'hB760)

ASSUME CompressFracAssumption == CompressFrac \in 0..(Half - 1)

BarrettBase == Lane * Lane                  \* 2^24
BarrettM    == BarrettBase \div Q           \* 5039

Lane13(x) == x % (2 * Lane)                 \* x[12:0]
Lane12(x) == x % Lane                       \* x[11:0]
LaneCarry(x) == (x \div Lane) % 2           \* x[12]

(***************************************************************************)
(* constant_5039_mult_result: the ALU adds 4x and x, the low 26 bits of    *)
(* the sum are shifted left by 10, and 64x, 16x and x are subtracted.      *)
(***************************************************************************)
ShiftAddChain(x) == ((4 * x + x) % (4 * BarrettBase)) * 1024 - 64 * x - 16 * x - x

(***************************************************************************)
(* (x * 5039) >> 24.  For products of coefficients this is ShiftAddChain  *)
(* shifted by 24 (theorem ShiftRight24Exact); multiplying the two lanes of *)
(* x separately avoids a product wider than 25 bits.                       *)
(***************************************************************************)
ShiftRight24Of5039(x) ==
    (BarrettM * (x \div Lane) + (BarrettM * (x % Lane)) \div Lane) \div Lane

(***************************************************************************)
(* adjust_adder with its multiplexer, subtracting: r - Q is computed as    *)
(* r + ~Q + 1 in 13 bits, and taken when bit 12 says that no borrow        *)
(* happened.                                                               *)
(***************************************************************************)
SubtractQ(r) ==
    LET s == r + 2 * Lane - Q
    IN  IF LaneCarry(s) = 0 THEN Lane12(s) ELSE Lane12(r)

(* adjust_adder with its multiplexer, adding Q when the selector says so.  *)
AddQIf(sel, r) == IF sel THEN Lane12(r + Q) ELSE Lane12(r)

(***************************************************************************)
(* KYBER_ADD: operand b is cut to its two lanes, operand a is not, and the *)
(* lanes share one 32-bit adder.                                           *)
(***************************************************************************)
KyberAdd(a, b) ==
    LET sum == a + Join(Lane12(Hi(b)), Lane12(Lo(b)))
    IN  Join(SubtractQ(Lane13(Hi(sum))), SubtractQ(Lane13(Lo(sum))))

(***************************************************************************)
(* KYBER_SUB: a + ~b + 1 in one adder.  Bit 15 is set in both operands, so *)
(* that the lower lane always carries the upper lane's + 1; bit 12 of a    *)
(* lane is then clear exactly when that lane borrowed.                     *)
(***************************************************************************)
KyberSub(a, b) ==
    LET guard == Half \div 2
        lowA  == guard + (Lo(a) % guard)
        lowB  == guard + (Lane - 1 - Lane12(Lo(b)))
        sum   == Join(Hi(a), lowA) + Join(Lane - 1 - Lane12(Hi(b)), lowB) + 1
        Fit(r) == AddQIf(LaneCarry(r) = 0, r)
    IN  Join(Fit(Lane13(Hi(sum))), Fit(Lane13(Lo(sum))))

(***************************************************************************)
(* KYBER_CBD2 and KYBER_CBD3: two coefficients from the low bits of a, as  *)
(* differences of bit counts, with Q added to a negative one.              *)
(***************************************************************************)
Bit(x, i) == (x \div 2^i) % 2

CbdDiff(a, eta, first) ==
    IF eta = 3
    THEN (Bit(a, first) + Bit(a, first + 1) + Bit(a, first + 2))
         - (Bit(a, first + 3) + Bit(a, first + 4) + Bit(a, first + 5))
    ELSE (Bit(a, first) + Bit(a, first + 1))
         - (Bit(a, first + 2) + Bit(a, first + 3))

KyberCbd(a, eta) ==
    LET low  == CbdDiff(a, eta, 0)
        high == CbdDiff(a, eta, 2 * eta)
    IN  Join(AddQIf(high < 0, high), AddQIf(low < 0, low))

(***************************************************************************)
(* The last two steps of KYBER_MUL: t * Q from the 16-bit multiplier, then *)
(* x - t*Q from the ALU with one conditional subtraction in the lower lane *)
(* (the upper lane's multiplexer passes the ALU sum through).              *)
(***************************************************************************)
TimesQ(t) == Lo(t) * Q

BarrettAdjust(x, tq) ==
    LET diff == x - tq
    IN  Join(Lane12(Hi(diff)), SubtractQ(Lane13(Lo(diff))))

(***************************************************************************)
(* KYBER_COMPRESS to d bits, levels = 2^d.  2^24/Q has the integer part    *)
(* 5039 and the fraction CompressFrac / 2^16: the two partial products are *)
(* formed in the first cycle and added in the second, where all but d + 1  *)
(* of the 24 bits are shifted out and the last one rounds.                 *)
(***************************************************************************)
CompressFracProduct(a) == Lo(a) * CompressFrac
CompressIntProduct(a)  == BarrettM * (a % BarrettBase)

(* Mutant of CompressRound: the last bit is cut off instead of rounded. *)
CompressTruncate(frac, int, levels) ==
    LET sum     == (Hi(frac) + int) % BarrettBase
        shifted == sum \div (BarrettBase \div (2 * levels))
    IN  Lane12(shifted \div 2) % levels

CompressRound(frac, int, levels) ==
    LET sum     == (Hi(frac) + int) % BarrettBase
        shifted == sum \div (BarrettBase \div (2 * levels))
    IN  Lane12((shifted \div 2) + (shifted % 2)) % levels
=============================================================================
