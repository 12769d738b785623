------------------------------ MODULE MultDiv ------------------------------
(***************************************************************************)
(* The multiplier/divider of the Ibex execution block with the Kyber       *)
(* extension (ibex_multdiv_fast.sv, RV32M = RV32MFast), the two            *)
(* intermediate value registers it borrows from the ID stage, and the ALU  *)
(* adder it borrows from the ALU.  One step is one clock edge.             *)
(*                                                                         *)
(* The ID stage is reduced to its contract with this unit: an instruction  *)
(* and its operands stay until their result is valid, execution may be     *)
(* held back before the first executing cycle but never once it started,   *)
(* and multdiv_ready_id_i is high whenever mult_en_i or div_en_i is.       *)
(*                                                                         *)
(* The divider's counter is kept as its power of two, one_shift =          *)
(* 2^div_counter_q: the hardware only ever uses it as a bit position.      *)
(***************************************************************************)
EXTENDS KyberArith, IsaRef

CONSTANTS
    Instrs,      \* the instructions the program issues, as far as they are legal
    MaxInstr     \* bound: how many instructions a behaviour issues

VARIABLES
    instr,              \* the instruction in the ID stage
    data_ind_timing,    \* CSR bit: data independent timing
    mult_state_q,       \* multiplier state
    md_state_q,         \* divider state
    imd0, imd1,         \* imd_val_q[0], imd_val_q[1]
    op_numerator_q, op_quotient_q, one_shift, div_by_zero_q,
    rf_wdata,           \* last result written back
    cycles,             \* executing cycles of the instruction in ID (ghost)
    issued              \* instructions issued so far (bound)

divRegs == <<op_numerator_q, op_quotient_q, one_shift, div_by_zero_q>>
vars == <<instr, data_ind_timing, mult_state_q, md_state_q, imd0, imd1,
          divRegs, rf_wdata, cycles, issued>>

MulOps      == {"MULL", "MULH"}
DivOps      == {"DIV", "REM"}
KyberAluOps == {"KYBER_ADD", "KYBER_SUB", "KYBER_CBD2", "KYBER_CBD3"}
KyberMacOps == {"KYBER_MUL", "KYBER_COMPRESS"}
Ops         == MulOps \cup DivOps \cup KyberAluOps \cup KyberMacOps

MultStates == {"ALBL", "ALBH", "AHBL", "AHBH", "KYBER_BARRETT_MULT_M",
               "KYBER_BARRETT_MULT_Q", "KYBER_BARRETT_SUB_ADJUST",
               "KYBER_COMPRESS"}
MdStates   == {"MD_IDLE", "MD_ABS_A", "MD_ABS_B", "MD_COMP", "MD_LAST",
               "MD_CHANGE_SIGN", "MD_FINISH"}

(***************************************************************************)
(* An operation with its operands (sa, sb: signed_mode_i[0] and [1]).      *)
(* Kyber operands are reduced coefficients, in both lanes when the         *)
(* operation has two; operand b of KYBER_COMPRESS, the number d of bits,   *)
(* is kept as 2^d.                                                         *)
(***************************************************************************)
NoInstr == [op |-> "NONE", a |-> 0, b |-> 0, sa |-> FALSE, sb |-> FALSE]

Coeffs(w) == IsWord(w) /\ Lo(w) < Q /\ Hi(w) < Q

LegalInstr(i) ==
    /\ i.op \in Ops
    /\ i.sa \in BOOLEAN /\ i.sb \in BOOLEAN
    /\ IsWord(i.a) /\ IsWord(i.b)
    /\ i.sb => i.sa
    /\ i.op \in DivOps => i.sa = i.sb
    /\ i.op \notin DivOps \cup {"MULH"} => ~i.sa
    /\ i.op \in {"KYBER_ADD", "KYBER_SUB", "KYBER_MUL"} => Coeffs(i.a) /\ Coeffs(i.b)
    /\ i.op = "KYBER_COMPRESS" => /\ i.a < Q /\ i.b \in {2, 16, 32, 1024, 2048}
                                  /\ 2 * i.b <= BarrettBase

ASSUME MaxInstrAssumption == MaxInstr \in Nat

-----------------------------------------------------------------------------
(***************************************************************************)
(* The 17 x 17 bit multiply-accumulate (mac_res_d) in each state of the    *)
(* 32 x 32 multiplication.  A half is signed when the operand is and the   *)
(* half is the upper one; products accumulate in 34 bits.                  *)
(***************************************************************************)
SignedHi(w, s) == IF s /\ Neg(w) THEN Hi(w) - Half ELSE Hi(w)

MacALBL == Lo(instr.a) * Lo(instr.b)

MacALBH ==
    LET mac == (Lo(instr.a) * SignedHi(instr.b, instr.sb) + Lo(Hi(imd0))) % (4 * W)
    IN  IF instr.op = "MULL" THEN Join(Lo(mac), Lo(imd0)) ELSE mac

MacAHBL ==
    LET product == SignedHi(instr.a, instr.sa) * Lo(instr.b)
    IN  IF instr.op = "MULL"
        THEN Join(Lo(product + Lo(Hi(imd0))), Lo(imd0))
        ELSE (product + imd0) % (4 * W)

(* Mutant of MacAHBH: the accumulator is not sign-extended. *)
MacAHBHUnsigned ==
    (SignedHi(instr.a, instr.sa) * SignedHi(instr.b, instr.sb) + Hi(imd0)) % (4 * W)

(* The accumulator is imd0 >> 16, sign-extended if the product is signed.  *)
MacAHBH ==
    LET fill  == IF (instr.sa \/ instr.sb) /\ imd0 >= 2 * W
                 THEN 4 * W - 4 * Half ELSE 0
        accum == Hi(imd0) + fill
    IN  (SignedHi(instr.a, instr.sa) * SignedHi(instr.b, instr.sb) + accum) % (4 * W)

(***************************************************************************)
(* The divider's adder computes remainder - divisor; the comparison looks  *)
(* only at the top bits of the operands and of the difference.             *)
(***************************************************************************)
Remainder   == imd0 % W
Denominator == imd1
Difference  == (Remainder - Denominator) % W

(* Mutant of is_greater_equal: only the sign of the difference counts. *)
DifferencePositive == ~Neg(Difference)

is_greater_equal ==
    IF Neg(Remainder) = Neg(Denominator) THEN ~Neg(Difference) ELSE Neg(Remainder)

next_remainder == IF is_greater_equal THEN Difference ELSE Remainder

next_quotient ==
    IF is_greater_equal /\ (op_quotient_q \div one_shift) % 2 = 0
    THEN op_quotient_q + one_shift
    ELSE op_quotient_q

(* div_counter_q - 1 in five bits. *)
next_shift == IF one_shift = 1 THEN W \div 2 ELSE one_shift \div 2

Abs32(w, s) == IF s /\ Neg(w) THEN (-w) % W ELSE w

div_change_sign ==
    /\ (instr.sa /\ Neg(instr.a)) # (instr.sb /\ Neg(instr.b))
    /\ ~div_by_zero_q
rem_change_sign == instr.sa /\ Neg(instr.a)

KyberAluResult ==
    CASE instr.op = "KYBER_ADD"  -> KyberAdd(instr.a, instr.b)
      [] instr.op = "KYBER_SUB"  -> KyberSub(instr.a, instr.b)
      [] instr.op = "KYBER_CBD2" -> KyberCbd(instr.a, 2)
      [] instr.op = "KYBER_CBD3" -> KyberCbd(instr.a, 3)

-----------------------------------------------------------------------------
Init ==
    /\ instr = NoInstr
    /\ data_ind_timing \in BOOLEAN
    /\ mult_state_q = "ALBL"
    /\ md_state_q = "MD_IDLE"
    /\ imd0 = 0 /\ imd1 = 0
    /\ op_numerator_q = 0 /\ op_quotient_q = 0
    /\ one_shift = 1
    /\ div_by_zero_q = FALSE
    /\ rf_wdata = 0
    /\ cycles = 0
    /\ issued = 0

(***************************************************************************)
(* A new instruction reaches the ID stage; the timing mode may have been   *)
(* changed by a CSR instruction before it.                                 *)
(***************************************************************************)
Accept(i) ==
    /\ LegalInstr(i) /\ instr' = i
    /\ data_ind_timing' \in BOOLEAN
    /\ cycles' = 0
    /\ issued' = issued + 1
    /\ UNCHANGED <<mult_state_q, md_state_q, imd0, imd1, divRegs, rf_wdata>>

Issue ==
    /\ instr = NoInstr
    /\ issued < MaxInstr
    /\ \E i \in Instrs : Accept(i)

(***************************************************************************)
(* A cycle in which the instruction is held back (instr_executing low):    *)
(* the state machines keep their state, but the write enables of the       *)
(* intermediate registers of a Kyber multiplication are not gated by it.   *)
(***************************************************************************)
Held ==
    /\ instr.op \in KyberMacOps
    /\ mult_state_q = "ALBL"
    /\ IF instr.op = "KYBER_MUL"
       THEN imd0' = MacALBL /\ UNCHANGED imd1
       ELSE /\ imd0' = CompressFracProduct(instr.a)
            /\ imd1' = CompressIntProduct(instr.a)
    /\ UNCHANGED <<instr, data_ind_timing, mult_state_q, md_state_q, divRegs,
                   rf_wdata, cycles, issued>>

(* An executing cycle of the multiplier. *)
MultCycle(ops, from, to) ==
    /\ instr.op \in ops
    /\ mult_state_q = from
    /\ mult_state_q' = to
    /\ cycles' = cycles + 1
    /\ UNCHANGED <<data_ind_timing, md_state_q, divRegs, issued>>

(* An executing cycle of the divider. *)
DivCycle(from, to) ==
    /\ instr.op \in DivOps
    /\ md_state_q = from
    /\ md_state_q' = to
    /\ cycles' = cycles + 1
    /\ UNCHANGED <<data_ind_timing, mult_state_q, issued>>

(* valid_o: the ID stage writes the result back and is done. *)
Done(result) ==
    /\ rf_wdata' = result
    /\ instr' = NoInstr

Continue == UNCHANGED <<instr, rf_wdata>>

-----------------------------------------------------------------------------
(* MUL takes ALBL, ALBH, AHBL; MULH, MULHSU and MULHU take AHBH as well.   *)
MulALBL ==
    /\ MultCycle(MulOps, "ALBL", "ALBH")
    /\ imd0' = MacALBL
    /\ Continue /\ UNCHANGED imd1

(* Mutant of MulALBH: the second cross product is skipped. *)
MulALBHSkips ==
    /\ MultCycle(MulOps, "ALBH", "AHBH")
    /\ imd0' = MacALBH
    /\ Continue /\ UNCHANGED imd1

MulALBH ==
    /\ MultCycle(MulOps, "ALBH", "AHBL")
    /\ imd0' = MacALBH
    /\ Continue /\ UNCHANGED imd1

MullAHBL ==
    /\ MultCycle({"MULL"}, "AHBL", "ALBL")
    /\ imd0' = MacAHBL
    /\ Done(MacAHBL) /\ UNCHANGED imd1

MulhAHBL ==
    /\ MultCycle({"MULH"}, "AHBL", "AHBH")
    /\ imd0' = MacAHBL
    /\ Continue /\ UNCHANGED imd1

MulhAHBH ==
    /\ MultCycle({"MULH"}, "AHBH", "ALBL")
    /\ imd0' = MacAHBH
    /\ Done(MacAHBH % W) /\ UNCHANGED imd1

(* The single-cycle Kyber instructions leave the multiplier where it is.   *)
KyberAlu ==
    /\ MultCycle(KyberAluOps, "ALBL", "ALBL")
    /\ imd0' = KyberAluResult
    /\ Done(KyberAluResult) /\ UNCHANGED imd1

(***************************************************************************)
(* KYBER_MUL: x = a*b, t = x*5039 >> 24, t*3329, x - t*3329 corrected.     *)
(***************************************************************************)
KyberMulALBL ==
    /\ MultCycle({"KYBER_MUL"}, "ALBL", "KYBER_BARRETT_MULT_M")
    /\ imd0' = MacALBL
    /\ Continue /\ UNCHANGED imd1

KyberMultM ==
    /\ MultCycle({"KYBER_MUL"}, "KYBER_BARRETT_MULT_M", "KYBER_BARRETT_MULT_Q")
    /\ imd1' = ShiftRight24Of5039(imd0)
    /\ Continue /\ UNCHANGED imd0

KyberMultQ ==
    /\ MultCycle({"KYBER_MUL"}, "KYBER_BARRETT_MULT_Q", "KYBER_BARRETT_SUB_ADJUST")
    /\ imd1' = TimesQ(imd1)
    /\ Continue /\ UNCHANGED imd0

KyberSubAdjust ==
    /\ MultCycle({"KYBER_MUL"}, "KYBER_BARRETT_SUB_ADJUST", "ALBL")
    /\ Done(BarrettAdjust(imd0, imd1)) /\ UNCHANGED <<imd0, imd1>>

(* KYBER_COMPRESS: both partial products, then their rounded sum. *)
CompressALBL ==
    /\ MultCycle({"KYBER_COMPRESS"}, "ALBL", "KYBER_COMPRESS")
    /\ imd0' = CompressFracProduct(instr.a)
    /\ imd1' = CompressIntProduct(instr.a)
    /\ Continue

CompressSum ==
    /\ MultCycle({"KYBER_COMPRESS"}, "KYBER_COMPRESS", "ALBL")
    /\ Done(CompressRound(imd0, imd1, instr.b)) /\ UNCHANGED <<imd0, imd1>>

-----------------------------------------------------------------------------
(***************************************************************************)
(* The divider: absolute values, one quotient bit per cycle from the top,  *)
(* signs.  imd0 is the remainder, imd1 the divisor.  A divisor of zero     *)
(* finishes at once, unless timing is to be independent of the data.       *)
(***************************************************************************)
(* Mutant of SkipDivision: the timing mode is ignored. *)
SkipWhateverTiming == instr.b = 0

SkipDivision == ~data_ind_timing /\ instr.b = 0

DivIdle ==
    /\ DivCycle("MD_IDLE", IF SkipDivision THEN "MD_FINISH" ELSE "MD_ABS_A")
    /\ IF instr.op = "DIV"
       THEN imd0' = 4 * W - 1 /\ div_by_zero_q' = (instr.b = 0)
       ELSE imd0' = instr.a /\ UNCHANGED div_by_zero_q
    /\ one_shift' = W \div 2
    /\ Continue /\ UNCHANGED <<imd1, op_numerator_q, op_quotient_q>>

DivAbsA ==
    /\ DivCycle("MD_ABS_A", "MD_ABS_B")
    /\ op_quotient_q' = 0
    /\ op_numerator_q' = Abs32(instr.a, instr.sa)
    /\ one_shift' = W \div 2
    /\ Continue /\ UNCHANGED <<imd0, imd1, div_by_zero_q>>

DivAbsB ==
    /\ DivCycle("MD_ABS_B", "MD_COMP")
    /\ imd0' = IF Neg(op_numerator_q) THEN 1 ELSE 0
    /\ imd1' = Abs32(instr.b, instr.sb)
    /\ one_shift' = W \div 2
    /\ Continue /\ UNCHANGED <<op_numerator_q, op_quotient_q, div_by_zero_q>>

DivComp ==
    /\ DivCycle("MD_COMP", IF next_shift = 1 THEN "MD_LAST" ELSE "MD_COMP")
    /\ imd0' = 2 * next_remainder + ((op_numerator_q \div next_shift) % 2)
    /\ op_quotient_q' = next_quotient
    /\ one_shift' = next_shift
    /\ Continue /\ UNCHANGED <<imd1, op_numerator_q, div_by_zero_q>>

DivLast ==
    /\ DivCycle("MD_LAST", "MD_CHANGE_SIGN")
    /\ imd0' = IF instr.op = "DIV" THEN next_quotient ELSE next_remainder
    /\ one_shift' = next_shift
    /\ Continue /\ UNCHANGED <<imd1, op_numerator_q, op_quotient_q, div_by_zero_q>>

DivChangeSign ==
    /\ DivCycle("MD_CHANGE_SIGN", "MD_FINISH")
    /\ imd0' = IF (IF instr.op = "DIV" THEN div_change_sign ELSE rem_change_sign)
               THEN (-Remainder) % W ELSE imd0
    /\ one_shift' = next_shift
    /\ Continue /\ UNCHANGED <<imd1, op_numerator_q, op_quotient_q, div_by_zero_q>>

DivFinish ==
    /\ DivCycle("MD_FINISH", "MD_IDLE")
    /\ one_shift' = next_shift
    /\ Done(imd0 % W)
    /\ UNCHANGED <<imd0, imd1, op_numerator_q, op_quotient_q, div_by_zero_q>>

-----------------------------------------------------------------------------
MultStep ==
    \/ MulALBL \/ MulALBH \/ MullAHBL \/ MulhAHBL \/ MulhAHBH
    \/ KyberAlu
    \/ KyberMulALBL \/ KyberMultM \/ KyberMultQ \/ KyberSubAdjust
    \/ CompressALBL \/ CompressSum

DivStep ==
    \/ DivIdle \/ DivAbsA \/ DivAbsB \/ DivComp \/ DivLast
    \/ DivChangeSign \/ DivFinish

Next == Issue \/ Held \/ MultStep \/ DivStep

Safety == Init /\ [][Next]_vars

(***************************************************************************)
(* The clock does not stop, and an instruction is held back only while a   *)
(* memory response or a writeback is awaited: it executes eventually.      *)
(***************************************************************************)
Spec == Safety /\ WF_vars(MultStep \/ DivStep)

-----------------------------------------------------------------------------
(* Every register holds a value of its width. *)
TypeOK ==
    /\ instr \in Instrs \cup {NoInstr}
    /\ instr # NoInstr => LegalInstr(instr)
    /\ data_ind_timing \in BOOLEAN
    /\ mult_state_q \in MultStates
    /\ md_state_q \in MdStates
    /\ IsWord34(imd0) /\ IsWord(imd1)
    /\ IsWord(op_numerator_q) /\ IsWord(op_quotient_q)
    /\ IsWord(one_shift) /\ one_shift > 0
    /\ div_by_zero_q \in BOOLEAN
    /\ IsWord(rf_wdata)
    /\ cycles \in Nat
    /\ issued \in 0..MaxInstr

(***************************************************************************)
(* An instruction finds both state machines at rest, whatever ran before   *)
(* it, and only the one it uses ever leaves its resting state.             *)
(***************************************************************************)
RestingStates ==
    /\ mult_state_q # "ALBL" => instr.op \in MulOps \cup KyberMacOps
    /\ md_state_q # "MD_IDLE" => instr.op \in DivOps

(***************************************************************************)
(* The quotient estimate of the Barrett reduction is at most one too small *)
(* for every product of two coefficients, so that the single conditional   *)
(* subtraction of KYBER_BARRETT_SUB_ADJUST suffices.                       *)
(***************************************************************************)
BarrettBound ==
    mult_state_q = "KYBER_BARRETT_SUB_ADJUST" => imd0 - imd1 \in 0..(2 * Q - 1)

(***************************************************************************)
(* The restoring division: the bits of the numerator consumed so far equal *)
(* quotient times divisor plus remainder, and the remainder lacks at most  *)
(* one subtraction of the divisor.                                         *)
(***************************************************************************)
DivisionLoop ==
    md_state_q \in {"MD_COMP", "MD_LAST"} =>
        /\ op_numerator_q \div one_shift =
               2 * (op_quotient_q \div (2 * one_shift)) * imd1 + imd0
        /\ imd1 # 0 => imd0 < 2 * imd1
        /\ md_state_q = "MD_LAST" => one_shift = 1

(***************************************************************************)
(* The inductive invariant of the proofs: the registers of a Kyber         *)
(* multiplication hold what the earlier cycles computed, and the quotient  *)
(* of a division has room for the bits still to come.                      *)
(***************************************************************************)
KyberMulPipeline ==
    LET x == Lo(instr.a) * Lo(instr.b)
        t == ShiftRight24Of5039(x)
    IN  /\ mult_state_q \in {"KYBER_BARRETT_MULT_M", "KYBER_BARRETT_MULT_Q",
                             "KYBER_BARRETT_SUB_ADJUST"}
               => instr.op = "KYBER_MUL" /\ imd0 = x
        /\ mult_state_q = "KYBER_BARRETT_MULT_Q" => imd1 = t
        /\ mult_state_q = "KYBER_BARRETT_SUB_ADJUST" => imd1 = TimesQ(t)

QuotientRoom ==
    /\ md_state_q = "MD_ABS_B" => op_quotient_q = 0
    /\ md_state_q \in {"MD_COMP", "MD_LAST"} => op_quotient_q + 2 * one_shift <= W
    /\ md_state_q = "MD_COMP" => one_shift >= 2

IInv == TypeOK /\ RestingStates /\ KyberMulPipeline /\ QuotientRoom

(* The registers of all units, and of the division in progress. *)
UnitInv == IInv /\ DivisionLoop

(***************************************************************************)
(* Results: the unit implements ExecAbs, step by step.                     *)
(***************************************************************************)
Exec == INSTANCE ExecAbs
ExecSafety == Exec!Safety

(* And every instruction does retire. *)
ExecSpec == Exec!Spec

(***************************************************************************)
(* With data_ind_timing set the number of executing cycles depends on the  *)
(* operation alone; without it only a division by zero is faster.          *)
(***************************************************************************)
WordBits == CHOOSE n \in 1..64 : 2^n = W

FixedLatency(op) ==
    CASE op = "MULL" -> 3
      [] op = "MULH" -> 4
      [] op \in DivOps -> WordBits + 5
      [] op \in KyberAluOps -> 1
      [] op = "KYBER_MUL" -> 4
      [] op = "KYBER_COMPRESS" -> 2

DataIndependentTiming ==
    [][instr # NoInstr /\ instr' = NoInstr =>
          cycles' = IF instr.op \in DivOps /\ instr.b = 0 /\ ~data_ind_timing
                    THEN 2 ELSE FixedLatency(instr.op)]_vars
=============================================================================
