------------------------------- MODULE Words -------------------------------
(***************************************************************************)
(* The data the execution units work on: machine words made of two halves, *)
(* each half holding, for the Kyber instructions, one coefficient modulo Q *)
(* in a lane of its low bits.                                              *)
(*                                                                         *)
(* The hardware has Half = 2^16 (32-bit words), Lane = 2^12 and Q = 3329.  *)
(* They are parameters: the model checker runs the multiplier and divider  *)
(* over every operand of a narrow word, the Kyber instructions over their  *)
(* real constants, and the theorems hold for every value the assumption    *)
(* admits.                                                                 *)
(***************************************************************************)
EXTENDS Integers

CONSTANTS
    Half,    \* number of values of a half word (2^16)
    Lane,    \* number of values of a coefficient lane (2^12)
    Q        \* the Kyber modulus (3329)

(***************************************************************************)
(* A half word has two bits above a lane: the sum of two lanes needs one,  *)
(* and the top bit is the guard KYBER_SUB sets between the two lanes.      *)
(***************************************************************************)
ASSUME WordsAssumption ==
    /\ Half \in Nat /\ Lane \in Nat /\ Q \in Nat
    /\ 2 <= Q /\ Q <= Lane
    /\ 4 * Lane <= Half
    /\ Half % 2 = 0

W == Half * Half                            \* number of values of a word

Lo(w) == w % Half                           \* w[15:0]
Hi(w) == w \div Half                        \* w[31:16]
Join(hi, lo) == hi * Half + lo

(***************************************************************************)
(* Membership by halves: Half * Half itself does not fit TLC's integers    *)
(* when Half is the hardware's.                                            *)
(***************************************************************************)
IsWord(w) == w \in Nat /\ Hi(w) < Half
IsWord34(w) == w \in Nat /\ Hi(w) < 4 * Half

Neg(w) == w >= W \div 2                     \* the sign bit, w[31]
Signed(w, s) == IF s /\ Neg(w) THEN w - W ELSE w
=============================================================================
