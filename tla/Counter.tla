------------------------------ MODULE Counter ------------------------------
(***************************************************************************)
(* The block number in the last bytes of a counter block or IV, most       *)
(* significant first, as counter mode (ctr_mode.c) and Kyber's streams     *)
(* from AES (symmetric-aes.c) read it, count on in an integer of as many   *)
(* bytes, and write it back.                                               *)
(***************************************************************************)
EXTENDS Integers, Sequences, SequencesExt

CONSTANTS BASE, DIGITS      \* values of a byte, and bytes of the number (256 and 4)

ASSUME CounterAssumption == BASE \in Nat \ {0} /\ DIGITS \in Nat \ {0}

(* What one in byte k from the end counts. *)
Place[k \in 0..DIGITS] == IF k = 0 THEN 1 ELSE BASE * Place[k - 1]

Period == Place[DIGITS]

BlockNum(c) == FoldLeft(LAMBDA n, d : n * BASE + d, 0, c)
DigitsOf(n) == [d \in 1..DIGITS |-> (n \div Place[DIGITS - d]) % BASE]
=============================================================================
