------------------------------ MODULE MCKyber ------------------------------
(***************************************************************************)
(* The Kyber instructions and the Kyber software with the constants of     *)
(* Kyber where the numbers matter, and with small ones where the order of  *)
(* things does.  A behaviour runs one program:                             *)
(*   unit      one instruction on the multiplier unit (MultDiv)            *)
(*   ntt       one product of polynomials (KyberNtt)                       *)
(*   cpa       keys, encryption, decryption in a small ring (IndCpa)       *)
(*   pack      the byte layout of one object (KyberPack)                   *)
(*   kem       encapsulations and decapsulations (KyberKem)                *)
(*   sampler   one expansion of the public matrix (MatrixSampler)          *)
(***************************************************************************)
EXTENDS MultDiv, KyberKem, MatrixSampler, KyberNtt, KyberPack, KyberZetas

CONSTANTS
    Programs,           \* of those above
    Unassigned          \* what poly_tomsg's unassigned variable may hold: zero at -Os

VARIABLES
    program,
    cpa_ise, cpa_pc, keys, inputs, ct, out

cpaVars     == <<cpa_ise, cpa_pc, keys, inputs, ct, out>>
allVars     == <<program, vars, nttVars, cpaVars, packVars, kemVars, samplerVars>>

-----------------------------------------------------------------------------
Instr(ops, A, B) == [op : ops, a : A, b : B, sa : {FALSE}, sb : {FALSE}]

(***************************************************************************)
(* The ends of the coefficient range, both sides of the wrap of a sum, and *)
(* two roots of unity the number theoretic transform multiplies with.      *)
(***************************************************************************)
Corners == {0, 1, 2, 17, 1664, 1665, 2285, 3327, 3328}

LanePairs == {Join(h, l) : h \in {0, 1664, 3328}, l \in Corners}

MCInstrs ==
    Instr({"KYBER_MUL"}, 0..(Q - 1), Corners)
    \cup Instr({"KYBER_ADD", "KYBER_SUB"}, LanePairs, LanePairs)
    \cup Instr({"KYBER_CBD2", "KYBER_CBD3"}, 0..4095, {0})
    \cup Instr({"KYBER_COMPRESS"}, 0..(Q - 1), {2, 16, 32, 1024, 2048})

-----------------------------------------------------------------------------
MCQinv == -3327

Polynomial(n, F(_)) == [i \in 0..(n - 1) |-> F(i)]

(* The largest coefficients, an alternation of signs, and one without any pattern. *)
MCPolynomials ==
    {Polynomial(256, LAMBDA i : Q - 1),
     Polynomial(256, LAMBDA i : IF i % 2 = 0 THEN 1 - Q ELSE Q - 1),
     Polynomial(256, LAMBDA i : (7 * i * i * i + 5 * i + 11) % Q)}

(***************************************************************************)
(* The ring modulo X^4 + 1 and 193, where 81 is a root of X^2 + 1 and the  *)
(* Montgomery factor is 2048: large enough for the noise of two levels.    *)
(***************************************************************************)
RingZetas == [ise \in BOOLEAN |-> [i \in 0..1 |->
                 ((IF i = 0 THEN 1 ELSE 81) * (IF ise THEN 1 ELSE 2048)) % 193]]
RingScale == [ise \in BOOLEAN |-> IF ise THEN 97
                                  ELSE (((2048 * 2048) % 193) * 97) % 193]

AllOne   == Polynomial(4, LAMBDA i : 1)
AllZero  == Polynomial(4, LAMBDA i : 0)
AllMinus == Polynomial(4, LAMBDA i : -1)
Signs    == Polynomial(4, LAMBDA i : IF i % 2 = 0 THEN 1 ELSE -1)

MCMatrices ==
    {<<<<Polynomial(4, LAMBDA i : 192),   Polynomial(4, LAMBDA i : 50 * i)>>,
       <<Polynomial(4, LAMBDA i : 7 + 30 * i), Polynomial(4, LAMBDA i : 192 - i)>>>>,
     <<<<Polynomial(4, LAMBDA i : 31 * i + 3), Polynomial(4, LAMBDA i : 96)>>,
       <<Polynomial(4, LAMBDA i : 192),   Polynomial(4, LAMBDA i : 0)>>>>}

Cpa == INSTANCE IndCpa WITH
    KYBER_Q <- 193, R <- 2048, QINV <- -191, BarrettPower <- 1048576,
    KYBER_N <- 4, K <- 2,
    Zetas <- RingZetas, Scale <- RingScale, UBits <- 64, VBits <- 16,
    Matrices <- MCMatrices,
    Noise1 <- {<<AllOne, AllOne>>, <<Signs, AllMinus>>, <<AllZero, Signs>>},
    Noise2 <- {AllOne, Signs},
    Messages <- {AllOne, AllZero, Polynomial(4, LAMBDA i : i % 2)},
    ise <- cpa_ise, pc <- cpa_pc

(* Blocks that are, and that are not, a multiple of three bytes. *)
MCRates == [shake |-> 6, aes |-> 4, ascon |-> 5]

ASSUME KyberAssumption ==
    ReductionConstants(193, 2048, -191, 1048576)

-----------------------------------------------------------------------------
MCInit ==
    /\ program \in Programs
    /\ Init /\ (program # "unit" => ~data_ind_timing)
    /\ NttInit /\ Cpa!Init /\ PackInit /\ KemInit
    /\ SamplerInit /\ (program # "sampler" => kind = CHOOSE k \in Kinds : TRUE)

RunUnit    == program = "unit" /\ Next
              /\ UNCHANGED <<program, nttVars, cpaVars, packVars, kemVars, samplerVars>>
RunNtt     == program = "ntt" /\ NttNext
              /\ UNCHANGED <<program, vars, cpaVars, packVars, kemVars, samplerVars>>
RunCpa     == program = "cpa" /\ Cpa!Next
              /\ UNCHANGED <<program, vars, nttVars, packVars, kemVars, samplerVars>>
RunPack    == program = "pack" /\ PackNext
              /\ UNCHANGED <<program, vars, nttVars, cpaVars, kemVars, samplerVars>>
RunKem     == program = "kem" /\ KemNext
              /\ UNCHANGED <<program, vars, nttVars, cpaVars, packVars, samplerVars>>
RunSampler == program = "sampler" /\ SamplerNext
              /\ UNCHANGED <<program, vars, nttVars, cpaVars, packVars, kemVars>>

MCNext == RunUnit \/ RunNtt \/ RunCpa \/ RunPack \/ RunKem \/ RunSampler

MCSpec == MCInit /\ [][MCNext]_allVars /\ WF_allVars(RunSampler)

-----------------------------------------------------------------------------
(* The properties of the programs; those of the modules extended are in theirs. *)
MessageComesBack == Cpa!MessageComesBack
Generated        == <>(program = "sampler" => pc = "done")

(* Keys and ciphertexts do not depend on the build, and keys are canonical. *)
BuildsAgree == Cpa!BuildsAgree /\ Cpa!StoredCanonical
=============================================================================
