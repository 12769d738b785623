--------------------------- MODULE Streams_proofs ---------------------------
(***************************************************************************)
(* The streams that are made of a cipher's blocks, or of a sponge's, and   *)
(* the two modes that authenticate.  No block and no byte serves twice,    *)
(* and nothing is accepted that was not sent, for every size of the        *)
(* counters, of the blocks and of the requests:                            *)
(*   Counter         a number written in bytes is read back, modulo the    *)
(*                   period                                                *)
(*   CtrMode         a byte of the keystream is used once                  *)
(*   CtrPrng         a key encrypts a block once, and a seed serves only   *)
(*                   the requests it may                                   *)
(*   MatrixSampler   the sampler is fed its stream as it comes             *)
(*   CcmMode         what a message's bytes are hidden by, and what its    *)
(*                   tag authenticates                                     *)
(*   AsconAead       what its tag authenticates                            *)
(***************************************************************************)
EXTENDS CtrPrng, CtrMode, MatrixSampler, CcmMode, AsconAead, FiniteSetTheorems, FunctionTheorems,
        SequenceTheorems, NaturalsInduction, WellFoundedInduction, TLAPS

-----------------------------------------------------------------------------
(* Induction over the numbers, as a fact about sets. *)
LEMMA SetInduction ==
    ASSUME NEW S, 0 \in S, \A n \in Nat : n \in S => n + 1 \in S
    PROVE  Nat \subseteq S
<1> SUFFICES ASSUME Nat \ S # {} PROVE FALSE
  OBVIOUS
<1>1. IsWellFoundedOn(OpToRel(<, Nat), Nat)
  BY NatLessThanWellFounded
<1>2. PICK n \in Nat \ S : \A m \in Nat \ S : ~(<<m, n>> \in OpToRel(<, Nat))
  BY <1>1, WFMin
<1>3. \A m \in Nat \ S : ~(m < n)
  BY <1>2 DEF OpToRel
<1>4. n # 0 /\ n - 1 \in Nat /\ n - 1 < n /\ (n - 1) + 1 = n
  OBVIOUS
<1> QED
  BY <1>3, <1>4

LEMMA QuotientRemainder ==
    ASSUME NEW n \in Nat, NEW d \in Nat, d > 0
    PROVE  /\ n = d * (n \div d) + (n % d)
           /\ n \div d \in Nat /\ (n % d) \in 0..(d - 1)
BY Z3

LEMMA QuotientUnique ==
    ASSUME NEW d \in Nat, d > 0, NEW q \in Nat, NEW r \in 0..(d - 1)
    PROVE  (d * q + r) \div d = q /\ ((d * q + r) % d) = r
BY Z3

(* Dividing by a product is dividing twice. *)
LEMMA DivTwice ==
    ASSUME NEW n \in Nat, NEW b \in Nat, b > 0, NEW d \in Nat, d > 0
    PROVE  n \div (b * d) = (n \div d) \div b
<1>1. PICK x \in Nat, r \in 0..(d - 1) : x = n \div d /\ n = d * x + r
  BY QuotientRemainder
<1>2. PICK y \in Nat, s \in 0..(b - 1) : y = x \div b /\ x = b * y + s
  BY QuotientRemainder
<1>3. PICK e \in Nat : e = b * d /\ e > 0
  BY Z3
<1>4. PICK t \in Nat : t = d * s + r /\ t < e
  <2>1. d * s <= d * (b - 1)
    BY <1>2, Z3
  <2>2. d * (b - 1) = e - d
    BY <1>3, Z3
  <2>3. d * s \in Nat
    OBVIOUS
  <2> QED
    BY <1>3, <2>1, <2>2, <2>3
<1>5. n = e * y + t
  <2>1. d * x = d * (b * y) + d * s
    BY <1>2, Z3
  <2>2. d * (b * y) = e * y
    BY <1>3, Z3
  <2> QED
    BY <1>1, <1>4, <2>1, <2>2
<1>6. n \div e = y
  BY <1>3, <1>4, <1>5, QuotientUnique
<1> QED
  BY <1>1, <1>2, <1>3, <1>6

(* Taking a digit more into a number that is known modulo m. *)
LEMMA DigitMore ==
    ASSUME NEW x \in Nat, NEW b \in Nat, b > 0, NEW m \in Nat, m > 0
    PROVE  ((x \div b) % m) * b + (x % b) = (x % (b * m))
<1>1. PICK y \in Nat, s \in 0..(b - 1) : y = x \div b /\ s = (x % b) /\ x = b * y + s
  BY QuotientRemainder
<1>2. PICK q \in Nat, r \in 0..(m - 1) : r = (y % m) /\ y = m * q + r
  BY QuotientRemainder
<1>3. PICK e \in Nat : e = b * m /\ e > 0
  BY Z3
<1>4. PICK t \in Nat : t = r * b + s /\ t < e
  <2>1. b * r <= b * (m - 1)
    BY <1>2, Z3
  <2>2. b * (m - 1) = e - b /\ r * b = b * r
    BY <1>3, Z3
  <2>3. r * b \in Nat
    OBVIOUS
  <2> QED
    BY <1>1, <1>3, <2>1, <2>2, <2>3
<1>5. x = e * q + t
  <2>1. b * y = b * (m * q) + b * r
    BY <1>2, Z3
  <2>2. b * (m * q) = e * q /\ b * r = r * b
    BY <1>3, Z3
  <2> QED
    BY <1>1, <1>4, <2>1, <2>2
<1>6. (x % e) = t
  <2>1. q \in Nat /\ t \in 0..(e - 1)
    BY <1>2, <1>3, <1>4
  <2>2. ((e * q + t) % e) = t
    BY <1>3, <2>1, QuotientUnique
  <2> QED
    BY <1>5, <2>2
<1> QED
  BY <1>1, <1>2, <1>3, <1>4, <1>6

-----------------------------------------------------------------------------
(***************************************************************************)
(* A recursive definition along 0..n has a solution, and so has one over   *)
(* the subsets of 1..n from which the largest element is taken, as a fold  *)
(* over a sequence is defined.                                             *)
(***************************************************************************)
LEMMA LargestLast ==
    ASSUME NEW n \in Nat, NEW x \in SUBSET (1..(n + 1)), n + 1 \in x
    PROVE  Max(x) = n + 1
<1>1. \A y \in x : n + 1 >= y
  OBVIOUS
<1>2. \A z \in x : (\A y \in x : z >= y) => z = n + 1
  BY <1>1
<1> QED
  BY <1>1, <1>2 DEF Max

-----------------------------------------------------------------------------
(* The block number. *)
Places(f, n) == f = [k \in 0..n |-> IF k = 0 THEN 1 ELSE BASE * f[k - 1]]

LEMMA PlacesExist == \A n \in Nat : \E f : Places(f, n)
<1> DEFINE S == {n \in Nat : \E f : Places(f, n)}
<1>1. 0 \in S
  <2>1. Places([k \in 0..0 |-> 1], 0)
    BY DEF Places
  <2> QED
    BY <2>1
<1>2. ASSUME NEW n \in Nat, n \in S PROVE n + 1 \in S
  <2>1. PICK f : Places(f, n)
    BY <1>2
  <2>2. f = [k \in 0..n |-> IF k = 0 THEN 1 ELSE BASE * f[k - 1]]
    BY <2>1 DEF Places
  <2> DEFINE g == [k \in 0..(n + 1) |-> IF k = n + 1 THEN BASE * f[n] ELSE f[k]]
  <2>3. ASSUME NEW k \in 0..(n + 1)
        PROVE  g[k] = IF k = 0 THEN 1 ELSE BASE * g[k - 1]
    <3>1. CASE k = n + 1
      <4>1. k # 0 /\ k - 1 = n /\ n \in 0..(n + 1) /\ n # n + 1
        BY <3>1
      <4> QED
        BY <3>1, <4>1
    <3>2. CASE k \in 0..n
      <4>1. f[k] = IF k = 0 THEN 1 ELSE BASE * f[k - 1]
        BY <2>2, <3>2
      <4>2. k # n + 1 /\ (k # 0 => k - 1 \in 0..(n + 1) /\ k - 1 # n + 1)
        BY <3>2
      <4> QED
        BY <4>1, <4>2
    <3> QED
      BY <3>1, <3>2
  <2>4. Places(g, n + 1)
    BY <2>3 DEF Places
  <2> QED
    BY <2>4
<1> HIDE DEF S
<1>3. Nat \subseteq S
  BY <1>1, <1>2, SetInduction
<1> QED
  BY <1>3 DEF S

LEMMA PlaceIs ==
    /\ Place[0] = 1 /\ \A k \in 0..(DIGITS - 1) : Place[k + 1] = BASE * Place[k]
    /\ \A k \in 0..DIGITS : Place[k] \in Nat /\ Place[k] > 0
<1>0. BASE \in Nat /\ BASE > 0 /\ DIGITS \in Nat
  BY CounterAssumption
<1>1. Place = [k \in 0..DIGITS |-> IF k = 0 THEN 1 ELSE BASE * Place[k - 1]]
  <2>1. \E f : Places(f, DIGITS)
    BY <1>0, PlacesExist
  <2> QED
    BY <2>1, Zenon DEF Place, Places
<1>2. Place[0] = 1
  BY <1>0, <1>1
<1>3. ASSUME NEW k \in 0..(DIGITS - 1) PROVE Place[k + 1] = BASE * Place[k]
  <2>1. k + 1 \in 0..DIGITS /\ k + 1 # 0 /\ (k + 1) - 1 = k
    BY <1>0
  <2> QED
    BY <1>1, <2>1
<1> DEFINE S == {k \in Nat : k <= DIGITS => Place[k] \in Nat /\ Place[k] > 0}
<1>4. 0 \in S
  BY <1>2
<1>5. ASSUME NEW k \in Nat, k \in S PROVE k + 1 \in S
  <2> SUFFICES ASSUME k + 1 <= DIGITS PROVE Place[k + 1] \in Nat /\ Place[k + 1] > 0
    OBVIOUS
  <2>1. PICK p \in Nat : p = Place[k] /\ p > 0
    BY <1>0, <1>5
  <2>2. Place[k + 1] = BASE * p
    BY <1>0, <1>3, <2>1
  <2> QED
    BY <1>0, <2>1, <2>2, Z3
<1> HIDE DEF S
<1>6. Nat \subseteq S
  BY <1>4, <1>5, SetInduction
<1>7. \A k \in 0..DIGITS : Place[k] \in Nat /\ Place[k] > 0
  BY <1>0, <1>6 DEF S
<1> QED
  BY <1>2, <1>3, <1>7

Numbered(c, f, n) ==
    f = [x \in SUBSET (1..n) |->
            IF x = {} THEN 0 ELSE f[x \ {Max(x)}] * BASE + c[Max(x)]]

LEMMA NumberExists ==
    ASSUME NEW c
    PROVE  \A n \in Nat : \E f : Numbered(c, f, n)
<1> DEFINE S == {n \in Nat : \E f : Numbered(c, f, n)}
<1>1. 0 \in S
  <2>1. Numbered(c, [x \in SUBSET (1..0) |-> 0], 0)
    BY DEF Numbered
  <2> QED
    BY <2>1
<1>2. ASSUME NEW n \in Nat, n \in S PROVE n + 1 \in S
  <2>1. PICK f : Numbered(c, f, n)
    BY <1>2
  <2> DEFINE g == [x \in SUBSET (1..(n + 1)) |->
                    IF n + 1 \in x THEN f[x \ {n + 1}] * BASE + c[n + 1] ELSE f[x]]
  <2>2. \A x \in SUBSET (1..(n + 1)) : n + 1 \notin x => x \in SUBSET (1..n)
    OBVIOUS
  <2>3. ASSUME NEW x \in SUBSET (1..(n + 1))
        PROVE  g[x] = IF x = {} THEN 0 ELSE g[x \ {Max(x)}] * BASE + c[Max(x)]
    <3>1. CASE n + 1 \in x
      <4>1. Max(x) = n + 1 /\ x # {}
        BY <3>1, LargestLast
      <4>2. x \ {n + 1} \in SUBSET (1..n) /\ n + 1 \notin x \ {n + 1}
        BY <2>2
      <4>3. g[x \ {n + 1}] = f[x \ {n + 1}]
        BY <4>2
      <4> QED
        BY <3>1, <4>1, <4>3
    <3>2. CASE n + 1 \notin x
      <4>1. x \in SUBSET (1..n) /\ x \ {Max(x)} \in SUBSET (1..(n + 1))
        BY <2>2, <3>2
      <4>2. f[x] = IF x = {} THEN 0 ELSE f[x \ {Max(x)}] * BASE + c[Max(x)]
        BY <2>1, <4>1 DEF Numbered
      <4>3. g[x \ {Max(x)}] = f[x \ {Max(x)}]
        BY <3>2, <4>1
      <4> QED
        BY <3>2, <4>2, <4>3
    <3> QED
      BY <3>1, <3>2
  <2>4. Numbered(c, g, n + 1)
    BY <2>3 DEF Numbered
  <2> QED
    BY <2>4
<1> HIDE DEF S
<1>3. Nat \subseteq S
  BY <1>1, <1>2, SetInduction
<1> QED
  BY <1>3 DEF S

(* The numbers the digits make one after the other. *)
LEMMA BlockNumSteps ==
    ASSUME NEW n \in Nat, NEW c, DOMAIN c = 1..n
    PROVE  \E u : /\ DOMAIN u = 0..n /\ u[0] = 0 /\ u[n] = BlockNum(c)
                  /\ \A k \in 0..(n - 1) : u[k + 1] = u[k] * BASE + c[k + 1]
<1>1. DOMAIN c = 1..n
  OBVIOUS
<1>2. \E f : Numbered(c, f, n) /\ BlockNum(c) = f[1..n]
  <2> DEFINE f == CHOOSE f : Numbered(c, f, n)
  <2>1. Numbered(c, f, n)
    BY NumberExists
  <2>2. BlockNum(c) = f[1..n]
    BY <1>1 DEF BlockNum, FoldLeft, MapThenFoldSet, Numbered
  <2> QED
    BY <2>1, <2>2
<1>3. PICK f : Numbered(c, f, n) /\ BlockNum(c) = f[1..n]
  BY <1>2
<1> DEFINE u == [k \in 0..n |-> f[1..k]]
<1>4. \A x \in SUBSET (1..n) :
          f[x] = IF x = {} THEN 0 ELSE f[x \ {Max(x)}] * BASE + c[Max(x)]
  BY <1>3 DEF Numbered
<1>5. u[0] = 0
  <2>1. 1..0 = {} /\ 1..0 \in SUBSET (1..n)
    OBVIOUS
  <2>2. f[{}] = 0
    BY <1>4
  <2>3. u[0] = f[1..0]
    OBVIOUS
  <2> QED
    BY <2>1, <2>2, <2>3
<1>6. ASSUME NEW k \in 0..(n - 1) PROVE u[k + 1] = u[k] * BASE + c[k + 1]
  <2>1. 1..(k + 1) \in SUBSET (1..n) /\ k + 1 \in 1..(k + 1) /\ k + 1 \in 0..n /\ k \in 0..n
    OBVIOUS
  <2>2. Max(1..(k + 1)) = k + 1
    <3>1. k \in Nat /\ 1..(k + 1) \in SUBSET (1..(k + 1))
      OBVIOUS
    <3> QED
      BY <2>1, <3>1, LargestLast
  <2>3. (1..(k + 1)) \ {k + 1} = 1..k
    OBVIOUS
  <2>4. f[1..(k + 1)] = f[(1..(k + 1)) \ {k + 1}] * BASE + c[k + 1]
    BY <1>4, <2>1, <2>2
  <2> QED
    BY <2>1, <2>3, <2>4
<1>7. BlockNum(c) = u[n] /\ DOMAIN u = 0..n
  BY <1>3
<1> HIDE DEF u
<1> QED
  BY <1>5, <1>6, <1>7

LEMMA BlockNumType ==
    ASSUME NEW c \in [1..DIGITS -> Nat]
    PROVE  BlockNum(c) \in Nat
<1>1. BASE \in Nat /\ DIGITS \in Nat /\ DOMAIN c = 1..DIGITS
  BY CounterAssumption
<1>2. PICK u : /\ u[0] = 0 /\ u[DIGITS] = BlockNum(c)
               /\ \A k \in 0..(DIGITS - 1) : u[k + 1] = u[k] * BASE + c[k + 1]
  BY <1>1, BlockNumSteps
<1> DEFINE S == {k \in Nat : k <= DIGITS => u[k] \in Nat}
<1>3. 0 \in S
  BY <1>2
<1>4. ASSUME NEW k \in Nat, k \in S PROVE k + 1 \in S
  <2> SUFFICES ASSUME k + 1 <= DIGITS PROVE u[k + 1] \in Nat
    OBVIOUS
  <2>1. PICK x \in Nat : x = u[k]
    BY <1>1, <1>4
  <2>2. PICK y \in Nat : y = c[k + 1]
    BY <1>1
  <2>3. u[k + 1] = x * BASE + y
    BY <1>1, <1>2, <2>1, <2>2
  <2> QED
    BY <1>1, <2>3
<1> HIDE DEF S
<1>5. Nat \subseteq S
  BY <1>3, <1>4, SetInduction
<1> QED
  BY <1>1, <1>2, <1>5 DEF S

(* What is written with so many digits is read back, but for whole periods. *)
LEMMA DigitsType ==
    ASSUME NEW n \in Nat
    PROVE  DigitsOf(n) \in [1..DIGITS -> 0..(BASE - 1)]
<1>1. BASE \in Nat /\ BASE > 0 /\ DIGITS \in Nat
  BY CounterAssumption
<1>2. ASSUME NEW d \in 1..DIGITS PROVE ((n \div Place[DIGITS - d]) % BASE) \in 0..(BASE - 1)
  <2>1. PICK p \in Nat : p = Place[DIGITS - d] /\ p > 0
    <3>1. DIGITS - d \in 0..DIGITS
      BY <1>1
    <3> QED
      BY <3>1, PlaceIs
  <2>2. PICK x \in Nat : x = n \div p
    BY <2>1, QuotientRemainder
  <2> QED
    BY <1>1, <2>1, <2>2, QuotientRemainder
<1> QED
  BY <1>2 DEF DigitsOf

LEMMA BlockNumOfDigits ==
    ASSUME NEW n \in Nat
    PROVE  BlockNum(DigitsOf(n)) = (n % Period)
<1>1. BASE \in Nat /\ BASE > 0 /\ DIGITS \in Nat
  BY CounterAssumption
<1>2. DOMAIN DigitsOf(n) = 1..DIGITS
  BY DEF DigitsOf
<1>3. PICK u : /\ u[0] = 0 /\ u[DIGITS] = BlockNum(DigitsOf(n))
               /\ \A k \in 0..(DIGITS - 1) : u[k + 1] = u[k] * BASE + DigitsOf(n)[k + 1]
  BY <1>1, <1>2, BlockNumSteps
<1> DEFINE S == {k \in Nat : k <= DIGITS => u[k] = ((n \div Place[DIGITS - k]) % Place[k])}
<1>4. 0 \in S
  <2>1. PICK p \in Nat : p = Place[DIGITS] /\ p > 0
    BY <1>1, PlaceIs
  <2>2. PICK x \in Nat : x = n \div p
    BY <2>1, QuotientRemainder
  <2>3. x % 1 = 0
    BY Z3
  <2>4. DIGITS - 0 = DIGITS /\ Place[0] = 1
    BY <1>1, PlaceIs
  <2> QED
    BY <1>3, <2>1, <2>2, <2>3, <2>4
<1>5. ASSUME NEW k \in Nat, k \in S PROVE k + 1 \in S
  <2> SUFFICES ASSUME k + 1 <= DIGITS
               PROVE  u[k + 1] = ((n \div Place[DIGITS - (k + 1)]) % Place[k + 1])
    OBVIOUS
  <2>0. /\ k \in 0..(DIGITS - 1) /\ k \in 0..DIGITS /\ k + 1 \in 1..DIGITS
        /\ DIGITS - (k + 1) \in 0..(DIGITS - 1) /\ DIGITS - (k + 1) \in 0..DIGITS
        /\ (DIGITS - (k + 1)) + 1 = DIGITS - k
    BY <1>1
  <2>1. PICK p \in Nat : p = Place[DIGITS - (k + 1)] /\ p > 0
    BY <2>0, PlaceIs
  <2>2. PICK m \in Nat : m = Place[k] /\ m > 0
    BY <2>0, PlaceIs
  <2>3. Place[k + 1] = BASE * m /\ Place[DIGITS - k] = BASE * p
    BY <2>0, <2>1, <2>2, PlaceIs
  <2>4. PICK x \in Nat : x = n \div p
    BY <2>1, QuotientRemainder
  <2>5. u[k] = ((x \div BASE) % m)
    <3>1. n \div (BASE * p) = (n \div p) \div BASE
      BY <1>1, <2>1, DivTwice
    <3>2. u[k] = ((n \div Place[DIGITS - k]) % Place[k])
      BY <1>5, <2>0
    <3>3. n \div (BASE * p) = x \div BASE
      BY <2>4, <3>1, Zenon
    <3>4. n \div Place[DIGITS - k] = x \div BASE
      BY <2>3, <3>3, Zenon
    <3> QED
      BY <2>2, <3>2, <3>4, Zenon
  <2>6. DigitsOf(n)[k + 1] = (x % BASE)
    BY <2>0, <2>1, <2>4 DEF DigitsOf
  <2>7. u[k + 1] = u[k] * BASE + DigitsOf(n)[k + 1]
    BY <1>3, <2>0
  <2>8. ((x \div BASE) % m) * BASE + (x % BASE) = (x % (BASE * m))
    BY <1>1, <2>2, DigitMore
  <2> QED
    BY <2>1, <2>3, <2>4, <2>5, <2>6, <2>7, <2>8
<1> HIDE DEF S
<1>6. Nat \subseteq S
  BY <1>4, <1>5, SetInduction
<1>7. u[DIGITS] = ((n \div Place[DIGITS - DIGITS]) % Place[DIGITS])
  BY <1>1, <1>6 DEF S
<1>8. Place[DIGITS - DIGITS] = 1 /\ n \div 1 = n
  BY <1>1, PlaceIs, Z3
<1> QED
  BY <1>3, <1>7, <1>8 DEF Period

-----------------------------------------------------------------------------
(* Counter mode. *)
LEMMA PeriodIs == Period \in Nat /\ Period > 0
<1>1. DIGITS \in 0..DIGITS
  BY CounterAssumption
<1> QED
  BY <1>1, PlaceIs DEF Period

(* So many digits make less than a period. *)
LEMMA BlockNumFits ==
    ASSUME NEW c \in [1..DIGITS -> 0..(BASE - 1)]
    PROVE  BlockNum(c) \in 0..(Period - 1)
<1>1. BASE \in Nat /\ BASE > 0 /\ DIGITS \in Nat
  BY CounterAssumption
<1>2. PICK u : /\ u[0] = 0 /\ u[DIGITS] = BlockNum(c)
               /\ \A k \in 0..(DIGITS - 1) : u[k + 1] = u[k] * BASE + c[k + 1]
  <2>1. DIGITS \in Nat /\ DOMAIN c = 1..DIGITS
    BY <1>1
  <2> QED
    BY <2>1, BlockNumSteps
<1> DEFINE S == {k \in Nat : k <= DIGITS => u[k] \in 0..(Place[k] - 1)}
<1>3. 0 \in S
  BY <1>2, PlaceIs
<1>4. ASSUME NEW k \in Nat, k \in S PROVE k + 1 \in S
  <2> SUFFICES ASSUME k + 1 <= DIGITS PROVE u[k + 1] \in 0..(Place[k + 1] - 1)
    OBVIOUS
  <2>0. k \in 0..DIGITS /\ k \in 0..(DIGITS - 1) /\ k + 1 \in 1..DIGITS /\ k <= DIGITS
    BY <1>1
  <2>1. PICK p \in Nat : p = Place[k] /\ p > 0
    BY <2>0, PlaceIs
  <2>2. PICK x \in 0..(p - 1) : x = u[k]
    BY <1>4, <2>0, <2>1
  <2>3. PICK y \in 0..(BASE - 1) : y = c[k + 1]
    BY <2>0
  <2>4. u[k + 1] = x * BASE + y /\ Place[k + 1] = BASE * p
    BY <1>2, <2>0, <2>1, <2>2, <2>3, PlaceIs
  <2>5. x * BASE + y \in Nat /\ x * BASE + y <= BASE * p - 1
    <3>1. x * BASE <= (p - 1) * BASE
      <4>1. PICK z \in Nat : z = p - 1 /\ x \in Nat /\ x <= z
        BY <2>1, <2>2
      <4>2. x * BASE <= z * BASE
        BY <1>1, <4>1, Z3
      <4> QED
        BY <4>1, <4>2
    <3>2. (p - 1) * BASE = BASE * p - BASE
      BY <1>1, <2>1, Z3
    <3>3. x * BASE \in Nat /\ BASE * p \in Nat
      BY <1>1, <2>1, <2>2
    <3> QED
      BY <1>1, <2>3, <3>1, <3>2, <3>3
  <2> QED
    BY <1>1, <2>1, <2>4, <2>5
<1> HIDE DEF S
<1>5. Nat \subseteq S
  BY <1>3, <1>4, SetInduction
<1> QED
  BY <1>1, <1>2, <1>5 DEF S, Period

(* Adding after a wrap, and counting less than a period apart. *)
LEMMA AddWrapped ==
    ASSUME NEW p \in Nat, p > 0, NEW a \in Nat, NEW b \in Nat
    PROVE  (((a % p) + b) % p) = ((a + b) % p)
<1>1. PICK q \in Nat, r \in 0..(p - 1) : r = (a % p) /\ a = p * q + r
  BY QuotientRemainder
<1>2. PICK x \in Nat, y \in 0..(p - 1) : y = ((r + b) % p) /\ r + b = p * x + y
  <2>1. PICK n \in Nat : n = r + b
    OBVIOUS
  <2>2. PICK x \in Nat, y \in 0..(p - 1) : y = (n % p) /\ n = p * x + y
    BY QuotientRemainder
  <2> QED
    BY <2>1, <2>2
<1>3. a + b = p * (q + x) + y
  <2>1. p * (q + x) = p * q + p * x /\ p * q \in Nat /\ p * x \in Nat
    BY Z3
  <2> QED
    BY <1>1, <1>2, <2>1
<1>4. ((p * (q + x) + y) % p) = y
  <2>1. q + x \in Nat
    OBVIOUS
  <2> QED
    BY <2>1, QuotientUnique
<1> QED
  BY <1>1, <1>2, <1>3, <1>4

LEMMA WrappedApart ==
    ASSUME NEW p \in Nat, p > 0, NEW s \in Nat, NEW a \in Nat, NEW b \in Nat,
           a < b, b < p
    PROVE  ((s + a) % p) # ((s + b) % p)
<1> SUFFICES ASSUME ((s + a) % p) = ((s + b) % p) PROVE FALSE
  OBVIOUS
<1>0. s + a \in Nat /\ s + b \in Nat
  OBVIOUS
<1>1. PICK q \in Nat, r \in 0..(p - 1) : r = ((s + a) % p) /\ s + a = p * q + r
  BY <1>0, QuotientRemainder
<1>2. PICK x \in Nat, y \in 0..(p - 1) : y = ((s + b) % p) /\ s + b = p * x + y
  BY <1>0, QuotientRemainder
<1>3. r = y
  BY <1>1, <1>2
<1>4. p * q \in Nat /\ p * x \in Nat
  OBVIOUS
<1>5. p * q < p * x /\ p * x < p * q + p
  BY <1>1, <1>2, <1>3, <1>4
<1>6. CASE x <= q
  <2>1. p * x <= p * q
    BY <1>6, Z3
  <2> QED
    BY <1>4, <1>5, <2>1
<1>7. CASE x >= q + 1
  <2>1. p * x >= p * (q + 1) /\ p * (q + 1) = p * q + p
    BY <1>7, Z3
  <2> QED
    BY <1>4, <1>5, <2>1
<1> QED
  BY <1>6, <1>7

(***************************************************************************)
(* Since the counter was set it has counted the blocks, from where it      *)
(* started, and what was given out is of those blocks.                     *)
(***************************************************************************)
CountsFrom(start) ==
    /\ BlockNum(counter) = ((start + encrypted) % Period)
    /\ \A g \in given : \E b \in 0..(encrypted - 1) : g[1] = ((start + b) % Period)

CtrInv == CtrTypeOK /\ \E start \in Nat : CountsFrom(start)

LEMMA CtrConstants ==
    /\ TC_AES_BLOCK_SIZE \in Nat /\ TC_AES_BLOCK_SIZE > 0 /\ Lengths \subseteq Nat
    /\ Starts \subseteq [1..DIGITS -> 0..(BASE - 1)]
BY CtrAssumption

LEMMA FreshCounter ==
    ASSUME NEW c \in Starts
    PROVE  c \in [1..DIGITS -> 0..(BASE - 1)] /\ BlockNum(c) \in Nat
           /\ BlockNum(c) = ((BlockNum(c) + 0) % Period)
<1>1. c \in [1..DIGITS -> 0..(BASE - 1)]
  BY CtrConstants
<1>2. PICK p \in Nat : p = Period /\ p > 0
  BY PeriodIs
<1>3. PICK x \in 0..(p - 1) : x = BlockNum(c)
  BY <1>1, <1>2, BlockNumFits
<1>4. ((x + 0) % p) = x
  BY <1>2, Z3
<1> QED
  BY <1>1, <1>2, <1>3, <1>4

LEMMA CtrInitially == CtrInit => CtrInv
<1> SUFFICES ASSUME CtrInit PROVE CtrInv
  OBVIOUS
<1>1. counter \in Starts /\ encrypted = 0 /\ given = {}
  BY DEF CtrInit
<1>2. CtrTypeOK
  BY <1>1, FreshCounter, PeriodIs DEF CtrTypeOK
<1>3. CountsFrom(BlockNum(counter))
  BY <1>1, FreshCounter DEF CountsFrom
<1>4. BlockNum(counter) \in Nat
  BY <1>1, FreshCounter
<1> QED
  BY <1>2, <1>3, <1>4 DEF CtrInv

(* The byte at a place of a call is in one of the call's blocks. *)
LEMMA PlaceInCall ==
    ASSUME NEW n \in Nat, NEW i \in 1..n
    PROVE  /\ (i - 1) \div TC_AES_BLOCK_SIZE \in 0..(BlocksOf(n) - 1)
           /\ ((i - 1) % TC_AES_BLOCK_SIZE) \in 0..(TC_AES_BLOCK_SIZE - 1)
           /\ i - 1 = TC_AES_BLOCK_SIZE * ((i - 1) \div TC_AES_BLOCK_SIZE)
                        + ((i - 1) % TC_AES_BLOCK_SIZE)
           /\ BlocksOf(n) \in Nat
<1>1. PICK t \in Nat : t = TC_AES_BLOCK_SIZE /\ t > 0
  BY CtrConstants
<1>2. PICK q \in Nat, r \in 0..(t - 1) :
          q = (i - 1) \div t /\ r = ((i - 1) % t) /\ i - 1 = t * q + r
  <2>1. i - 1 \in Nat
    OBVIOUS
  <2> QED
    BY <1>1, <2>1, QuotientRemainder
<1>3. PICK x \in Nat, y \in 0..(t - 1) : x = (n + t - 1) \div t /\ n + t - 1 = t * x + y
  <2>1. n + t - 1 \in Nat
    BY <1>1
  <2> QED
    BY <1>1, <2>1, QuotientRemainder
<1>4. q < x
  <2> SUFFICES ASSUME x <= q PROVE FALSE
    OBVIOUS
  <2>1. t * x <= t * q /\ t * x \in Nat /\ t * q \in Nat
    BY <1>1, Z3
  <2> QED
    BY <1>1, <1>2, <1>3, <2>1
<1>5. BlocksOf(n) = x
  BY <1>1, <1>3 DEF BlocksOf
<1> QED
  BY <1>1, <1>2, <1>3, <1>4, <1>5

(* A call that succeeds takes the next blocks, and no byte of them twice. *)
LEMMA CallTakesNext ==
    ASSUME CtrInv, NEW n \in Lengths, encrypted + BlocksOf(n) <= Period,
           tc_ctr_mode(n, n), n > 0
    PROVE  /\ CtrInv'
           /\ Range(keystream') \cap given = {}
           /\ Cardinality(Range(keystream')) = Len(keystream')
<1>0. n \in Nat /\ n > 0
  BY CtrConstants
<1>1. /\ keystream' = [i \in 1..n |->
                         <<(BlockNum(counter) + (i - 1) \div TC_AES_BLOCK_SIZE) % Period,
                           (i - 1) % TC_AES_BLOCK_SIZE>>]
      /\ counter' = DigitsOf(BlockNum(counter) + BlocksOf(n))
      /\ encrypted' = encrypted + BlocksOf(n)
      /\ given' = given \cup Range(keystream')
  BY <1>0 DEF tc_ctr_mode, Advance
<1>2. PICK p \in Nat : p = Period /\ p > 0
  BY PeriodIs
<1>3. PICK start \in Nat : CountsFrom(start)
  BY DEF CtrInv
<1>4. /\ encrypted \in 0..p /\ given \subseteq (0..(p - 1)) \X (0..(TC_AES_BLOCK_SIZE - 1))
      /\ BlockNum(counter) = ((start + encrypted) % p)
      /\ \A g \in given : \E b \in 0..(encrypted - 1) : g[1] = ((start + b) % p)
  BY <1>2, <1>3 DEF CtrInv, CtrTypeOK, CountsFrom
<1>5. PICK blocks \in Nat : blocks = BlocksOf(n) /\ encrypted + blocks <= p
  <2>1. n \in 1..n
    BY <1>0
  <2> QED
    BY <1>0, <1>2, <2>1, PlaceInCall
<1>6. encrypted' = encrypted + blocks
  BY <1>1, <1>5
<1> DEFINE Blk(i) == (i - 1) \div TC_AES_BLOCK_SIZE
           Off(i) == (i - 1) % TC_AES_BLOCK_SIZE
<1>7. \A i \in 1..n : /\ Blk(i) \in 0..(blocks - 1) /\ Off(i) \in 0..(TC_AES_BLOCK_SIZE - 1)
                      /\ i - 1 = TC_AES_BLOCK_SIZE * Blk(i) + Off(i)
  BY <1>0, <1>5, PlaceInCall
<1>8. keystream' = [i \in 1..n |-> <<(BlockNum(counter) + Blk(i)) % p, Off(i)>>]
  BY <1>1, <1>2
<1> HIDE DEF Blk, Off
<1>9. \A i \in 1..n : keystream'[i] = <<((start + (encrypted + Blk(i))) % p), Off(i)>>
  <2> TAKE i \in 1..n
  <2>1. PICK e \in Nat, b \in Nat : e = encrypted /\ b = Blk(i)
    BY <1>4, <1>7
  <2>2. ((((start + e) % p) + b) % p) = ((start + e + b) % p)
    <3>1. start + e \in Nat
      OBVIOUS
    <3> QED
      BY <1>2, <3>1, AddWrapped
  <2>3. start + e + b = start + (e + b)
    OBVIOUS
  <2>4. keystream'[i] = <<(BlockNum(counter) + Blk(i)) % p, Off(i)>>
    BY <1>8
  <2>5. ((BlockNum(counter) + Blk(i)) % p) = ((start + (encrypted + Blk(i))) % p)
    BY <1>4, <2>1, <2>2, <2>3
  <2> QED
    BY <2>4, <2>5
<1>10. ASSUME NEW g \in Range(keystream')
      PROVE  \E i \in 1..n : g = <<((start + (encrypted + Blk(i))) % p), Off(i)>>
  <2>1. DOMAIN keystream' = 1..n
    BY <1>8
  <2>2. PICK i \in 1..n : g = keystream'[i]
    BY <2>1 DEF Range
  <2> QED
    BY <1>9, <2>2
<1>11. Range(keystream') \cap given = {}
  <2> SUFFICES ASSUME NEW g \in Range(keystream'), g \in given PROVE FALSE
    OBVIOUS
  <2>1. PICK i \in 1..n : g = <<((start + (encrypted + Blk(i))) % p), Off(i)>>
    BY <1>10
  <2>2. PICK b \in 0..(encrypted - 1) : g[1] = ((start + b) % p)
    BY <1>4
  <2>3. PICK a \in Nat : a = encrypted + Blk(i) /\ b < a /\ a < p
    BY <1>4, <1>5, <1>7
  <2>4. ((start + b) % p) # ((start + a) % p)
    <3>1. b \in Nat
      BY <1>4
    <3> QED
      BY <1>2, <2>3, <3>1, WrappedApart
  <2>5. g[1] = ((start + a) % p)
    BY <2>1, <2>3
  <2> QED
    BY <2>2, <2>4, <2>5
<1>12. Cardinality(Range(keystream')) = Len(keystream')
  <2>1. ASSUME NEW i \in 1..n, NEW j \in 1..n, keystream'[i] = keystream'[j]
        PROVE  i = j
    <3>1. ((start + (encrypted + Blk(i))) % p) = ((start + (encrypted + Blk(j))) % p)
          /\ Off(i) = Off(j)
      BY <1>9, <2>1
    <3>2. PICK a \in Nat, b \in Nat :
              a = encrypted + Blk(i) /\ b = encrypted + Blk(j) /\ a < p /\ b < p
      BY <1>4, <1>5, <1>7
    <3>3. ~(a < b) /\ ~(b < a)
      BY <1>2, <3>1, <3>2, WrappedApart
    <3>4. Blk(i) = Blk(j)
      BY <1>4, <1>7, <3>2, <3>3
    <3>5. i - 1 = j - 1
      BY <1>7, <3>1, <3>4
    <3> QED
      BY <3>5
  <2>2. DOMAIN keystream' = 1..n /\ Len(keystream') = n
    BY <1>0, <1>8
  <2>3. keystream' \in [1..n -> Range(keystream')]
    <3>1. keystream' = [i \in 1..n |-> keystream'[i]]
      BY <1>8
    <3>2. \A i \in 1..n : keystream'[i] \in Range(keystream')
      BY <2>2 DEF Range
    <3> QED
      BY <3>1, <3>2
  <2>4. keystream' \in Injection(1..n, Range(keystream'))
    BY <2>1, <2>2, <2>3 DEF Injection, IsInjective
  <2>5. keystream' \in Bijection(1..n, Range(keystream'))
    BY <2>4, Fun_InjMeansBijImage
  <2>6. ExistsBijection(1..n, Range(keystream'))
    BY <2>5 DEF ExistsBijection
  <2>7. IsFiniteSet(1..n) /\ Cardinality(1..n) = n
    BY <1>0, FS_Interval
  <2> QED
    BY <2>2, <2>6, <2>7, FS_Bijection
<1>13. CtrTypeOK'
  <2>1. BlockNum(counter) + blocks \in Nat
    BY <1>2, <1>4, QuotientRemainder
  <2>2. counter' \in [1..DIGITS -> 0..(BASE - 1)]
    BY <1>1, <1>5, <2>1, DigitsType
  <2>3. encrypted' \in 0..p
    BY <1>1, <1>2, <1>4, <1>5
  <2>4. \A g \in Range(keystream') : g \in (0..(p - 1)) \X (0..(TC_AES_BLOCK_SIZE - 1))
    <3> TAKE g \in Range(keystream')
    <3>1. PICK i \in 1..n : g = <<((start + (encrypted + Blk(i))) % p), Off(i)>>
      BY <1>10
    <3>2. PICK a \in Nat : a = start + (encrypted + Blk(i))
      BY <1>4, <1>7
    <3>3. (a % p) \in 0..(p - 1)
      BY <1>2, QuotientRemainder
    <3> QED
      BY <1>7, <3>1, <3>2, <3>3
  <2> QED
    BY <1>1, <1>2, <1>4, <2>2, <2>3, <2>4 DEF CtrTypeOK
<1>14. CountsFrom(start)'
  <2>1. BlockNum(counter') = ((start + encrypted') % p)
    <3>1. PICK e \in Nat : e = encrypted
      BY <1>4
    <3>2. PICK x \in Nat : x = ((start + e) % p) /\ x = BlockNum(counter)
      <4>1. start + e \in Nat
        OBVIOUS
      <4> QED
        BY <1>2, <1>4, <3>1, <4>1, QuotientRemainder
    <3>3. BlockNum(counter') = ((x + blocks) % p)
      <4>1. x + blocks \in Nat
        OBVIOUS
      <4> QED
        BY <1>1, <1>2, <1>5, <3>2, <4>1, BlockNumOfDigits
    <3>4. ((((start + e) % p) + blocks) % p) = ((start + e + blocks) % p)
      <4>1. start + e \in Nat
        OBVIOUS
      <4> QED
        BY <1>2, <4>1, AddWrapped
    <3>5. start + e + blocks = start + encrypted'
      BY <1>1, <1>5, <3>1
    <3> QED
      BY <3>2, <3>3, <3>4, <3>5
  <2>2. ASSUME NEW g \in given' PROVE \E b \in 0..(encrypted' - 1) : g[1] = ((start + b) % p)
    <3>1. CASE g \in given
      <4>1. PICK b \in 0..(encrypted - 1) : g[1] = ((start + b) % p)
        BY <1>4, <3>1
      <4>2. b \in 0..(encrypted' - 1)
        BY <1>4, <1>6
      <4> QED
        BY <4>1, <4>2
    <3>2. CASE g \in Range(keystream')
      <4>1. PICK i \in 1..n : g = <<((start + (encrypted + Blk(i))) % p), Off(i)>>
        BY <1>10, <3>2
      <4>2. encrypted + Blk(i) \in 0..(encrypted' - 1)
        BY <1>4, <1>6, <1>7
      <4> QED
        BY <4>1, <4>2
    <3> QED
      BY <1>1, <3>1, <3>2
  <2> QED
    BY <1>2, <2>1, <2>2 DEF CountsFrom
<1> QED
  BY <1>11, <1>12, <1>13, <1>14 DEF CtrInv

LEMMA CtrStep ==
    ASSUME CtrInv, [CtrNext]_ctrVars
    PROVE  /\ CtrInv'
           /\ [returned' = "SUCCESS" =>
                  /\ Range(keystream') \cap given = {}
                  /\ Cardinality(Range(keystream')) = Len(keystream')]_ctrVars
<1>1. CASE Call
  <2>1. PICK n \in Lengths, m \in Lengths :
            encrypted + BlocksOf(n) <= Period /\ tc_ctr_mode(n, m)
    BY <1>1 DEF Call
  <2>2. CASE n > 0 /\ m = n
    BY <2>1, <2>2, CallTakesNext
  <2>3. CASE ~(n > 0 /\ m = n)
    <3>1. returned' = "FAIL" /\ UNCHANGED <<counter, encrypted, given>>
      BY <2>1, <2>3 DEF tc_ctr_mode
    <3> QED
      BY <3>1 DEF CtrInv, CtrTypeOK, CountsFrom
  <2> QED
    BY <2>2, <2>3
<1>2. CASE Rekey
  <2>1. counter' \in Starts /\ returned' = "NONE" /\ encrypted' = 0 /\ given' = {}
    BY <1>2 DEF Rekey
  <2>2. CtrTypeOK'
    BY <2>1, FreshCounter, PeriodIs DEF CtrTypeOK
  <2>3. PICK start \in Nat : start = BlockNum(counter') /\ start = ((start + 0) % Period)
    BY <2>1, FreshCounter
  <2>4. CountsFrom(start)'
    BY <2>1, <2>3 DEF CountsFrom
  <2> QED
    BY <2>1, <2>2, <2>4 DEF CtrInv
<1>3. CASE UNCHANGED ctrVars
  BY <1>3 DEF CtrInv, CtrTypeOK, CountsFrom, ctrVars
<1> QED
  BY <1>1, <1>2, <1>3 DEF CtrNext

(***************************************************************************)
(* Counter mode never uses a byte of its keystream twice, for any counter  *)
(* and block size, any lengths, wherever the counter starts, until as many *)
(* blocks are encrypted as the counter has values (ctr_mode.h).            *)
(***************************************************************************)
THEOREM CounterModeNeverRepeats == CtrSpec => KeystreamOnce
<1>1. CtrInv /\ [CtrNext]_ctrVars => CtrInv'
  BY CtrStep
<1>2. CtrInv /\ [CtrNext]_ctrVars =>
          [returned' = "SUCCESS" =>
              /\ Range(keystream') \cap given = {}
              /\ Cardinality(Range(keystream')) = Len(keystream')]_ctrVars
  BY CtrStep
<1> QED
  BY <1>1, <1>2, CtrInitially, PTL DEF CtrSpec, KeystreamOnce

(* The counter stays a number of its bytes, and counts what was given out. *)
THEOREM CounterModeTyped == CtrSpec => []CtrTypeOK
<1>1. CtrInv /\ [CtrNext]_ctrVars => CtrInv'
  BY CtrStep
<1>2. CtrInv => CtrTypeOK
  BY DEF CtrInv
<1> QED
  BY <1>1, <1>2, CtrInitially, PTL DEF CtrSpec

-----------------------------------------------------------------------------
(***************************************************************************)
(* The generator.  The invariant is inductive because a call that succeeds *)
(* ends with an update: between calls the key has encrypted nothing.       *)
(* Within a call the blocks encrypted under one key are consecutive values *)
(* of the counter, and fewer than it has.                                  *)
(***************************************************************************)
Values == 0..(VSize - 1)

(* A context whose key has encrypted nothing. *)
Unused(v) == [v |-> v, used |-> {}, twice |-> FALSE]

-----------------------------------------------------------------------------
LEMMA Sizes ==
    /\ VSize \in Nat /\ VSize > 0 /\ 0 \in Values
    /\ SEED_BLOCKS \in Nat /\ SEED_BLOCKS > 0
    /\ BLOCK_SIZE \in Nat /\ BLOCK_SIZE > 0
    /\ MAX_REQS_BEFORE_RESEED \in Nat
    /\ MAX_BYTES_PER_REQ \in Nat /\ MAX_BYTES_PER_REQ > 0
    /\ MaxBlocks \in Nat /\ MaxBlocks + SEED_BLOCKS <= VSize
  BY PrngAssumption DEF Values

LEMMA DivMod ==
    ASSUME NEW d \in Nat, d > 0, NEW n \in Nat
    PROVE  /\ n = (n \div d) * d + (n % d)
           /\ n \div d \in Nat
           /\ n % d \in 0..(d - 1)
  BY SMT

LEMMA QuotientMonotonic ==
    ASSUME NEW d \in Nat, d > 0, NEW m \in Nat, NEW n \in Nat, m <= n
    PROVE  m \div d <= n \div d
<1> DEFINE p == m \div d
           q == n \div d
           r == m % d
           s == n % d
<1>1. /\ m = p * d + r /\ p \in Nat /\ r \in 0..(d - 1)
      /\ n = q * d + s /\ q \in Nat /\ s \in 0..(d - 1)
  BY DivMod
<1> HIDE DEF p, q, r, s
<1>2. SUFFICES ASSUME p > q PROVE FALSE
  BY <1>1, SMT DEF p, q
<1>3. PICK k \in Nat : p = q + 1 + k
  <2>1. p - q - 1 \in Nat /\ p = q + 1 + (p - q - 1)
    BY <1>1, <1>2
  <2> QED
    BY <2>1
<1>4. p * d = q * d + d + k * d /\ k * d \in Nat
  BY <1>1, <1>3, SMT
<1> QED
  BY <1>1, <1>4, SMT

(* A request that is not refused needs at most MaxBlocks blocks. *)
LEMMA BlocksBound ==
    ASSUME NEW outlen \in Nat, outlen < MAX_BYTES_PER_REQ
    PROVE  Blocks(outlen) \in 0..MaxBlocks
<1> DEFINE m == outlen + BLOCK_SIZE - 1
           n == MAX_BYTES_PER_REQ + BLOCK_SIZE - 1
<1>1. m \in Nat /\ n \in Nat /\ m <= n
  BY Sizes
<1>2. m \div BLOCK_SIZE \in Nat /\ m \div BLOCK_SIZE <= n \div BLOCK_SIZE
  BY <1>1, Sizes, DivMod, QuotientMonotonic
<1>3. n \div BLOCK_SIZE = MaxBlocks /\ m \div BLOCK_SIZE = Blocks(outlen)
  BY DEF MaxBlocks, Blocks
<1> QED
  BY <1>2, <1>3, Sizes

-----------------------------------------------------------------------------
(* The counter wraps, so that VSize increments in a row give VSize values. *)
LEMMA ArrIncType ==
    ASSUME NEW v \in Values, NEW n \in 0..VSize
    PROVE  arrInc(v, n) \in Values
  BY Sizes DEF arrInc, Values

LEMMA ArrIncApart ==
    ASSUME NEW v \in Values, NEW i \in 1..VSize, NEW j \in 1..VSize, i # j
    PROVE  arrInc(v, i) # arrInc(v, j)
  BY Sizes DEF arrInc, Values

LEMMA ArrIncAdds ==
    ASSUME NEW v \in Values, NEW n \in Nat, NEW i \in Nat, n + i <= VSize
    PROVE  arrInc(arrInc(v, n), i) = arrInc(v, n + i)
  BY Sizes DEF arrInc, Values

(* What a key encrypts first differs, block by block. *)
LEMMA FirstBlocks ==
    ASSUME NEW v \in Values, NEW n \in Nat, n <= VSize
    PROVE  Encrypt(Unused(v), n) = [v     |-> arrInc(v, n),
                                    used  |-> {arrInc(v, i) : i \in 1..n},
                                    twice |-> FALSE]
<1>1. \A i, j \in 1..n : i # j => arrInc(v, i) # arrInc(v, j)
  BY ArrIncApart, Sizes
<1> QED
  BY <1>1 DEF Encrypt, Unused

(* So do the blocks that follow, as long as all of them fit the counter. *)
LEMMA FollowingBlocks ==
    ASSUME NEW v \in Values, NEW n \in Nat, NEW m \in Nat, n + m <= VSize
    PROVE  Encrypt(Encrypt(Unused(v), n), m).twice = FALSE
<1> DEFINE c == [v |-> arrInc(v, n), used |-> {arrInc(v, i) : i \in 1..n}, twice |-> FALSE]
           later == {arrInc(arrInc(v, n), j) : j \in 1..m}
<1>1. Encrypt(Unused(v), n) = c
  BY FirstBlocks, Sizes
<1>2. arrInc(v, n) \in Values
  BY ArrIncType, Sizes
<1>3. later \cap {arrInc(v, i) : i \in 1..n} = {}
  <2>1. ASSUME NEW i \in 1..n, NEW j \in 1..m
        PROVE  arrInc(arrInc(v, n), j) # arrInc(v, i)
    <3>1. n + j \in 1..VSize /\ i \in 1..VSize /\ n + j # i /\ n + j <= VSize /\ j \in Nat
      BY Sizes
    <3>2. arrInc(arrInc(v, n), j) = arrInc(v, n + j)
      BY <3>1, ArrIncAdds
    <3> QED
      BY <3>1, <3>2, ArrIncApart
  <2> QED
    BY <2>1
<1>4. \A i, j \in 1..m : i # j => arrInc(arrInc(v, n), i) # arrInc(arrInc(v, n), j)
  BY <1>2, ArrIncApart, Sizes
<1>5. Encrypt(c, m).twice = FALSE
  BY <1>3, <1>4 DEF Encrypt
<1> QED
  BY <1>1, <1>5

-----------------------------------------------------------------------------
(* An update of an unused key is safe, and leaves an unused key. *)
LEMMA UpdateSafe ==
    ASSUME NEW v \in Values, NEW w \in Values
    PROVE  tc_ctr_prng_update(Unused(v), w) = Unused(w)
<1>1. Encrypt(Unused(v), SEED_BLOCKS).twice = FALSE
  BY FirstBlocks, Sizes
<1> QED
  BY <1>1 DEF tc_ctr_prng_update, Unused

(* So is a request for output, with and without additional input. *)
LEMMA GeneratedSafe ==
    ASSUME NEW v \in Values, NEW v1 \in Values, NEW v2 \in Values,
           NEW additional \in BOOLEAN,
           NEW outlen \in Nat, outlen < MAX_BYTES_PER_REQ
    PROVE  Generated(Unused(v), additional, outlen, v1, v2) = Unused(v2)
<1> DEFINE n == Blocks(outlen)
           w == IF additional THEN v1 ELSE v
<1>1. n \in Nat /\ n + SEED_BLOCKS <= VSize
  BY BlocksBound, Sizes
<1>2. w \in Values
  OBVIOUS
<1>3. (IF additional THEN tc_ctr_prng_update(Unused(v), v1) ELSE Unused(v)) = Unused(w)
  BY UpdateSafe
<1>4. Generated(Unused(v), additional, outlen, v1, v2)
          = tc_ctr_prng_update(Encrypt(Unused(w), n), v2)
  BY <1>3 DEF Generated
<1>5. Encrypt(Encrypt(Unused(w), n), SEED_BLOCKS).twice = FALSE
  <2> HIDE DEF w, n
  <2> QED
    BY <1>1, <1>2, FollowingBlocks, Sizes
<1> QED
  BY <1>4, <1>5 DEF tc_ctr_prng_update, Unused

-----------------------------------------------------------------------------
(* Storing an unused context. *)
LEMMA StoreUnused ==
    ASSUME NEW w \in Values, Store(Unused(w))
    PROVE  V' \in Values /\ used' = {} /\ twice' = FALSE
  BY DEF Store, Unused

(* The parts of the invariant after a call, numbers and the rest. *)
LEMMA Parts ==
    ASSUME V' \in Values, used' = {}, twice' = FALSE,
           key' \in {"none", "derived"}, result' \in Results, filled' \in BOOLEAN,
           served' \in 0..MAX_REQS_BEFORE_RESEED,
           reseedCount' \in 0..(MAX_REQS_BEFORE_RESEED + 1),
           key' = "derived" => reseedCount' = served' + 1
    PROVE  PrngInv'
<1>1. TypeOK'
  <2>1. used' \subseteq 0..(VSize - 1) /\ twice' \in BOOLEAN
    OBVIOUS
  <2> QED
    BY <2>1, Zenon DEF TypeOK, Values
<1>2. NoBlockTwice'
  BY DEF NoBlockTwice
<1>3. PastOutputSafe'
  BY DEF PastOutputSafe
<1>4. RequestsPerSeed'
  BY Sizes DEF RequestsPerSeed, Instantiated
<1> QED
  BY <1>1, <1>2, <1>3, <1>4 DEF PrngInv

LEMMA InitInv == Init => PrngInv
<1> SUFFICES ASSUME Init PROVE PrngInv
  OBVIOUS
<1>1. V \in 0..(VSize - 1) /\ served \in 0..MAX_REQS_BEFORE_RESEED
      /\ reseedCount \in 0..(MAX_REQS_BEFORE_RESEED + 1)
  BY Sizes DEF Init
<1>2. key \in {"none", "derived"} /\ result \in Results /\ filled \in BOOLEAN
      /\ used \subseteq 0..(VSize - 1) /\ twice \in BOOLEAN /\ ~twice
  BY Zenon DEF Init, Results
<1>3. ~Instantiated
  BY DEF Init, Instantiated
<1> QED
  BY <1>1, <1>2, <1>3, Zenon
     DEF PrngInv, TypeOK, NoBlockTwice, PastOutputSafe, RequestsPerSeed

(* A call that is refused leaves the context alone. *)
LEMMA RefusedKeeps ==
    ASSUME PrngInv, NEW r \in Results, Refuses(r)
    PROVE  PrngInv'
  BY DEF PrngInv, TypeOK, NoBlockTwice, PastOutputSafe, RequestsPerSeed, Instantiated,
         Refuses, Returns

(* Instantiation and reseeding start a new count on a new key. *)
LEMMA SeededKeeps ==
    ASSUME PrngInv, V' \in Values, used' = {}, twice' = FALSE,
           key' = "derived", reseedCount' = 1, served' = 0, Returns("SUCCESS", TRUE)
    PROVE  PrngInv'
<1>1. result' \in Results /\ filled' \in BOOLEAN
  BY Zenon DEF Returns, Results
<1>2. /\ served' \in 0..MAX_REQS_BEFORE_RESEED
      /\ reseedCount' \in 0..(MAX_REQS_BEFORE_RESEED + 1)
      /\ reseedCount' = served' + 1
  BY Sizes
<1> QED
  BY <1>1, <1>2, Parts

LEMMA InstantiateKeeps ==
    ASSUME PrngInv, NEW e \in {"null", "data"}, NEW n \in EntropyLens,
           tc_ctr_prng_init(e, n)
    PROVE  PrngInv'
<1>1. CASE Refuses("FAIL")
  BY <1>1, RefusedKeeps DEF Results
<1>2. CASE ~Refuses("FAIL")
  <2>1. PICK v \in Values :
          Store(tc_ctr_prng_update([v |-> 0, used |-> {}, twice |-> twice], v))
    BY <1>2 DEF tc_ctr_prng_init, Values
  <2>2. [v |-> 0, used |-> {}, twice |-> twice] = Unused(0)
    BY DEF PrngInv, NoBlockTwice, TypeOK, Unused
  <2>3. V' \in Values /\ used' = {} /\ twice' = FALSE
    BY <2>1, <2>2, UpdateSafe, StoreUnused, Sizes
  <2> QED
    BY <1>2, <2>3, SeededKeeps DEF tc_ctr_prng_init
<1> QED
  BY <1>1, <1>2

(* Between calls the context in use is an unused one. *)
LEMMA ContextUnused ==
    ASSUME PrngInv, Instantiated
    PROVE  V \in Values /\ Context = Unused(V)
  BY DEF PrngInv, NoBlockTwice, TypeOK, PastOutputSafe, Context, Unused, Values

LEMMA ReseedKeeps ==
    ASSUME PrngInv, Instantiated, NEW e \in {"null", "data"}, NEW n \in EntropyLens,
           tc_ctr_prng_reseed(e, n)
    PROVE  PrngInv'
<1>1. CASE Refuses("FAIL")
  BY <1>1, RefusedKeeps DEF Results
<1>2. CASE ~Refuses("FAIL")
  <2>1. PICK v \in Values : Store(tc_ctr_prng_update(Context, v))
    BY <1>2 DEF tc_ctr_prng_reseed, Values
  <2>2. V' \in Values /\ used' = {} /\ twice' = FALSE
    BY <2>1, ContextUnused, UpdateSafe, StoreUnused
  <2> QED
    BY <1>2, <2>2, SeededKeeps DEF tc_ctr_prng_reseed
<1> QED
  BY <1>1, <1>2

(* Output is made only while the seed has requests left. *)
LEMMA GenerateKeeps ==
    ASSUME PrngInv, Instantiated, NEW additional \in BOOLEAN, NEW outlen \in Nat,
           NEW s \in Results, NEW f \in Results, NEW x \in Results,
           Generate(additional, outlen, s, f, x)
    PROVE  PrngInv'
<1>1. CASE Refuses(f) \/ Refuses(x)
  BY <1>1, RefusedKeeps
<1>2. CASE ~(Refuses(f) \/ Refuses(x))
  <2>1. /\ outlen < MAX_BYTES_PER_REQ /\ ~Exhausted(reseedCount)
        /\ \E v1, v2 \in Values : Store(Generated(Context, additional, outlen, v1, v2))
        /\ reseedCount' = reseedCount + 1 /\ served' = served + 1
        /\ Returns(s, TRUE) /\ UNCHANGED key
    BY <1>2 DEF Generate, Values
  <2>2. PICK v1 \in Values, v2 \in Values :
          Store(Generated(Context, additional, outlen, v1, v2))
    BY <2>1
  <2>3. V' \in Values /\ used' = {} /\ twice' = FALSE
    <3>1. V \in Values /\ Context = Unused(V)
      BY ContextUnused
    <3>2. Generated(Unused(V), additional, outlen, v1, v2) = Unused(v2)
      BY <2>1, <3>1, GeneratedSafe
    <3> QED
      BY <2>2, <3>1, <3>2, StoreUnused
  <2>4. reseedCount = served + 1 /\ reseedCount <= MAX_REQS_BEFORE_RESEED
    BY <2>1, Sizes DEF PrngInv, TypeOK, RequestsPerSeed, Exhausted
  <2>5. key' \in {"none", "derived"} /\ result' \in Results /\ filled' \in BOOLEAN
    BY <2>1, Zenon DEF PrngInv, TypeOK, Returns
  <2>6. /\ served' \in 0..MAX_REQS_BEFORE_RESEED
        /\ reseedCount' \in 0..(MAX_REQS_BEFORE_RESEED + 1)
        /\ reseedCount' = served' + 1
    BY <2>1, <2>4, Sizes DEF PrngInv, TypeOK
  <2> QED
    BY <2>3, <2>5, <2>6, Parts
<1> QED
  BY <1>1, <1>2

LEMMA UninstantiateKeeps ==
    ASSUME PrngInv, Uninstantiate
    PROVE  PrngInv'
<1> USE DEF Uninstantiate, tc_ctr_prng_uninstantiate, Returns
<1>1. V' \in Values /\ used' = {} /\ twice' = FALSE
  BY Sizes DEF PrngInv, NoBlockTwice, TypeOK
<1>2. key' = "none" /\ result' \in Results /\ filled' \in BOOLEAN
  BY Zenon DEF Results
<1>3. /\ served' \in 0..MAX_REQS_BEFORE_RESEED
      /\ reseedCount' \in 0..(MAX_REQS_BEFORE_RESEED + 1)
  BY Sizes
<1> QED
  BY <1>1, <1>2, <1>3, Parts

-----------------------------------------------------------------------------
(***************************************************************************)
(* The generator is used safely: no counter block is encrypted twice under *)
(* one key, the present context explains no past output, and a seed serves *)
(* as many requests as it may and no more (ctr_prng.c:228-283).            *)
(***************************************************************************)
THEOREM GeneratorSafe == Spec => []PrngInv
<1>1. Init => PrngInv
  BY InitInv
<1>2. PrngInv /\ [Next]_vars => PrngInv'
  <2> SUFFICES ASSUME PrngInv, [Next]_vars PROVE PrngInv'
    OBVIOUS
  <2>1. OutLens \subseteq Nat
    BY Sizes DEF OutLens
  <2>2. CASE Instantiate
    BY <2>2, InstantiateKeeps DEF Instantiate
  <2>3. CASE Reseed
    BY <2>3, ReseedKeeps DEF Reseed
  <2>4. CASE GenerateTc
    BY <2>1, <2>4, GenerateKeeps DEF GenerateTc, tc_ctr_prng_generate, Results
  <2>5. CASE Randombytes
    BY <2>1, <2>5, GenerateKeeps DEF Randombytes, randombytes, Results
  <2>6. CASE Uninstantiate
    BY <2>6, UninstantiateKeeps
  <2>7. CASE UNCHANGED vars
    BY <2>7 DEF vars, PrngInv, TypeOK, NoBlockTwice, PastOutputSafe, RequestsPerSeed,
                Instantiated
  <2> QED
    BY <2>2, <2>3, <2>4, <2>5, <2>6, <2>7 DEF Next
<1> QED
  BY <1>1, <1>2, PTL DEF Spec

-----------------------------------------------------------------------------
(* The expansion of Kyber's matrix. *)
(***************************************************************************)
(* Between the first squeeze of an entry and its last: the stream has been *)
(* squeezed for the blocks of the buffer and one for every refill, the     *)
(* buffer is the end of that, and the triples sampled are what is before.  *)
(***************************************************************************)
Grid == (0..(K - 1)) \X (0..(K - 1))

Squeezed == NBlocks + refills

StreamAt(s, n) ==
    /\ kind = "shake" => s.perms \in Nat /\ s.pt \in Nat /\ s.perms * RATE + s.pt = n * RATE
    /\ kind = "aes" => s.iv \in [1..DIGITS -> Nat] /\ BlockNum(s.iv) = (n % Period)

SamplerTypeOK ==
    /\ kind \in Kinds /\ transposed \in BOOLEAN
    /\ row \in 0..(K - 1) /\ col \in 0..(K - 1)
    /\ pc \in {"absorb", "sample", "refill", "next", "done"}
    /\ DOMAIN buf = 0..(Capacity - 1) /\ buflen \in 0..Capacity /\ pos \in 0..buflen
    /\ ctr \in Nat /\ got \in Nat /\ ctr + got \in 0..N
    /\ triples \in Nat /\ refills \in Nat
    /\ nonce \in [BOOLEAN -> [Grid -> Seq(Nat)]]

(* An entry has all its coefficients when it is left, and a refill is needed. *)
WhenDone ==
    /\ pc = "next" => ctr = N
    /\ pc = "refill" => got = 0 /\ ctr < N /\ pos + 3 > buflen

(* The entries before the current one, in the order of the loops, came from their bytes. *)
Expanded(t, e) ==
    \/ pc = "done"
    \/ ~t /\ transposed
    \/ /\ t = transposed
       /\ \/ e[1] < row
          \/ e[1] = row /\ e[2] < col
          \/ e[1] = row /\ e[2] = col /\ pc # "absorb"

NoncesRight == \A t \in BOOLEAN : \A e \in Grid :
                   Expanded(t, e) => nonce[t][e] = Nonce(t, e[1], e[2])

BufferIsStream ==
    pc \in {"sample", "refill"} =>
        /\ StreamAt(xof, Squeezed)
        /\ \A p \in 0..(buflen - 1) : buf[p] = Squeezed * RATE - buflen + p
        /\ 3 * triples = Squeezed * RATE - buflen + pos
        /\ pos % 3 = 0

(* Every triple after MaxRefills refills is good for a coefficient. *)
RefillsBounded ==
    pc \in {"sample", "refill"} /\ refills >= MaxRefills =>
        (refills - MaxRefills) * RATE <= 3 * (ctr + got) + (buflen - pos)

SamplerInv == SamplerTypeOK /\ WhenDone /\ NoncesRight

StreamInv == BufferIsStream /\ RefillsBounded /\ TriplesInOrder

(* AES's counter does not wrap within an entry. *)
CounterSuffices ==
    \A k \in Kinds : k = "aes" =>
        ((((12 * N) \div 8) * 4096) \div 3329 + Rates[k]) \div Rates[k] + MaxRefills + 3 * N
            <= Period

LEMMA SamplerConstants ==
    ASSUME kind \in Kinds
    PROVE  /\ RATE \in Nat /\ RATE > 0 /\ N \in Nat /\ N > 0 /\ K \in Nat /\ K > 0
           /\ MaxRefills \in Nat
           /\ NBlocks \in Nat /\ NBlocks > 0
           /\ NBlocks * RATE \in Nat /\ RATE <= NBlocks * RATE
<1>1. /\ RATE \in Nat /\ RATE > 0 /\ N \in Nat /\ N > 0 /\ K \in Nat /\ K > 0
      /\ MaxRefills \in Nat
  BY SamplerAssumption DEF RATE
<1>2. NBlocks \in Nat /\ NBlocks > 0
  <2>1. PICK r \in Nat : r = RATE /\ r > 0
    BY <1>1
  <2>2. PICK x \in Nat : x = (((12 * N) \div 8) * 4096) \div 3329
    <3>1. (12 * N) \div 8 \in Nat
      BY <1>1
    <3>2. ((12 * N) \div 8) * 4096 \in Nat
      BY <3>1
    <3> QED
      BY <3>2
  <2>3. (x + r) \div r \in Nat /\ (x + r) \div r > 0
    <3>1. PICK q \in Nat, s \in 0..(r - 1) : q = (x + r) \div r /\ x + r = r * q + s
      BY <2>1, QuotientRemainder
    <3>2. q # 0
      <4> SUFFICES ASSUME q = 0 PROVE FALSE
        OBVIOUS
      <4>1. r * q = 0
        BY <2>1, Z3
      <4> QED
        BY <2>1, <3>1, <4>1
    <3> QED
      BY <3>1, <3>2
  <2> QED
    BY <2>1, <2>2, <2>3 DEF NBlocks
<1>3. NBlocks * RATE \in Nat /\ RATE <= NBlocks * RATE
  <2>1. PICK r \in Nat, n \in Nat : r = RATE /\ n = NBlocks /\ n > 0
    BY <1>1, <1>2
  <2>2. n * r \in Nat /\ r <= n * r
    BY <2>1, Z3
  <2> QED
    BY <2>1, <2>2
<1> QED
  BY <1>1, <1>2, <1>3

LEMMA ZerosRead == Zeros \in [1..DIGITS -> Nat] /\ BlockNum(Zeros) = (0 % Period)
<1>1. BASE \in Nat /\ BASE > 0 /\ DIGITS \in Nat
  BY CounterAssumption
<1>2. ASSUME NEW d \in 1..DIGITS PROVE ((0 \div Place[DIGITS - d]) % BASE) = 0
  <2>1. PICK p \in Nat : p = Place[DIGITS - d] /\ p > 0
    <3>1. DIGITS - d \in 0..DIGITS
      BY <1>1
    <3> QED
      BY <3>1, PlaceIs
  <2>2. 0 \div p = 0
    BY <2>1, Z3
  <2>3. (0 % BASE) = 0
    BY <1>1, Z3
  <2> QED
    BY <2>1, <2>2, <2>3
<1>3. Zeros = DigitsOf(0)
  BY <1>2 DEF Zeros, DigitsOf
<1>4. BlockNum(DigitsOf(0)) = (0 % Period)
  BY BlockNumOfDigits
<1> QED
  BY <1>3, <1>4 DEF Zeros

(* Whatever the stream, so many bytes come out of it. *)
LEMMA SqueezeLength ==
    ASSUME kind \in Kinds, NEW s, NEW n \in Nat, NEW r, r = xof_squeezeblocks(s, n)
    PROVE  Len(r.out) = n * RATE /\ DOMAIN r.out = 1..(n * RATE)
<1>1. RATE \in Nat /\ n * RATE \in Nat
  BY SamplerConstants
<1>2. kind \in {"shake", "aes", "ascon"}
  BY SamplerAssumption
<1>3. CASE kind = "shake"
  <2>1. r = shake_out(s, n * RATE)
    BY <1>3 DEF xof_squeezeblocks
  <2>2. r.out = [b \in 1..(n * RATE) |-> s.perms * RATE + s.pt + b - 1]
    BY <2>1 DEF shake_out
  <2> QED
    BY <1>1, <2>2
<1>4. CASE kind = "aes"
  <2>1. r = AesBlocks(s, n)
    BY <1>4 DEF xof_squeezeblocks
  <2>2. r.out = [b \in 1..(n * RATE) |-> BlockNum(s.iv) * RATE + b - 1]
    BY <2>1 DEF AesBlocks
  <2> QED
    BY <1>1, <2>2
<1>5. CASE kind = "ascon"
  <2>1. r = AsconBlocks(s, n)
    BY <1>5 DEF xof_squeezeblocks
  <2>2. r.out = [b \in 1..(n * RATE) |-> s.perms * RATE + b - 1]
    BY <2>1 DEF AsconBlocks
  <2> QED
    BY <1>1, <2>2
<1> QED
  BY <1>2, <1>3, <1>4, <1>5

(* SHAKE128 and AES go on where the last squeeze ended. *)
LEMMA SqueezeGoesOn ==
    ASSUME kind \in Kinds, kind \in {"shake", "aes"},
           NEW s, NEW n \in Nat, NEW m \in Nat, m > 0,
           StreamAt(s, n), kind = "aes" => n < Period,
           NEW r, r = xof_squeezeblocks(s, m)
    PROVE  /\ r.out = [b \in 1..(m * RATE) |-> n * RATE + b - 1]
           /\ StreamAt(r.state, n + m)
<1>1. RATE \in Nat /\ RATE > 0
  BY SamplerConstants
<1>2. CASE kind = "shake"
  <2>1. PICK perms \in Nat, pt \in Nat :
            perms = s.perms /\ pt = s.pt /\ perms * RATE + pt = n * RATE
    BY <1>2 DEF StreamAt
  <2>2. r = shake_out(s, m * RATE)
    BY <1>2 DEF xof_squeezeblocks
  <2>3. PICK len \in Nat : len = m * RATE /\ len > 0
    <3>1. m * RATE \in Nat /\ m * RATE > 0
      BY <1>1, Z3
    <3> QED
      BY <3>1
  <2>4. PICK permuted \in Nat : permuted = (pt + len - 1) \div RATE
    <3>1. pt + len - 1 \in Nat
      BY <2>3
    <3> QED
      BY <1>1, <3>1, QuotientRemainder
  <2>5. permuted * RATE <= pt + len - 1
    <3>1. PICK q \in Nat, x \in 0..(RATE - 1) :
              q = (pt + len - 1) \div RATE /\ pt + len - 1 = RATE * q + x
      <4>1. pt + len - 1 \in Nat
        BY <2>3
      <4> QED
        BY <1>1, <4>1, QuotientRemainder
    <3>2. q * RATE = RATE * q /\ RATE * q \in Nat
      BY <1>1, Z3
    <3> QED
      BY <1>1, <2>4, <3>1, <3>2
  <2>6. /\ r.out = [b \in 1..len |-> perms * RATE + pt + b - 1]
        /\ r.state = [perms |-> perms + permuted, pt |-> pt + len - permuted * RATE]
    BY <2>1, <2>2, <2>3, <2>4 DEF shake_out
  <2>7. r.out = [b \in 1..(m * RATE) |-> n * RATE + b - 1]
    BY <2>1, <2>3, <2>6
  <2>8. r.state.perms \in Nat /\ r.state.pt \in Nat
    <3>1. permuted * RATE \in Nat
      BY <1>1
    <3>2. pt + len - permuted * RATE \in Nat
      BY <2>3, <2>5, <3>1
    <3> QED
      BY <2>6, <3>2
  <2>9. (perms + permuted) * RATE + (pt + len - permuted * RATE) = (n + m) * RATE
    <3>1. (perms + permuted) * RATE = perms * RATE + permuted * RATE
      BY <1>1, Z3
    <3>2. (n + m) * RATE = n * RATE + m * RATE
      BY <1>1, Z3
    <3>3. perms * RATE \in Nat /\ permuted * RATE \in Nat /\ n * RATE \in Nat
      BY <1>1
    <3> QED
      BY <2>1, <2>3, <3>1, <3>2, <3>3
  <2>10. r.state.perms * RATE + r.state.pt = (n + m) * RATE
    BY <2>6, <2>9
  <2>11. StreamAt(r.state, n + m)
    BY <1>2, <2>8, <2>10 DEF StreamAt
  <2> QED
    BY <2>7, <2>11
<1>3. CASE kind = "aes"
  <2>1. s.iv \in [1..DIGITS -> Nat] /\ BlockNum(s.iv) = (n % Period) /\ n < Period
    BY <1>3 DEF StreamAt
  <2>2. BlockNum(s.iv) = n
    <3>1. PICK p \in Nat : p = Period /\ n < p
      <4>1. DIGITS \in 0..DIGITS
        BY CounterAssumption
      <4> QED
        BY <2>1, <4>1, PlaceIs DEF Period
    <3>2. (n % p) = n
      BY <3>1, Z3
    <3> QED
      BY <2>1, <3>1, <3>2
  <2>3. /\ r.out = [b \in 1..(m * RATE) |-> n * RATE + b - 1]
        /\ r.state = [iv |-> DigitsOf(n + m)]
    BY <1>3, <2>2 DEF xof_squeezeblocks, AesBlocks
  <2>4. DigitsOf(n + m) \in [1..DIGITS -> Nat]
    <3>1. n + m \in Nat /\ 0..(BASE - 1) \subseteq Nat
      BY CounterAssumption
    <3>2. DigitsOf(n + m) \in [1..DIGITS -> 0..(BASE - 1)]
      BY <3>1, DigitsType
    <3> QED
      BY <3>1, <3>2
  <2>5. BlockNum(DigitsOf(n + m)) = ((n + m) % Period)
    BY BlockNumOfDigits
  <2> QED
    BY <1>3, <2>3, <2>4, <2>5 DEF StreamAt
<1> QED
  BY <1>2, <1>3

LEMMA SameBuild ==
    ASSUME kind' = kind
    PROVE  RATE' = RATE /\ NBlocks' = NBlocks /\ Capacity' = Capacity
<1>1. RATE' = RATE
  BY DEF RATE
<1>2. NBlocks' = NBlocks
  BY <1>1 DEF NBlocks
<1> QED
  BY <1>1, <1>2 DEF Capacity

LEMMA SamplerInvInitially == SamplerInit => SamplerInv
<1> SUFFICES ASSUME SamplerInit PROVE SamplerInv
  OBVIOUS
<1>1. /\ kind \in Kinds /\ transposed = FALSE /\ pc = "absorb" /\ row = 0 /\ col = 0
      /\ buf = [p \in 0..(Capacity - 1) |-> Unwritten] /\ buflen = 0
      /\ pos = 0 /\ got = 0 /\ ctr = 0 /\ triples = 0 /\ refills = 0
      /\ nonce = [t \in BOOLEAN |-> [e \in Grid |-> <<>>]]
  BY DEF SamplerInit, Grid
<1>2. N \in Nat /\ K \in Nat /\ K > 0 /\ NBlocks * RATE \in Nat
  BY <1>1, SamplerConstants
<1>3. nonce \in [BOOLEAN -> [Grid -> Seq(Nat)]]
  <2>1. <<>> \in Seq(Nat)
    OBVIOUS
  <2> QED
    BY <1>1, <2>1
<1>4. SamplerTypeOK
  <2>1. DOMAIN buf = 0..(Capacity - 1)
    BY <1>1
  <2>2. 0 \in 0..Capacity
    BY <1>2 DEF Capacity
  <2>3. row \in 0..(K - 1) /\ col \in 0..(K - 1)
    BY <1>1, <1>2
  <2>4. pos \in 0..buflen /\ ctr \in Nat /\ got \in Nat /\ ctr + got \in 0..N
    BY <1>1, <1>2
  <2>5. kind \in Kinds /\ transposed \in BOOLEAN /\ triples \in Nat /\ refills \in Nat
    BY <1>1
  <2>6. pc \in {"absorb", "sample", "refill", "next", "done"} /\ buflen \in 0..Capacity
    BY <1>1, <2>2
  <2> QED
    BY <1>3, <2>1, <2>3, <2>4, <2>5, <2>6 DEF SamplerTypeOK
<1>5. NoncesRight
  <2>1. \A t \in BOOLEAN, e \in Grid : ~Expanded(t, e)
    <3>1. \A e \in Grid : e[1] >= 0 /\ e[2] >= 0
      BY <1>2 DEF Grid
    <3> QED
      BY <1>1, <1>2, <3>1 DEF Expanded, Grid
  <2> QED
    BY <2>1 DEF NoncesRight
<1> QED
  BY <1>1, <1>4, <1>5 DEF SamplerInv, WhenDone

LEMMA AbsorbExpands ==
    ASSUME SamplerInv, Absorb
    PROVE  SamplerInv'
<1>1. /\ pc = "absorb" /\ pc' = "sample"
      /\ nonce' = [nonce EXCEPT ![transposed][<<row, col>>] = Nonce(transposed, row, col)]
      /\ buflen' = NBlocks * RATE /\ pos' = 0 /\ got' = 0 /\ ctr' = 0
      /\ triples' = 0 /\ refills' = 0
      /\ kind' = kind /\ transposed' = transposed /\ row' = row /\ col' = col
  BY DEF Absorb
<1>2. SamplerTypeOK
  BY DEF SamplerInv
<1>3. /\ kind \in Kinds /\ transposed \in BOOLEAN /\ row \in 0..(K - 1) /\ col \in 0..(K - 1)
      /\ nonce \in [BOOLEAN -> [Grid -> Seq(Nat)]] /\ DOMAIN buf = 0..(Capacity - 1)
  BY <1>2 DEF SamplerTypeOK
<1>4. RATE' = RATE /\ NBlocks' = NBlocks /\ Capacity' = Capacity
  BY <1>1, SameBuild
<1>5. NBlocks * RATE \in Nat /\ N \in Nat /\ K \in Nat
  BY <1>3, SamplerConstants
<1>6. <<row, col>> \in Grid /\ Nonce(transposed, row, col) \in Seq(Nat)
  BY <1>3, <1>5 DEF Grid, Nonce
<1>7. nonce' \in [BOOLEAN -> [Grid -> Seq(Nat)]]
  BY <1>1, <1>3, <1>6
<1>8. SamplerTypeOK'
  <2>1. DOMAIN buf' = 0..(Capacity' - 1)
    BY <1>3, <1>4 DEF Absorb, Write
  <2>2. buflen' \in 0..Capacity' /\ pos' \in 0..buflen'
    BY <1>1, <1>4, <1>5 DEF Capacity
  <2> QED
    BY <1>1, <1>3, <1>5, <1>7, <2>1, <2>2 DEF SamplerTypeOK
<1>9. NoncesRight'
  <2> SUFFICES ASSUME NEW t \in BOOLEAN, NEW e \in Grid, Expanded(t, e)'
               PROVE  nonce'[t][e] = Nonce(t, e[1], e[2])
    BY DEF NoncesRight
  <2>1. CASE t = transposed /\ e = <<row, col>>
    <3>1. nonce'[t][e] = Nonce(transposed, row, col)
      BY <1>1, <1>3, <1>6, <2>1
    <3> QED
      BY <2>1, <3>1
  <2>2. CASE ~(t = transposed /\ e = <<row, col>>)
    <3>1. nonce'[t][e] = nonce[t][e]
      BY <1>1, <1>3, <1>6, <2>2
    <3>2. e = <<e[1], e[2]>>
      BY DEF Grid
    <3>3. Expanded(t, e)
      BY <1>1, <2>2, <3>2 DEF Expanded
    <3> QED
      BY <3>1, <3>3 DEF SamplerInv, NoncesRight
  <2> QED
    BY <2>1, <2>2
<1> QED
  BY <1>1, <1>8, <1>9 DEF SamplerInv, WhenDone

(* What changes neither the entry nor what is known of it keeps its nonces right. *)
LEMMA NoncesStay ==
    ASSUME NoncesRight, UNCHANGED <<transposed, row, col, nonce>>,
           pc \notin {"absorb", "done"}, pc' # "done"
    PROVE  NoncesRight'
<1> SUFFICES ASSUME NEW t \in BOOLEAN, NEW e \in Grid, Expanded(t, e)'
             PROVE  nonce'[t][e] = Nonce(t, e[1], e[2])
  BY DEF NoncesRight
<1>1. Expanded(t, e)
  BY DEF Expanded
<1> QED
  BY <1>1 DEF NoncesRight

LEMMA SampleGets ==
    ASSUME SamplerInv, Sample
    PROVE  /\ SamplerInv'
           /\ pos + 3 <= buflen
           /\ refills >= MaxRefills => got' >= got + 1
<1>1. PICK low \in BOOLEAN, high \in BOOLEAN :
          /\ pc = "sample" /\ Sampling /\ (refills >= MaxRefills => low /\ high)
          /\ got' = got + (IF low THEN 1 ELSE 0)
                    + (IF SecondWanted(got + (IF low THEN 1 ELSE 0)) /\ high THEN 1 ELSE 0)
          /\ pos' = pos + 3 /\ triples' = triples + 1
          /\ UNCHANGED <<kind, transposed, pc, row, col, xof, buf, buflen, ctr, refills, nonce>>
  BY DEF Sample
<1>2. SamplerTypeOK
  BY DEF SamplerInv
<1>3. kind \in Kinds
  BY <1>2 DEF SamplerTypeOK
<1>4. RATE' = RATE /\ NBlocks' = NBlocks /\ Capacity' = Capacity
  BY <1>1, SameBuild
<1>5. NBlocks * RATE \in Nat /\ N \in Nat /\ K \in Nat
  BY <1>3, SamplerConstants
<1>6. /\ ctr \in Nat /\ got \in Nat /\ ctr + got \in 0..N /\ buflen \in 0..Capacity
      /\ pos \in 0..buflen /\ triples \in Nat /\ refills \in Nat
      /\ Capacity \in Nat
  BY <1>2, <1>5 DEF SamplerTypeOK, Capacity
<1>7. got < N - ctr /\ pos + 3 <= buflen
  BY <1>1 DEF Sampling
<1>8. got' \in Nat /\ ctr + got' \in 0..N /\ got' >= got /\ (low => got' >= got + 1)
  <2>1. CASE low
    BY <1>1, <1>5, <1>6, <1>7, <2>1 DEF SecondWanted
  <2>2. CASE ~low
    BY <1>1, <1>5, <1>6, <1>7, <2>2 DEF SecondWanted
  <2> QED
    BY <2>1, <2>2
<1>9. pos' \in 0..buflen
  BY <1>1, <1>6, <1>7
<1>10. SamplerTypeOK'
  BY <1>1, <1>2, <1>4, <1>6, <1>8, <1>9 DEF SamplerTypeOK
<1>11. NoncesRight'
  BY <1>1, NoncesStay DEF SamplerInv
<1> QED
  BY <1>1, <1>7, <1>8, <1>10, <1>11 DEF SamplerInv, WhenDone

LEMMA ReturnKeeps ==
    ASSUME SamplerInv, Return
    PROVE  SamplerInv'
<1>1. /\ pc = "sample" /\ ~Sampling /\ ctr' = ctr + got /\ got' = 0
      /\ pc' = (IF ctr + got < N THEN "refill" ELSE "next")
      /\ UNCHANGED <<kind, transposed, row, col, xof, buf, buflen, pos, last, triples,
                     refills, nonce>>
  BY DEF Return
<1>2. SamplerTypeOK
  BY DEF SamplerInv
<1>3. kind \in Kinds
  BY <1>2 DEF SamplerTypeOK
<1>4. RATE' = RATE /\ NBlocks' = NBlocks /\ Capacity' = Capacity
  BY <1>1, SameBuild
<1>5. NBlocks * RATE \in Nat /\ N \in Nat /\ K \in Nat
  BY <1>3, SamplerConstants
<1>6. /\ ctr \in Nat /\ got \in Nat /\ ctr + got \in 0..N /\ buflen \in 0..Capacity
      /\ pos \in 0..buflen /\ Capacity \in Nat
  BY <1>2, <1>5 DEF SamplerTypeOK, Capacity
<1>7. SamplerTypeOK'
  BY <1>1, <1>2, <1>4, <1>5, <1>6 DEF SamplerTypeOK
<1>8. WhenDone'
  BY <1>1, <1>5, <1>6 DEF WhenDone, Sampling
<1>9. NoncesRight'
  BY <1>1, NoncesStay DEF SamplerInv
<1> QED
  BY <1>7, <1>8, <1>9 DEF SamplerInv

LEMMA RefillKeeps ==
    ASSUME SamplerInv, Refill
    PROVE  SamplerInv'
<1>1. /\ pc = "refill" /\ pc' = "sample" /\ pos' = 0 /\ refills' = refills + 1
      /\ buflen' = Leftover(buflen) + RATE
      /\ UNCHANGED <<kind, transposed, row, col, got, ctr, last, triples, nonce>>
  BY DEF Refill
<1>2. SamplerTypeOK
  BY DEF SamplerInv
<1>3. kind \in Kinds
  BY <1>2 DEF SamplerTypeOK
<1>4. RATE' = RATE /\ NBlocks' = NBlocks /\ Capacity' = Capacity
  BY <1>1, SameBuild
<1>5. NBlocks * RATE \in Nat /\ RATE <= NBlocks * RATE /\ RATE \in Nat
  BY <1>3, SamplerConstants
<1>6. buflen \in Nat /\ refills \in Nat
  BY <1>2, <1>5 DEF SamplerTypeOK, Capacity
<1>7. Leftover(buflen) \in 0..2
  BY <1>6 DEF Leftover
<1>8. SamplerTypeOK'
  <2>1. DOMAIN buf' = 0..(Capacity' - 1)
    BY <1>2, <1>4 DEF Refill, Write, SamplerTypeOK
  <2>2. buflen' \in 0..Capacity' /\ pos' \in 0..buflen'
    BY <1>1, <1>4, <1>5, <1>7 DEF Capacity
  <2> QED
    BY <1>1, <1>2, <1>6, <2>1, <2>2 DEF SamplerTypeOK
<1>9. NoncesRight'
  BY <1>1, NoncesStay DEF SamplerInv
<1> QED
  BY <1>1, <1>8, <1>9 DEF SamplerInv, WhenDone

(* The next entry follows all those before it. *)
LEMMA NextEntryFollows ==
    ASSUME SamplerInv, NextEntry
    PROVE  SamplerInv'
<1>1. /\ pc = "next"
      /\ UNCHANGED <<kind, xof, buf, buflen, pos, got, ctr, last, triples, refills, nonce>>
  BY DEF NextEntry
<1>2. SamplerTypeOK /\ NoncesRight
  BY DEF SamplerInv
<1>3. kind \in Kinds /\ transposed \in BOOLEAN /\ row \in 0..(K - 1) /\ col \in 0..(K - 1)
  BY <1>2 DEF SamplerTypeOK
<1>4. RATE' = RATE /\ NBlocks' = NBlocks /\ Capacity' = Capacity
  BY <1>1, SameBuild
<1>5. K \in Nat /\ K > 0
  BY <1>3, SamplerConstants
<1>6. CASE col + 1 < K
  <2>1. col' = col + 1 /\ row' = row /\ transposed' = transposed /\ pc' = "absorb"
    BY <1>6 DEF NextEntry
  <2>2. \A t \in BOOLEAN, e \in Grid : Expanded(t, e)' => Expanded(t, e)
    BY <1>1, <1>3, <1>5, <2>1 DEF Expanded, Grid
  <2>3. NoncesRight'
    BY <1>1, <1>2, <2>2 DEF NoncesRight
  <2>4. SamplerTypeOK'
    BY <1>1, <1>2, <1>3, <1>4, <1>5, <1>6, <2>1 DEF SamplerTypeOK
  <2> QED
    BY <2>1, <2>3, <2>4 DEF SamplerInv, WhenDone
<1>7. CASE ~(col + 1 < K) /\ row + 1 < K
  <2>1. col' = 0 /\ row' = row + 1 /\ transposed' = transposed /\ pc' = "absorb"
    BY <1>7 DEF NextEntry
  <2>2. \A t \in BOOLEAN, e \in Grid : Expanded(t, e)' => Expanded(t, e)
    BY <1>1, <1>3, <1>5, <1>7, <2>1 DEF Expanded, Grid
  <2>3. NoncesRight'
    BY <1>1, <1>2, <2>2 DEF NoncesRight
  <2>4. SamplerTypeOK'
    BY <1>1, <1>2, <1>3, <1>4, <1>5, <1>7, <2>1 DEF SamplerTypeOK
  <2> QED
    BY <2>1, <2>3, <2>4 DEF SamplerInv, WhenDone
<1>8. CASE ~(col + 1 < K) /\ ~(row + 1 < K)
  <2>1. col' = 0 /\ row' = 0 /\ transposed' = TRUE
        /\ pc' = (IF transposed THEN "done" ELSE "absorb")
    BY <1>8 DEF NextEntry
  <2>2. \A t \in BOOLEAN, e \in Grid : Expanded(t, e)' => Expanded(t, e)
    <3> SUFFICES ASSUME NEW t \in BOOLEAN, NEW e \in Grid, Expanded(t, e)'
                 PROVE  Expanded(t, e)
      OBVIOUS
    <3>1. e[1] \in 0..row /\ e[2] \in 0..col /\ row = K - 1 /\ col = K - 1
      BY <1>3, <1>5, <1>8 DEF Grid
    <3>2. t = transposed => Expanded(t, e)
      BY <1>1, <1>3, <3>1 DEF Expanded
    <3>3. t # transposed => ~t /\ transposed
      <4>1. CASE transposed
        BY <4>1
      <4>2. CASE ~transposed
        <5>1. pc' = "absorb" /\ transposed' /\ row' = 0 /\ col' = 0
          BY <2>1, <4>2
        <5>2. ~(e[1] < 0) /\ ~(e[2] < 0)
          BY <3>1, <1>3
        <5>3. ~t
          BY <5>1, <5>2 DEF Expanded
        <5> QED
          BY <1>3, <4>2, <5>3
      <4> QED
        BY <4>1, <4>2
    <3> QED
      BY <3>2, <3>3 DEF Expanded
  <2>3. NoncesRight'
    BY <1>1, <1>2, <2>2 DEF NoncesRight
  <2>4. SamplerTypeOK'
    BY <1>1, <1>2, <1>3, <1>4, <1>5, <2>1 DEF SamplerTypeOK
  <2> QED
    BY <2>1, <2>3, <2>4 DEF SamplerInv, WhenDone
<1> QED
  BY <1>6, <1>7, <1>8

LEMMA SamplerInvariant == SamplerSpec => []SamplerInv
<1>1. SamplerInit => SamplerInv
  BY SamplerInvInitially
<1>2. SamplerInv /\ [SamplerNext]_samplerVars => SamplerInv'
  <2> SUFFICES ASSUME SamplerInv, [SamplerNext]_samplerVars PROVE SamplerInv'
    OBVIOUS
  <2>1. CASE Absorb
    BY <2>1, AbsorbExpands
  <2>2. CASE Sample
    BY <2>2, SampleGets
  <2>3. CASE Return
    BY <2>3, ReturnKeeps
  <2>4. CASE Refill
    BY <2>4, RefillKeeps
  <2>5. CASE NextEntry
    BY <2>5, NextEntryFollows
  <2>6. CASE UNCHANGED samplerVars
    <3>1. RATE' = RATE /\ NBlocks' = NBlocks /\ Capacity' = Capacity
      BY <2>6, SameBuild DEF samplerVars
    <3>2. SamplerTypeOK'
      BY <2>6, <3>1 DEF SamplerInv, SamplerTypeOK, samplerVars
    <3>3. WhenDone'
      BY <2>6 DEF SamplerInv, WhenDone, samplerVars
    <3>4. NoncesRight'
      BY <2>6 DEF SamplerInv, NoncesRight, Expanded, samplerVars
    <3> QED
      BY <3>2, <3>3, <3>4 DEF SamplerInv
  <2> QED
    BY <2>1, <2>2, <2>3, <2>4, <2>5, <2>6 DEF SamplerNext
<1> QED
  BY <1>1, <1>2, PTL DEF SamplerSpec

(***************************************************************************)
(* The matrix is expanded in bounds, entry by entry, and its transpose is  *)
(* its transpose, whatever the function, the block size and the candidates *)
(* that are refused (indcpa.c, gen_matrix).                                *)
(***************************************************************************)
THEOREM MatrixExpanded == SamplerSpec => []MatrixIsExpanded
<1>1. SamplerInv => MatrixIsExpanded
  <2> SUFFICES ASSUME SamplerInv PROVE MatrixIsExpanded
    OBVIOUS
  <2>1. InBounds /\ EntriesComplete
    BY DEF SamplerInv, SamplerTypeOK, WhenDone, InBounds, EntriesComplete
  <2>2. TransposeAgrees
    <3> SUFFICES ASSUME pc = "done", NEW e \in Grid, NEW f \in Grid
                 PROVE  (nonce[TRUE][e] = nonce[FALSE][f]) <=> (f = <<e[2], e[1]>>)
      BY DEF TransposeAgrees, Grid
    <3>1. nonce[TRUE][e] = <<e[1], e[2]>> /\ nonce[FALSE][f] = <<f[2], f[1]>>
      BY DEF SamplerInv, NoncesRight, Expanded, Nonce
    <3>2. f = <<f[1], f[2]>>
      BY DEF Grid
    <3> QED
      BY <3>1, <3>2
  <2> QED
    BY <2>1, <2>2 DEF MatrixIsExpanded
<1> QED
  BY <1>1, SamplerInvariant, PTL

(* A buffer after a piece of it was written. *)
LEMMA Written ==
    ASSUME NEW b, NEW from \in Nat, NEW m \in Nat, NEW bytes, Len(bytes) = m,
           NEW p \in DOMAIN b
    PROVE  Write(b, from, bytes)[p] =
              IF from <= p /\ p < from + m THEN bytes[p - from + 1] ELSE b[p]
BY DEF Write

LEMMA StreamInitially ==
    ASSUME SamplerInit
    PROVE  StreamInv
BY DEF SamplerInit, StreamInv, BufferIsStream, RefillsBounded, TriplesInOrder

LEMMA AbsorbStream ==
    ASSUME SamplerInv, Absorb, Kinds \subseteq {"shake", "aes"}
    PROVE  StreamInv'
<1>1. kind \in Kinds /\ kind \in {"shake", "aes"} /\ DOMAIN buf = 0..(Capacity - 1)
  BY DEF SamplerInv, SamplerTypeOK
<1>2. /\ RATE \in Nat /\ RATE > 0 /\ NBlocks \in Nat /\ NBlocks > 0 /\ NBlocks * RATE \in Nat
      /\ MaxRefills \in Nat
  BY <1>1, SamplerConstants
<1>3. PICK r : r = xof_squeezeblocks(xof_absorb, NBlocks)
  OBVIOUS
<1>4. /\ xof' = r.state /\ buf' = Write(buf, 0, r.out) /\ buflen' = NBlocks * RATE
      /\ pos' = 0 /\ got' = 0 /\ ctr' = 0 /\ triples' = 0 /\ refills' = 0 /\ kind' = kind
  BY <1>3 DEF Absorb
<1>5. RATE' = RATE /\ NBlocks' = NBlocks
  BY <1>4, SameBuild
<1>6. StreamAt(xof_absorb, 0)
  <2>1. 0 * RATE = 0
    BY <1>2
  <2> QED
    BY <1>1, <2>1, ZerosRead DEF StreamAt, xof_absorb
<1>7. 0 < Period
  <2>1. DIGITS \in 0..DIGITS
    BY CounterAssumption
  <2> QED
    BY <2>1, PlaceIs DEF Period
<1>8. /\ r.out = [b \in 1..(NBlocks * RATE) |-> 0 * RATE + b - 1]
      /\ StreamAt(r.state, 0 + NBlocks)
  BY <1>1, <1>2, <1>3, <1>6, <1>7, SqueezeGoesOn
<1>9. Squeezed' = NBlocks /\ Squeezed' * RATE' = NBlocks * RATE
  BY <1>2, <1>4, <1>5 DEF Squeezed
<1>10. StreamAt(xof, Squeezed)'
  BY <1>2, <1>4, <1>5, <1>8, <1>9 DEF StreamAt
<1>11. \A p \in 0..(buflen' - 1) : buf'[p] = Squeezed' * RATE' - buflen' + p
  <2> SUFFICES ASSUME NEW p \in 0..(NBlocks * RATE - 1)
               PROVE  buf'[p] = NBlocks * RATE - NBlocks * RATE + p
    BY <1>4, <1>9
  <2>1. p \in DOMAIN buf
    BY <1>1, <1>2 DEF Capacity
  <2>2. Len(r.out) = NBlocks * RATE
    BY <1>1, <1>2, <1>3, SqueezeLength
  <2>3. buf'[p] = r.out[p - 0 + 1]
    BY <1>2, <1>4, <2>1, <2>2, Written
  <2>4. r.out[p + 1] = 0 * RATE + (p + 1) - 1
    BY <1>2, <1>8
  <2> QED
    BY <1>2, <2>3, <2>4
<1>12. BufferIsStream'
  BY <1>2, <1>4, <1>9, <1>10, <1>11 DEF BufferIsStream
<1>13. RefillsBounded'
  <2>1. CASE MaxRefills = 0
    BY <1>2, <1>4, <1>5, <2>1 DEF RefillsBounded
  <2>2. CASE MaxRefills # 0
    BY <1>2, <1>4, <2>2 DEF RefillsBounded
  <2> QED
    BY <2>1, <2>2
<1>14. TriplesInOrder'
  BY <1>4 DEF TriplesInOrder
<1> QED
  BY <1>12, <1>13, <1>14 DEF StreamInv

LEMMA SampleStream ==
    ASSUME SamplerInv, StreamInv, Sample
    PROVE  StreamInv'
<1>1. /\ pc = "sample" /\ last' = <<buf[pos], buf[pos + 1], buf[pos + 2]>>
      /\ pos' = pos + 3 /\ triples' = triples + 1
      /\ UNCHANGED <<kind, transposed, pc, row, col, xof, buf, buflen, ctr, refills, nonce>>
  BY DEF Sample
<1>2. SamplerTypeOK /\ kind \in Kinds
  BY DEF SamplerInv, SamplerTypeOK
<1>3. RATE \in Nat /\ NBlocks \in Nat /\ NBlocks * RATE \in Nat /\ N \in Nat /\ MaxRefills \in Nat
  BY <1>2, SamplerConstants
<1>4. RATE' = RATE /\ NBlocks' = NBlocks
  BY <1>1, SameBuild
<1>5. /\ ctr \in Nat /\ got \in Nat /\ buflen \in Nat /\ pos \in 0..buflen
      /\ triples \in Nat /\ refills \in Nat
  BY <1>2, <1>3 DEF SamplerTypeOK, Capacity
<1>6. pos + 3 <= buflen /\ (refills >= MaxRefills => got' >= got + 1)
  BY SampleGets
<1>7. got' \in Nat
  BY SampleGets DEF SamplerInv, SamplerTypeOK
<1>8. PICK total \in Nat : total = Squeezed * RATE
  <2>1. Squeezed \in Nat
    BY <1>3, <1>5 DEF Squeezed
  <2>2. Squeezed * RATE \in Nat
    BY <1>3, <2>1
  <2> QED
    BY <2>2
<1>9. Squeezed' = Squeezed /\ Squeezed' * RATE' = total
  BY <1>1, <1>4, <1>8 DEF Squeezed
<1>10. /\ StreamAt(xof, Squeezed)
       /\ \A p \in 0..(buflen - 1) : buf[p] = total - buflen + p
       /\ 3 * triples = total - buflen + pos
       /\ pos % 3 = 0
  BY <1>1, <1>8 DEF StreamInv, BufferIsStream
<1>11. BufferIsStream'
  <2>1. StreamAt(xof, Squeezed)'
    BY <1>1, <1>4, <1>9, <1>10 DEF StreamAt
  <2>2. 3 * triples' = total - buflen + pos' /\ pos' % 3 = 0
    BY <1>1, <1>5, <1>10
  <2> QED
    BY <1>1, <1>9, <1>10, <2>1, <2>2 DEF BufferIsStream
<1>12. RefillsBounded'
  <2> SUFFICES ASSUME refills >= MaxRefills
               PROVE  (refills - MaxRefills) * RATE <= 3 * (ctr + got') + (buflen - pos')
    BY <1>1, <1>4 DEF RefillsBounded
  <2>1. (refills - MaxRefills) * RATE <= 3 * (ctr + got) + (buflen - pos)
    BY <1>1 DEF StreamInv, RefillsBounded
  <2>2. (refills - MaxRefills) * RATE \in Int
    BY <1>3, <1>5
  <2> QED
    BY <1>1, <1>5, <1>6, <1>7, <2>1, <2>2
<1>13. TriplesInOrder'
  <2>1. /\ buf[pos] = total - buflen + pos
        /\ buf[pos + 1] = total - buflen + (pos + 1)
        /\ buf[pos + 2] = total - buflen + (pos + 2)
    <3>1. pos \in 0..(buflen - 1) /\ pos + 1 \in 0..(buflen - 1) /\ pos + 2 \in 0..(buflen - 1)
      BY <1>5, <1>6
    <3> QED
      BY <1>10, <3>1
  <2>2. /\ last'[1] = 3 * triples /\ last'[2] = 3 * triples + 1 /\ last'[3] = 3 * triples + 2
        /\ DOMAIN last' = 1..3
    BY <1>1, <1>5, <1>10, <2>1
  <2>3. last' = [b \in 1..3 |-> 3 * (triples' - 1) + b - 1]
    <3>1. last' = [b \in 1..3 |-> last'[b]]
      BY <1>1
    <3>2. \A b \in 1..3 : last'[b] = 3 * (triples' - 1) + b - 1
      BY <1>1, <1>5, <2>2
    <3> QED
      BY <3>1, <3>2
  <2> QED
    BY <2>3 DEF TriplesInOrder
<1> QED
  BY <1>11, <1>12, <1>13 DEF StreamInv

LEMMA ReturnStream ==
    ASSUME SamplerInv, StreamInv, Return
    PROVE  StreamInv'
<1>1. /\ pc = "sample" /\ ctr' = ctr + got /\ got' = 0
      /\ UNCHANGED <<kind, xof, buf, buflen, pos, last, triples, refills>>
  BY DEF Return
<1>2. ctr \in Nat /\ got \in Nat /\ ctr' + got' = ctr + got
  BY <1>1 DEF SamplerInv, SamplerTypeOK
<1>3. RATE' = RATE /\ NBlocks' = NBlocks /\ Squeezed' = Squeezed
  BY <1>1, SameBuild DEF Squeezed
<1>4. StreamAt(xof, Squeezed)' <=> StreamAt(xof, Squeezed)
  BY <1>1, <1>3 DEF StreamAt
<1>5. BufferIsStream'
  BY <1>1, <1>3, <1>4 DEF StreamInv, BufferIsStream
<1>6. RefillsBounded'
  BY <1>1, <1>2, <1>3 DEF StreamInv, RefillsBounded
<1> QED
  BY <1>1, <1>5, <1>6 DEF StreamInv, TriplesInOrder

(* Before a refill the counter still has a value that was not used. *)
LEMMA RefillFits ==
    ASSUME SamplerInv, StreamInv, pc = "refill", CounterSuffices, kind = "aes"
    PROVE  Squeezed < Period
<1>1. /\ kind \in Kinds /\ ctr < N /\ got = 0 /\ pos + 3 > buflen
      /\ ctr \in Nat /\ refills \in Nat /\ buflen \in 0..Capacity /\ pos \in 0..buflen
  BY DEF SamplerInv, SamplerTypeOK, WhenDone
<1>2. /\ RATE \in Nat /\ RATE > 0 /\ NBlocks \in Nat /\ NBlocks * RATE \in Nat
      /\ N \in Nat /\ MaxRefills \in Nat
  BY <1>1, SamplerConstants
<1>3. NBlocks + MaxRefills + 3 * N <= Period
  BY <1>1 DEF CounterSuffices, NBlocks, RATE
<1>4. refills < MaxRefills + 3 * N
  <2>1. CASE refills < MaxRefills
    BY <1>1, <1>2, <2>1
  <2>2. CASE refills >= MaxRefills
    <3>1. (refills - MaxRefills) * RATE <= 3 * (ctr + 0) + (buflen - pos)
      BY <1>1, <2>2 DEF StreamInv, RefillsBounded
    <3>2. refills - MaxRefills <= (refills - MaxRefills) * RATE
      <4>1. PICK n \in Nat : n = refills - MaxRefills
        BY <1>1, <1>2, <2>2
      <4>2. n <= n * RATE
        BY <1>2, Z3
      <4> QED
        BY <4>1, <4>2
    <3>3. (refills - MaxRefills) * RATE \in Int /\ buflen \in Int
      BY <1>1, <1>2 DEF Capacity
    <3> QED
      BY <1>1, <1>2, <3>1, <3>2, <3>3
  <2> QED
    BY <1>1, <1>2, <2>1, <2>2
<1>5. Period \in Nat
  <2>1. DIGITS \in 0..DIGITS
    BY CounterAssumption
  <2> QED
    BY <2>1, PlaceIs DEF Period
<1> QED
  BY <1>1, <1>2, <1>3, <1>4, <1>5 DEF Squeezed

LEMMA RefillStream ==
    ASSUME SamplerInv, StreamInv, Refill, Kinds \subseteq {"shake", "aes"}, CounterSuffices
    PROVE  StreamInv'
<1>1. PICK off, moved, r :
          /\ off = Leftover(buflen)
          /\ moved = [p \in 1..off |-> buf[buflen - off + p - 1]]
          /\ r = xof_squeezeblocks(xof, 1)
          /\ pc = "refill"
          /\ buf' = Write(Write(buf, 0, moved), off, r.out)
          /\ xof' = r.state /\ buflen' = off + RATE
          /\ pos' = 0 /\ refills' = refills + 1
          /\ UNCHANGED <<kind, got, ctr, last, triples>>
  BY DEF Refill
<1>2. SamplerTypeOK /\ kind \in Kinds /\ kind \in {"shake", "aes"} /\ pos + 3 > buflen
  BY <1>1 DEF SamplerInv, SamplerTypeOK, WhenDone
<1>3. /\ RATE \in Nat /\ RATE > 0 /\ NBlocks \in Nat /\ NBlocks * RATE \in Nat
      /\ RATE <= NBlocks * RATE /\ N \in Nat /\ MaxRefills \in Nat
  BY <1>2, SamplerConstants
<1>4. RATE' = RATE /\ NBlocks' = NBlocks
  BY <1>1, SameBuild
<1>5. /\ ctr \in Nat /\ got \in Nat /\ buflen \in 0..Capacity /\ buflen \in Nat /\ pos \in 0..buflen
      /\ triples \in Nat /\ refills \in Nat /\ DOMAIN buf = 0..(Capacity - 1)
  BY <1>2, <1>3 DEF SamplerTypeOK, Capacity
<1>6. PICK total \in Nat : total = Squeezed * RATE
  <2>1. Squeezed \in Nat
    BY <1>3, <1>5 DEF Squeezed
  <2>2. Squeezed * RATE \in Nat
    BY <1>3, <2>1
  <2> QED
    BY <2>2
<1>7. /\ StreamAt(xof, Squeezed)
      /\ \A p \in 0..(buflen - 1) : buf[p] = total - buflen + p
      /\ 3 * triples = total - buflen + pos
      /\ pos % 3 = 0
  BY <1>1, <1>6 DEF StreamInv, BufferIsStream
<1>8. off = buflen - pos /\ off \in 0..2 /\ off <= buflen
  BY <1>1, <1>2, <1>5, <1>7 DEF Leftover
<1>9. Squeezed' = Squeezed + 1 /\ Squeezed' * RATE' = total + RATE
  <2>1. Squeezed' = Squeezed + 1 /\ Squeezed \in Nat
    BY <1>1, <1>3, <1>4, <1>5 DEF Squeezed
  <2>2. (Squeezed + 1) * RATE = Squeezed * RATE + RATE
    BY <1>3, <2>1, Z3
  <2> QED
    BY <1>4, <1>6, <2>1, <2>2
<1>10. /\ r.out = [b \in 1..(1 * RATE) |-> Squeezed * RATE + b - 1]
       /\ StreamAt(r.state, Squeezed + 1)
  <2>1. kind = "aes" => Squeezed < Period
    BY <1>1, RefillFits
  <2>2. Squeezed \in Nat
    BY <1>3, <1>5 DEF Squeezed
  <2> QED
    BY <1>1, <1>2, <1>7, <2>1, <2>2, SqueezeGoesOn
<1>11. StreamAt(xof, Squeezed)'
  BY <1>1, <1>4, <1>9, <1>10 DEF StreamAt
<1>12. \A p \in 0..(buflen' - 1) : buf'[p] = (total + RATE) - buflen' + p
  <2>0. buflen' - 1 = off + RATE - 1
    BY <1>1, <1>3, <1>8
  <2> SUFFICES ASSUME NEW p \in 0..(off + RATE - 1)
               PROVE  buf'[p] = (total + RATE) - buflen' + p
    BY <2>0, Zenon
  <2> DEFINE w == Write(buf, 0, moved)
  <2>1. p \in DOMAIN buf /\ DOMAIN w = DOMAIN buf
    BY <1>3, <1>5, <1>8 DEF Capacity, Write
  <2>2. Len(r.out) = RATE /\ Len(moved) = off
    <3>1. Len(r.out) = 1 * RATE
      BY <1>1, <1>2, SqueezeLength
    <3> QED
      BY <1>1, <1>3, <1>8, <3>1
  <2>3. w[p] = IF 0 <= p /\ p < 0 + off THEN moved[p - 0 + 1] ELSE buf[p]
    BY <1>8, <2>1, <2>2, Written
  <2>4. buf'[p] = IF off <= p /\ p < off + RATE THEN r.out[p - off + 1] ELSE w[p]
    <3>1. off \in Nat
      BY <1>8
    <3> HIDE DEF w
    <3>2. Write(w, off, r.out)[p] =
              IF off <= p /\ p < off + RATE THEN r.out[p - off + 1] ELSE w[p]
      BY <1>3, <2>1, <2>2, <3>1, Written
    <3> USE DEF w
    <3> QED
      BY <1>1, <3>2
  <2> HIDE DEF w
  <2>5. CASE p < off
    <3>1. buf'[p] = moved[p + 1]
      BY <1>3, <1>8, <2>3, <2>4, <2>5
    <3>2. moved[p + 1] = buf[buflen - off + (p + 1) - 1]
      BY <1>1, <1>8, <2>5
    <3>3. buflen - off + (p + 1) - 1 = buflen - off + p /\ buflen - off + p \in 0..(buflen - 1)
      BY <1>5, <1>8, <2>5
    <3>4. buf[buflen - off + p] = total - buflen + (buflen - off + p)
      BY <1>7, <3>3
    <3> QED
      BY <1>1, <1>3, <1>5, <1>8, <3>1, <3>2, <3>3, <3>4
  <2>6. CASE off <= p
    <3>1. buf'[p] = r.out[p - off + 1] /\ p - off + 1 \in 1..(1 * RATE)
      BY <1>3, <1>8, <2>4, <2>6
    <3>2. r.out[p - off + 1] = total + (p - off + 1) - 1
      BY <1>6, <1>10, <3>1
    <3> QED
      BY <1>1, <1>3, <1>8, <3>1, <3>2
  <2> QED
    BY <1>1, <1>3, <1>8, <2>5, <2>6
<1>13. 3 * triples' = (total + RATE) - buflen' + pos' /\ pos' % 3 = 0
  <2>1. triples' = triples /\ pos' = 0 /\ buflen' = off + RATE
    BY <1>1
  <2>2. 3 * triples = total - buflen + pos
    BY <1>7
  <2>3. (total + RATE) - (off + RATE) + 0 = total - buflen + pos /\ 0 % 3 = 0
    BY <1>3, <1>5, <1>8
  <2> QED
    BY <2>1, <2>2, <2>3
<1>14. BufferIsStream'
  BY <1>9, <1>11, <1>12, <1>13 DEF BufferIsStream
<1>15. RefillsBounded'
  <2> SUFFICES ASSUME refills' >= MaxRefills
               PROVE  (refills' - MaxRefills) * RATE <= 3 * (ctr + got) + (buflen' - pos')
    BY <1>1, <1>4 DEF RefillsBounded
  <2>0. refills' = refills + 1
    BY <1>1
  <2>1. CASE refills + 1 = MaxRefills
    <3>1. (refills' - MaxRefills) * RATE = 0
      BY <1>3, <1>5, <2>0, <2>1
    <3> QED
      BY <1>1, <1>3, <1>5, <1>8, <3>1
  <2>2. CASE refills >= MaxRefills
    <3>1. (refills - MaxRefills) * RATE <= 3 * (ctr + got) + (buflen - pos)
      BY <1>1, <2>2 DEF StreamInv, RefillsBounded
    <3>2. (refills' - MaxRefills) * RATE = (refills - MaxRefills) * RATE + RATE
      <4>1. PICK n \in Nat : n = refills - MaxRefills
        BY <1>3, <1>5, <2>2
      <4>2. (n + 1) * RATE = n * RATE + RATE
        BY <1>3, Z3
      <4>3. refills' - MaxRefills = n + 1
        BY <1>3, <1>5, <2>0, <4>1
      <4> QED
        BY <4>1, <4>2, <4>3
    <3>3. (refills - MaxRefills) * RATE \in Int
      BY <1>3, <1>5
    <3> QED
      BY <1>1, <1>3, <1>5, <1>8, <3>1, <3>2, <3>3
  <2> QED
    BY <1>3, <1>5, <2>0, <2>1, <2>2
<1>16. TriplesInOrder'
  BY <1>1 DEF StreamInv, TriplesInOrder
<1> QED
  BY <1>14, <1>15, <1>16 DEF StreamInv

(***************************************************************************)
(* SHAKE128 and AES feed rej_uniform their streams without a gap or a      *)
(* repetition, whatever their block sizes, the size of the polynomials and *)
(* the candidates refused, as long as AES's counter does not wrap within   *)
(* an entry (indcpa.c:196-200).                                            *)
(***************************************************************************)
THEOREM SamplerFollowsStream ==
    Kinds \subseteq {"shake", "aes"} /\ CounterSuffices => (SamplerSpec => []TriplesInOrder)
<1> SUFFICES ASSUME Kinds \subseteq {"shake", "aes"}, CounterSuffices
             PROVE  SamplerSpec => []TriplesInOrder
  OBVIOUS
<1>1. SamplerInit => StreamInv
  BY StreamInitially
<1>2. SamplerInv /\ StreamInv /\ [SamplerNext]_samplerVars => StreamInv'
  <2> SUFFICES ASSUME SamplerInv, StreamInv, [SamplerNext]_samplerVars PROVE StreamInv'
    OBVIOUS
  <2>1. CASE Absorb
    BY <2>1, AbsorbStream
  <2>2. CASE Sample
    BY <2>2, SampleStream
  <2>3. CASE Return
    BY <2>3, ReturnStream
  <2>4. CASE Refill
    BY <2>4, RefillStream
  <2>5. CASE NextEntry
    <3>1. pc' \in {"absorb", "done"} /\ UNCHANGED <<last, triples>>
      BY <2>5 DEF NextEntry
    <3> QED
      BY <3>1 DEF StreamInv, BufferIsStream, RefillsBounded, TriplesInOrder
  <2>6. CASE UNCHANGED samplerVars
    <3>1. RATE' = RATE /\ NBlocks' = NBlocks /\ Squeezed' = Squeezed
      BY <2>6, SameBuild DEF samplerVars, Squeezed
    <3>2. StreamAt(xof, Squeezed)' <=> StreamAt(xof, Squeezed)
      BY <2>6, <3>1 DEF StreamAt, samplerVars
    <3>3. BufferIsStream'
      BY <2>6, <3>1, <3>2 DEF StreamInv, BufferIsStream, samplerVars
    <3>4. RefillsBounded'
      BY <2>6, <3>1 DEF StreamInv, RefillsBounded, samplerVars
    <3> QED
      BY <2>6, <3>3, <3>4 DEF StreamInv, TriplesInOrder, samplerVars
  <2> QED
    BY <2>1, <2>2, <2>3, <2>4, <2>5, <2>6 DEF SamplerNext
<1>3. SamplerSpec => []StreamInv
  BY <1>1, <1>2, SamplerInvariant, PTL DEF SamplerSpec
<1>4. StreamInv => TriplesInOrder
  BY DEF StreamInv
<1> QED
  BY <1>3, <1>4, PTL

-----------------------------------------------------------------------------
(***************************************************************************)
(* CCM.  A byte of the message is hidden by a pad of its own because the   *)
(* counter of no block of the payload comes round to that of the tag, and  *)
(* a MAC determines what was authenticated because its first block holds   *)
(* the nonce and the payload's length, and the next one the length of the  *)
(* associated data, so that everything after them is in a known place.     *)
(***************************************************************************)
LEMMA CcmConstants ==
    /\ AES_BLOCK_SIZE \in Nat /\ AES_BLOCK_SIZE >= 3 /\ NONCE_SIZE \in Nat
    /\ AES_BLOCK_SIZE = NONCE_SIZE + 3
    /\ BASE \in Nat /\ BASE > 1
    /\ MIN_MAC \in Nat /\ MIN_MAC > 0 /\ MAX_MAC \in Nat /\ MAX_MAC <= AES_BLOCK_SIZE
BY CcmAssumption, CounterAssumption DEF AES_BLOCK_SIZE

LEMMA CcmLimits ==
    /\ TC_CCM_PAYLOAD_MAX_BYTES \in Nat
    /\ TC_CCM_AAD_MAX_BYTES \in Int
    /\ UINT \in Nat /\ AES_BLOCK_SIZE < UINT
<1>1. \A b \in Nat : b * b \in Nat
  BY Z3
<1>2. PICK p \in Nat : p = BASE * BASE
  BY <1>1, CcmConstants
<1>3. p * p \in Nat
  BY <1>1
<1>4. BASE * BASE * BASE * BASE = p * p
  BY <1>2, CcmConstants, Z3
<1> QED
  BY <1>2, <1>3, <1>4, CcmConstants, CcmAssumption
     DEF UINT, TC_CCM_PAYLOAD_MAX_BYTES, TC_CCM_AAD_MAX_BYTES

(* Block and place of byte n, from zero. *)
LEMMA BlockAndPlace ==
    ASSUME NEW n \in Nat
    PROVE  \E q \in Nat, r \in 0..(AES_BLOCK_SIZE - 1) :
              n \div AES_BLOCK_SIZE = q /\ (n % AES_BLOCK_SIZE) = r /\ n = AES_BLOCK_SIZE * q + r
BY CcmConstants, QuotientRemainder

LEMMA BlockAndPlaceUnique ==
    ASSUME NEW q \in Nat, NEW r \in 0..(AES_BLOCK_SIZE - 1), NEW n, n = AES_BLOCK_SIZE * q + r
    PROVE  n \div AES_BLOCK_SIZE = q /\ (n % AES_BLOCK_SIZE) = r /\ n \in Nat
<1>1. AES_BLOCK_SIZE > 0 /\ AES_BLOCK_SIZE * q \in Nat
  BY CcmConstants, Z3
<1> QED
  BY <1>1, CcmConstants, QuotientUnique

-----------------------------------------------------------------------------
(***************************************************************************)
(* The folds, each a step from a state s over an element x: a byte of      *)
(* ccm_cbc_mac's data, a byte Ascon absorbs, and one it decrypts.          *)
(***************************************************************************)
FoldStep(op, data, s, x) ==
    CASE op = "mac"     -> MacByte(s, data, x)
      [] op = "absorb"  -> AbsorbByte(s, x)
      [] op = "decrypt" -> DecryptByte(data[1], data[2], s, x)

(* What a fold is defined by, a function on sets of places. *)
Folded(op, data, t, xs, f, n) ==
    f = [x \in SUBSET (1..n) |->
            IF x = {} THEN t ELSE FoldStep(op, data, f[x \ {Max(x)}], xs[Max(x)])]

LEMMA FoldExists ==
    ASSUME NEW op, NEW data, NEW t, NEW xs
    PROVE  \A n \in Nat : \E f : Folded(op, data, t, xs, f, n)
<1> DEFINE S == {n \in Nat : \E f : Folded(op, data, t, xs, f, n)}
<1>1. 0 \in S
  <2>1. Folded(op, data, t, xs, [x \in SUBSET (1..0) |-> t], 0)
    BY DEF Folded
  <2> QED
    BY <2>1
<1>2. ASSUME NEW n \in Nat, n \in S PROVE n + 1 \in S
  <2>1. PICK f : Folded(op, data, t, xs, f, n)
    BY <1>2
  <2> DEFINE g == [x \in SUBSET (1..(n + 1)) |->
                    IF n + 1 \in x THEN FoldStep(op, data, f[x \ {n + 1}], xs[n + 1]) ELSE f[x]]
  <2>2. \A x \in SUBSET (1..(n + 1)) : n + 1 \notin x => x \in SUBSET (1..n)
    OBVIOUS
  <2>3. ASSUME NEW x \in SUBSET (1..(n + 1))
        PROVE  g[x] = IF x = {} THEN t ELSE FoldStep(op, data, g[x \ {Max(x)}], xs[Max(x)])
    <3>1. CASE n + 1 \in x
      <4>1. Max(x) = n + 1 /\ x # {}
        BY <3>1, LargestLast
      <4>2. x \ {n + 1} \in SUBSET (1..n) /\ n + 1 \notin x \ {n + 1}
        BY <2>2
      <4>3. g[x \ {n + 1}] = f[x \ {n + 1}]
        BY <4>2
      <4> QED
        BY <3>1, <4>1, <4>3
    <3>2. CASE n + 1 \notin x
      <4>1. x \in SUBSET (1..n) /\ x \ {Max(x)} \in SUBSET (1..(n + 1))
        BY <2>2, <3>2
      <4>2. f[x] = IF x = {} THEN t ELSE FoldStep(op, data, f[x \ {Max(x)}], xs[Max(x)])
        BY <2>1, <4>1 DEF Folded
      <4>3. g[x \ {Max(x)}] = f[x \ {Max(x)}]
        BY <3>2, <4>1
      <4> QED
        BY <3>2, <4>2, <4>3
    <3> QED
      BY <3>1, <3>2
  <2>4. Folded(op, data, t, xs, g, n + 1)
    BY <2>3 DEF Folded
  <2> QED
    BY <2>4
<1> HIDE DEF S
<1>3. Nat \subseteq S
  BY <1>1, <1>2, SetInduction
<1> QED
  BY <1>3 DEF S

(* A fold goes through the elements of its sequence in order. *)
Runs(op, data, t, xs, u, n) ==
    /\ u[0] = t
    /\ \A k \in 0..(n - 1) : u[k + 1] = FoldStep(op, data, u[k], xs[k + 1])

LEMMA FoldRuns ==
    ASSUME NEW op, NEW data, NEW t, NEW xs, NEW n \in Nat, NEW f, Folded(op, data, t, xs, f, n)
    PROVE  \E u : Runs(op, data, t, xs, u, n) /\ u[n] = f[1..n]
<1> DEFINE u == [k \in 0..n |-> f[1..k]]
<1>1. \A x \in SUBSET (1..n) :
          f[x] = IF x = {} THEN t ELSE FoldStep(op, data, f[x \ {Max(x)}], xs[Max(x)])
  BY DEF Folded
<1>2. u[0] = t
  <2>1. 1..0 = {} /\ 1..0 \in SUBSET (1..n)
    OBVIOUS
  <2>2. f[{}] = t
    BY <1>1
  <2>3. u[0] = f[1..0]
    OBVIOUS
  <2> QED
    BY <2>1, <2>2, <2>3
<1>3. ASSUME NEW k \in 0..(n - 1) PROVE u[k + 1] = FoldStep(op, data, u[k], xs[k + 1])
  <2>1. 1..(k + 1) \in SUBSET (1..n) /\ k + 1 \in 1..(k + 1) /\ k + 1 \in 0..n /\ k \in 0..n
    OBVIOUS
  <2>2. Max(1..(k + 1)) = k + 1
    <3>1. k \in Nat /\ 1..(k + 1) \in SUBSET (1..(k + 1))
      OBVIOUS
    <3> QED
      BY <2>1, <3>1, LargestLast
  <2>3. (1..(k + 1)) \ {k + 1} = 1..k
    OBVIOUS
  <2>4. f[1..(k + 1)] = FoldStep(op, data, f[(1..(k + 1)) \ {k + 1}], xs[k + 1])
    BY <1>1, <2>1, <2>2
  <2> QED
    BY <2>1, <2>3, <2>4
<1>4. u[n] = f[1..n]
  OBVIOUS
<1> HIDE DEF u
<1> QED
  BY <1>2, <1>3, <1>4 DEF Runs

(* The bytes that are authenticated. *)
WithLength(data) == <<Len(data) \div BASE, Len(data) % BASE>> \o data

(* A run of ccm_cbc_mac over n bytes. *)
MacRun(u, t, bytes, n) ==
    /\ u[0] = t
    /\ \A k \in 0..(n - 1) : u[k + 1] = MacByte(u[k], bytes, k + 1)

CbcRun(t, data, flag, bytes, n, u) ==
    /\ bytes \in Seq(Nat) /\ n \in Nat /\ n = Len(bytes)
    /\ bytes = IF flag THEN WithLength(data) ELSE data
    /\ MacRun(u, t, bytes, n) /\ ccm_cbc_mac(t, data, flag) = u[n]

LEMMA MacRuns ==
    ASSUME NEW t, NEW data, NEW flag \in BOOLEAN, NEW bytes \in Seq(Nat),
           bytes = IF flag THEN WithLength(data) ELSE data,
           NEW n \in Nat, n = Len(bytes)
    PROVE  \E u : CbcRun(t, data, flag, bytes, n, u)
<1> DEFINE xs == [i \in 1..n |-> i]
           Chain(g) == g = [x \in SUBSET (1..n) |->
                             IF x = {} THEN t ELSE MacByte(g[x \ {Max(x)}], bytes, xs[Max(x)])]
           f == CHOOSE g : Chain(g)
<1>1. PICK g : Folded("mac", bytes, t, xs, g, n)
  BY FoldExists
<1>2. Chain(g)
  BY <1>1 DEF Folded, FoldStep
<1>3. Chain(f)
  BY <1>2
<1>4. ccm_cbc_mac(t, data, flag) = f[1..n]
  BY DEF ccm_cbc_mac, WithLength, FoldLeft, MapThenFoldSet
<1>5. Folded("mac", bytes, t, xs, f, n)
  BY <1>3 DEF Folded, FoldStep
<1>6. \A k \in 0..(n - 1) : xs[k + 1] = k + 1
  OBVIOUS
<1> HIDE DEF f, xs
<1>7. PICK u : Runs("mac", bytes, t, xs, u, n) /\ u[n] = f[1..n]
  BY <1>5, FoldRuns
<1>8. CbcRun(t, data, flag, bytes, n, u)
  BY <1>4, <1>6, <1>7 DEF CbcRun, MacRun, Runs, FoldStep
<1> QED
  BY <1>8

-----------------------------------------------------------------------------
(* What is XORed into T, and the states of a MAC whose next byte goes to place r. *)
Cells  == Nat \cup {<<"mac", b, m>> : b \in BOOLEAN, m \in Nat}
MacBlocks == [0..(AES_BLOCK_SIZE - 1) -> Cells]

MacState(T, r) ==
    /\ T = [chain |-> T.chain, in |-> T.in]
    /\ T.chain \in Seq(MacBlocks)
    /\ T.in \in MacBlocks
    /\ \A q \in 0..(AES_BLOCK_SIZE - 1) : q >= r => T.in[q] = 0

LEMMA EmptyBlock ==
    /\ Empty \in MacBlocks
    /\ \A q \in 0..(AES_BLOCK_SIZE - 1) : Empty[q] = 0
    /\ \A T : MacState(T, 0) => T.in = Empty
BY CcmConstants DEF Empty, MacBlocks, Cells, MacState

LEMMA SameFunction ==
    ASSUME NEW D, NEW R, NEW f \in [D -> R], NEW g \in [D -> R], \A d \in D : f[d] = g[d]
    PROVE  f = g
OBVIOUS

LEMMA LastUndone ==
    ASSUME NEW c \in Seq(MacBlocks), NEW d \in Seq(MacBlocks),
           NEW x \in MacBlocks, NEW y \in MacBlocks,
           Append(c, x) = Append(d, y)
    PROVE  c = d /\ x = y
OBVIOUS

Ends(i, n) == i % AES_BLOCK_SIZE = 0 \/ i = n

(* What a step leaves when it ends a block and when it does not. *)
Result(i, n, c, x) ==
    IF Ends(i, n) THEN [chain |-> Append(c, x), in |-> Empty] ELSE [chain |-> c, in |-> x]

SameResult(i, n, c, d, x, y) ==
    /\ c \in Seq(MacBlocks) /\ d \in Seq(MacBlocks) /\ x \in MacBlocks /\ y \in MacBlocks
    /\ Result(i, n, c, x) = Result(i, n, d, y)

LEMMA ResultUndone ==
    ASSUME NEW i, NEW n, NEW c, NEW d, NEW x, NEW y, SameResult(i, n, c, d, x, y)
    PROVE  c = d /\ x = y
<1>1. c \in Seq(MacBlocks) /\ d \in Seq(MacBlocks) /\ x \in MacBlocks /\ y \in MacBlocks
  BY DEF SameResult
<1>2. CASE Ends(i, n)
  <2>1. Append(c, x) = Append(d, y)
    BY <1>2 DEF Result, SameResult
  <2> QED
    BY <1>1, <2>1, LastUndone
<1>3. CASE ~Ends(i, n)
  BY <1>3 DEF Result, SameResult
<1> QED
  BY <1>2, <1>3

LEMMA SameBlock ==
    ASSUME NEW x \in MacBlocks, NEW y \in MacBlocks, \A q \in 0..(AES_BLOCK_SIZE - 1) : x[q] = y[q]
    PROVE  x = y
<1>1. PICK D : D = 0..(AES_BLOCK_SIZE - 1)
  OBVIOUS
<1>2. x \in [D -> Cells] /\ y \in [D -> Cells]
  BY <1>1 DEF MacBlocks
<1>3. \A d \in D : x[d] = y[d]
  BY <1>1
<1> QED
  BY <1>2, <1>3, SameFunction

LEMMA RecordState ==
    ASSUME NEW c \in Seq(MacBlocks), NEW x \in MacBlocks, NEW r,
           \A q \in 0..(AES_BLOCK_SIZE - 1) : q >= r => x[q] = 0
    PROVE  MacState([chain |-> c, in |-> x], r)
BY DEF MacState

LEMMA NextPlace ==
    ASSUME NEW k \in Nat, NEW r, r = k % AES_BLOCK_SIZE
    PROVE  /\ r \in 0..(AES_BLOCK_SIZE - 1)
           /\ r + 1 < AES_BLOCK_SIZE => ((k + 1) % AES_BLOCK_SIZE) = r + 1
           /\ r + 1 >= AES_BLOCK_SIZE => ((k + 1) % AES_BLOCK_SIZE) = 0
<1>1. PICK q \in Nat : r \in 0..(AES_BLOCK_SIZE - 1) /\ k = AES_BLOCK_SIZE * q + r
  BY BlockAndPlace
<1>2. ASSUME r + 1 < AES_BLOCK_SIZE PROVE ((k + 1) % AES_BLOCK_SIZE) = r + 1
  <2>1. r + 1 \in 0..(AES_BLOCK_SIZE - 1)
    BY <1>1, <1>2, CcmConstants
  <2>2. AES_BLOCK_SIZE * q \in Int
    BY CcmConstants, Z3
  <2>3. k + 1 = AES_BLOCK_SIZE * q + (r + 1)
    BY <1>1, <2>2
  <2> QED
    BY <2>1, <2>3, BlockAndPlaceUnique
<1>3. ASSUME r + 1 >= AES_BLOCK_SIZE PROVE ((k + 1) % AES_BLOCK_SIZE) = 0
  <2>1. r + 1 = AES_BLOCK_SIZE
    BY <1>1, <1>3, CcmConstants
  <2>2. AES_BLOCK_SIZE * (q + 1) = AES_BLOCK_SIZE * q + AES_BLOCK_SIZE /\ AES_BLOCK_SIZE * q \in Int
    BY CcmConstants, Z3
  <2>3. k + 1 = AES_BLOCK_SIZE * (q + 1) + 0 /\ q + 1 \in Nat /\ 0 \in 0..(AES_BLOCK_SIZE - 1)
    BY <1>1, <2>1, <2>2, CcmConstants
  <2> QED
    BY <2>3, BlockAndPlaceUnique
<1> QED
  BY <1>1, <1>2, <1>3

(* A step of ccm_cbc_mac, and the block it makes. *)
Made(T, r, v) == [T.in EXCEPT ![r] = v]

LEMMA MadeIsBlock ==
    ASSUME NEW T, NEW r \in 0..(AES_BLOCK_SIZE - 1), NEW v \in Nat, MacState(T, r)
    PROVE  /\ Made(T, r, v) \in MacBlocks
           /\ Made(T, r, v)[r] = v
           /\ \A q \in 0..(AES_BLOCK_SIZE - 1) : q # r => Made(T, r, v)[q] = T.in[q]
<1>1. T.in \in MacBlocks /\ v \in Cells
  BY DEF MacState, Cells
<1> QED
  BY <1>1 DEF Made, MacBlocks

LEMMA MacStep ==
    ASSUME NEW T, NEW bytes, NEW k \in Nat, NEW r, r = k % AES_BLOCK_SIZE,
           MacState(T, r)
    PROVE  MacByte(T, bytes, k + 1) =
              IF Ends(k + 1, Len(bytes))
              THEN [chain |-> Append(T.chain, Made(T, r, bytes[k + 1])), in |-> Empty]
              ELSE [chain |-> T.chain, in |-> Made(T, r, bytes[k + 1])]
<1>1. XorAt(T, r, bytes[k + 1]) = [chain |-> T.chain, in |-> Made(T, r, bytes[k + 1])]
  <2>1. PICK c, x : c = T.chain /\ x = T.in /\ T = [chain |-> c, in |-> x]
    BY DEF MacState
  <2> QED
    BY <2>1 DEF XorAt, Made
<1>2. (k + 1) - 1 = k
  OBVIOUS
<1> QED
  BY <1>1, <1>2 DEF MacByte, Encrypted, Ends

LEMMA MacStepState ==
    ASSUME NEW T, NEW bytes \in Seq(Nat), NEW k \in Nat, NEW n \in Nat, n = Len(bytes), k < n,
           MacState(T, k % AES_BLOCK_SIZE)
    PROVE  MacState(MacByte(T, bytes, k + 1),
                    IF k + 1 = n THEN 0 ELSE (k + 1) % AES_BLOCK_SIZE)
<1>1. PICK r : r = k % AES_BLOCK_SIZE
  OBVIOUS
<1>2. r \in 0..(AES_BLOCK_SIZE - 1) /\ bytes[k + 1] \in Nat /\ MacState(T, r)
  <2>1. k + 1 \in 1..Len(bytes)
    OBVIOUS
  <2>2. bytes[k + 1] \in Nat
    BY <2>1, ElementOfSeq
  <2> QED
    BY <1>1, <2>2, NextPlace
<1>3. PICK x : x = Made(T, r, bytes[k + 1])
  OBVIOUS
<1>4. /\ x \in MacBlocks
      /\ \A q \in 0..(AES_BLOCK_SIZE - 1) : q # r => x[q] = T.in[q]
  BY <1>1, <1>2, <1>3, MadeIsBlock
<1>5. T.chain \in Seq(MacBlocks) /\ \A q \in 0..(AES_BLOCK_SIZE - 1) : q >= r => T.in[q] = 0
  BY <1>1 DEF MacState
<1>6. CASE Ends(k + 1, n)
  <2>1. MacByte(T, bytes, k + 1) = [chain |-> Append(T.chain, x), in |-> Empty]
    BY <1>1, <1>3, <1>6, MacStep
  <2>2. Append(T.chain, x) \in Seq(MacBlocks)
    BY <1>4, <1>5
  <2>3. MacState([chain |-> Append(T.chain, x), in |-> Empty], 0)
    BY <2>2, EmptyBlock, RecordState
  <2>4. (IF k + 1 = n THEN 0 ELSE (k + 1) % AES_BLOCK_SIZE) = 0
    BY <1>6 DEF Ends
  <2> QED
    BY <2>1, <2>3, <2>4
<1>7. CASE ~Ends(k + 1, n)
  <2>1. MacByte(T, bytes, k + 1) = [chain |-> T.chain, in |-> x]
    BY <1>1, <1>3, <1>7, MacStep
  <2>2. k + 1 # n /\ ((k + 1) % AES_BLOCK_SIZE) = r + 1
    <3>1. PICK z : z = (k + 1) % AES_BLOCK_SIZE
      OBVIOUS
    <3>2. k + 1 # n /\ z # 0
      BY <1>7, <3>1 DEF Ends
    <3>3. r + 1 < AES_BLOCK_SIZE \/ r + 1 >= AES_BLOCK_SIZE
      BY <1>2, CcmConstants
    <3>4. r + 1 < AES_BLOCK_SIZE => z = r + 1
      BY <1>1, <3>1, NextPlace, Zenon
    <3>5. r + 1 >= AES_BLOCK_SIZE => z = 0
      BY <1>1, <3>1, NextPlace, Zenon
    <3> QED
      BY <3>1, <3>2, <3>3, <3>4, <3>5
  <2>3. \A q \in 0..(AES_BLOCK_SIZE - 1) : q >= r + 1 => x[q] = 0
    BY <1>2, <1>4, <1>5
  <2>4. MacState([chain |-> T.chain, in |-> x], r + 1)
    BY <1>4, <1>5, <2>3, RecordState
  <2> QED
    BY <2>1, <2>2, <2>4
<1> QED
  BY <1>6, <1>7

(* The step can be undone: two runs at the same place that meet came from the same state. *)
Meet(T, U, bs, cs, k, n) ==
    /\ bs \in Seq(Nat) /\ cs \in Seq(Nat) /\ k \in Nat /\ n \in Nat
    /\ n = Len(bs) /\ n = Len(cs) /\ k < n
    /\ MacState(T, k % AES_BLOCK_SIZE) /\ MacState(U, k % AES_BLOCK_SIZE)
    /\ MacByte(T, bs, k + 1) = MacByte(U, cs, k + 1)

LEMMA MacStepUndone ==
    ASSUME NEW T, NEW U, NEW bs, NEW cs, NEW k, NEW n, Meet(T, U, bs, cs, k, n)
    PROVE  T = U /\ bs[k + 1] = cs[k + 1]
<1>1. PICK r : r = k % AES_BLOCK_SIZE
  OBVIOUS
<1>2. /\ bs \in Seq(Nat) /\ cs \in Seq(Nat) /\ k \in Nat /\ n \in Nat
      /\ n = Len(bs) /\ n = Len(cs) /\ k < n
      /\ MacState(T, r) /\ MacState(U, r)
      /\ MacByte(T, bs, k + 1) = MacByte(U, cs, k + 1)
  BY <1>1 DEF Meet
<1>3. /\ r \in 0..(AES_BLOCK_SIZE - 1) /\ bs[k + 1] \in Nat /\ cs[k + 1] \in Nat
      /\ MacState(T, r) /\ MacState(U, r)
  <2>1. k + 1 \in 1..Len(bs) /\ k + 1 \in 1..Len(cs)
    BY <1>2
  <2>2. bs[k + 1] \in Nat /\ cs[k + 1] \in Nat
    BY <1>2, <2>1, ElementOfSeq
  <2> QED
    BY <1>1, <1>2, <2>2, NextPlace
<1>4. PICK x, y : x = Made(T, r, bs[k + 1]) /\ y = Made(U, r, cs[k + 1])
  OBVIOUS
<1>5. /\ x \in MacBlocks /\ x[r] = bs[k + 1]
      /\ \A q \in 0..(AES_BLOCK_SIZE - 1) : q # r => x[q] = T.in[q]
  BY <1>3, <1>4, MadeIsBlock
<1>6. /\ y \in MacBlocks /\ y[r] = cs[k + 1]
      /\ \A q \in 0..(AES_BLOCK_SIZE - 1) : q # r => y[q] = U.in[q]
  BY <1>3, <1>4, MadeIsBlock
<1>7. T.chain = U.chain /\ x = y
  <2>1. PICK c \in Seq(MacBlocks), d \in Seq(MacBlocks) : c = T.chain /\ d = U.chain
    BY <1>2 DEF MacState
  <2>2. MacByte(T, bs, k + 1) = Result(k + 1, n, c, x)
    BY <1>1, <1>4, <1>2, <2>1, MacStep DEF Result
  <2>3. MacByte(U, cs, k + 1) = Result(k + 1, n, d, y)
    BY <1>1, <1>4, <1>2, <2>1, MacStep DEF Result
  <2>4. SameResult(k + 1, n, c, d, x, y)
    BY <1>5, <1>6, <1>2, <2>2, <2>3 DEF SameResult
  <2>5. c = d /\ x = y
    BY <2>4, ResultUndone, Zenon
  <2> QED
    BY <2>1, <2>5
<1>8. T.in = U.in
  <2>1. T.in \in MacBlocks /\ U.in \in MacBlocks /\ T.in[r] = 0 /\ U.in[r] = 0
    BY <1>1, <1>3, <1>2 DEF MacState
  <2>2. \A q \in 0..(AES_BLOCK_SIZE - 1) : T.in[q] = U.in[q]
    BY <1>5, <1>7, <1>6, <2>1
  <2> QED
    BY <2>1, <2>2, SameBlock
<1>9. T = U
  <2>1. T = [chain |-> T.chain, in |-> T.in] /\ U = [chain |-> U.chain, in |-> U.in]
    BY <1>2 DEF MacState
  <2> QED
    BY <1>7, <1>8, <2>1
<1> QED
  BY <1>5, <1>7, <1>9, <1>6

-----------------------------------------------------------------------------
PlaceAfter(k, n) == IF k = n THEN 0 ELSE k % AES_BLOCK_SIZE

LEMMA MacRunStates ==
    ASSUME NEW u, NEW t, NEW bytes \in Seq(Nat), NEW n \in Nat, n = Len(bytes),
           MacState(t, 0), MacRun(u, t, bytes, n)
    PROVE  \A k \in 0..n : MacState(u[k], PlaceAfter(k, n))
<1> DEFINE S == {k \in Nat : k \in 0..n => MacState(u[k], PlaceAfter(k, n))}
<1>1. 0 \in S
  <2>1. 0 % AES_BLOCK_SIZE = 0
    BY CcmConstants
  <2>2. PlaceAfter(0, n) = 0
    BY <2>1 DEF PlaceAfter
  <2> QED
    BY <2>2 DEF MacRun
<1>2. ASSUME NEW k \in Nat, k \in S PROVE k + 1 \in S
  <2> SUFFICES ASSUME k + 1 \in 0..n PROVE MacState(u[k + 1], PlaceAfter(k + 1, n))
    OBVIOUS
  <2>1. k \in 0..(n - 1) /\ k < n /\ k # n /\ k \in 0..n
    OBVIOUS
  <2>2. MacState(u[k], k % AES_BLOCK_SIZE)
    BY <1>2, <2>1 DEF PlaceAfter
  <2>3. u[k + 1] = MacByte(u[k], bytes, k + 1)
    BY <2>1 DEF MacRun
  <2>4. MacState(MacByte(u[k], bytes, k + 1), PlaceAfter(k + 1, n))
    BY <2>1, <2>2, MacStepState DEF PlaceAfter
  <2> QED
    BY <2>3, <2>4
<1> HIDE DEF S
<1>3. Nat \subseteq S
  BY <1>1, <1>2, SetInduction
<1> QED
  BY <1>3 DEF S

(* Two runs over as many bytes that end in the same state are the same run. *)
LEMMA MacRunUndone ==
    ASSUME NEW u, NEW t, NEW bs \in Seq(Nat), NEW v, NEW w, NEW cs \in Seq(Nat),
           NEW n \in Nat, n = Len(bs), n = Len(cs),
           MacState(t, 0), MacState(w, 0), MacRun(u, t, bs, n), MacRun(v, w, cs, n),
           u[n] = v[n]
    PROVE  t = w /\ bs = cs
<1> DEFINE S == {j \in Nat : j \in 0..n => /\ u[n - j] = v[n - j]
                                          /\ \A i \in (n - j + 1)..n : bs[i] = cs[i]}
<1>1. 0 \in S
  OBVIOUS
<1>2. ASSUME NEW j \in Nat, j \in S PROVE j + 1 \in S
  <2> SUFFICES ASSUME j + 1 \in 0..n
               PROVE  /\ u[n - (j + 1)] = v[n - (j + 1)]
                      /\ \A i \in (n - (j + 1) + 1)..n : bs[i] = cs[i]
    OBVIOUS
  <2>1. PICK k \in Nat : k = n - (j + 1) /\ k + 1 = n - j /\ k < n /\ k \in 0..(n - 1) /\ k \in 0..n
                         /\ k # n
    <3>1. n - (j + 1) \in Nat /\ n - (j + 1) + 1 = n - j /\ n - (j + 1) < n
          /\ n - (j + 1) \in 0..(n - 1) /\ n - (j + 1) \in 0..n /\ n - (j + 1) # n
      OBVIOUS
    <3> QED
      BY <3>1
  <2>2. u[k + 1] = v[k + 1] /\ \A i \in (k + 2)..n : bs[i] = cs[i]
    <3>1. j \in 0..n /\ n - j + 1 = k + 2
      BY <2>1
    <3> QED
      BY <1>2, <2>1, <3>1
  <2>3. MacState(u[k], k % AES_BLOCK_SIZE) /\ MacState(v[k], k % AES_BLOCK_SIZE)
    <3>1. MacState(u[k], PlaceAfter(k, n))
      BY <2>1, MacRunStates
    <3>2. MacState(v[k], PlaceAfter(k, n))
      BY <2>1, MacRunStates
    <3> QED
      BY <2>1, <3>1, <3>2 DEF PlaceAfter
  <2>4. MacByte(u[k], bs, k + 1) = MacByte(v[k], cs, k + 1)
    BY <2>1, <2>2 DEF MacRun
  <2>5. u[k] = v[k] /\ bs[k + 1] = cs[k + 1]
    <3>1. Meet(u[k], v[k], bs, cs, k, n)
      BY <2>1, <2>3, <2>4 DEF Meet
    <3> HIDE DEF S
    <3>2. PICK T, U : T = u[k] /\ U = v[k]
      OBVIOUS
    <3>3. Meet(T, U, bs, cs, k, n)
      BY <3>1, <3>2
    <3>4. T = U /\ bs[k + 1] = cs[k + 1]
      BY <3>3, MacStepUndone
    <3> QED
      BY <3>2, <3>4
  <2>6. \A i \in (k + 1)..n : i = k + 1 \/ i \in (k + 2)..n
    BY <2>1
  <2>7. \A i \in (k + 1)..n : bs[i] = cs[i]
    BY <2>2, <2>5, <2>6
  <2> QED
    BY <2>1, <2>5, <2>7
<1> HIDE DEF S
<1>3. n \in S
  BY <1>1, <1>2, SetInduction
<1>4. u[0] = v[0] /\ \A i \in 1..n : bs[i] = cs[i]
  <2>1. n - n = 0 /\ n - n + 1 = 1 /\ n \in 0..n
    OBVIOUS
  <2>2. u[n - n] = v[n - n] /\ \A i \in (n - n + 1)..n : bs[i] = cs[i]
    BY <1>3, <2>1 DEF S
  <2> QED
    BY <2>1, <2>2
<1>5. bs = cs
  BY <1>4, SeqEqual
<1> QED
  BY <1>4, <1>5 DEF MacRun

(* MacBlocks that were made stay. *)
Keeps(u, n, l, block) ==
    \A k \in 0..n : l \in 1..Len(u[k].chain) /\ u[k].chain[l] = block

LEMMA MacRunKeeps ==
    ASSUME NEW u, NEW t, NEW bytes \in Seq(Nat), NEW n \in Nat, n = Len(bytes),
           MacState(t, 0), MacRun(u, t, bytes, n),
           NEW l \in 1..Len(t.chain)
    PROVE  Keeps(u, n, l, t.chain[l])
<1> DEFINE S == {k \in Nat : k \in 0..n => l \in 1..Len(u[k].chain) /\ u[k].chain[l] = t.chain[l]}
<1>1. 0 \in S
  BY DEF MacRun
<1>2. ASSUME NEW k \in Nat, k \in S PROVE k + 1 \in S
  <2> SUFFICES ASSUME k + 1 \in 0..n
               PROVE  l \in 1..Len(u[k + 1].chain) /\ u[k + 1].chain[l] = t.chain[l]
    OBVIOUS
  <2>1. k \in 0..(n - 1) /\ k < n /\ k # n /\ k \in 0..n
    OBVIOUS
  <2>2. l \in 1..Len(u[k].chain) /\ u[k].chain[l] = t.chain[l]
    BY <1>2, <2>1
  <2>3. u[k + 1] = MacByte(u[k], bytes, k + 1)
    BY <2>1 DEF MacRun
  <2>4. PICK r : r = k % AES_BLOCK_SIZE
    OBVIOUS
  <2>5. MacState(u[k], r)
    BY <2>1, <2>4, MacRunStates DEF PlaceAfter
  <2>6. bytes[k + 1] \in Nat
    BY <2>1, ElementOfSeq
  <2>7. PICK x \in MacBlocks : x = Made(u[k], r, bytes[k + 1])
    BY <2>4, <2>5, <2>6, NextPlace, MadeIsBlock
  <2>8. PICK c \in Seq(MacBlocks) : c = u[k].chain
    BY <2>5 DEF MacState
  <2>9. u[k + 1].chain = Append(c, x) \/ u[k + 1].chain = c
    <3>1. MacByte(u[k], bytes, k + 1) = IF Ends(k + 1, n) THEN [chain |-> Append(c, x), in |-> Empty]
                                        ELSE [chain |-> c, in |-> x]
      BY <2>4, <2>5, <2>7, <2>8, MacStep
    <3> QED
      BY <2>3, <3>1
  <2>10. l \in 1..Len(c) /\ c[l] = t.chain[l]
    BY <2>2, <2>8
  <2>11. l \in 1..Len(Append(c, x)) /\ Append(c, x)[l] = c[l]
    BY <2>10, AppendProperties
  <2> QED
    BY <2>9, <2>10, <2>11
<1> HIDE DEF S
<1>3. Nat \subseteq S
  BY <1>1, <1>2, SetInduction
<1> QED
  BY <1>3 DEF S, Keeps

(* The first two bytes are at the start of the first block that is made. *)
Begun(T, k, bytes, l, n) ==
    IF k < AES_BLOCK_SIZE /\ k # n
    THEN Len(T.chain) = l /\ T.in[0] = bytes[1] /\ T.in[1] = bytes[2]
    ELSE Len(T.chain) > l /\ T.chain[l + 1][0] = bytes[1] /\ T.chain[l + 1][1] = bytes[2]

(* The step from state T to state U, which makes block x or goes on with it. *)
StepOf(T, U, bytes, k, r, c, x) ==
    /\ r = k % AES_BLOCK_SIZE
    /\ c = T.chain
    /\ x[r] = bytes[k + 1]
    /\ \A q \in 0..(AES_BLOCK_SIZE - 1) : q # r => x[q] = T.in[q]
    /\ U = IF Ends(k + 1, Len(bytes)) THEN [chain |-> Append(c, x), in |-> Empty]
           ELSE [chain |-> c, in |-> x]

LEMMA MacRunStep ==
    ASSUME NEW u, NEW t, NEW bytes \in Seq(Nat), NEW n \in Nat, n = Len(bytes),
           MacState(t, 0), MacRun(u, t, bytes, n), NEW k \in 0..(n - 1)
    PROVE  \E r \in 0..(AES_BLOCK_SIZE - 1), c \in Seq(MacBlocks), x \in MacBlocks :
              StepOf(u[k], u[k + 1], bytes, k, r, c, x)
<1>1. k \in Nat /\ k < n /\ k # n /\ k \in 0..n
  OBVIOUS
<1>2. PICK r, T, v : r = k % AES_BLOCK_SIZE /\ T = u[k] /\ v = bytes[k + 1]
  OBVIOUS
<1>3. MacState(T, r)
  BY <1>1, <1>2, MacRunStates DEF PlaceAfter
<1>4. v \in Nat
  BY <1>1, <1>2, ElementOfSeq
<1>5. PICK x : x = Made(T, r, v)
  OBVIOUS
<1>6. r \in 0..(AES_BLOCK_SIZE - 1)
  BY <1>1, <1>2, NextPlace
<1>7. x \in MacBlocks /\ x[r] = v /\ \A q \in 0..(AES_BLOCK_SIZE - 1) : q # r => x[q] = T.in[q]
  BY <1>3, <1>4, <1>5, <1>6, MadeIsBlock
<1>8. PICK c \in Seq(MacBlocks) : c = T.chain
  BY <1>3 DEF MacState
<1>9. MacByte(T, bytes, k + 1) = IF Ends(k + 1, Len(bytes))
                                 THEN [chain |-> Append(c, x), in |-> Empty]
                                 ELSE [chain |-> c, in |-> x]
  BY <1>1, <1>2, <1>3, <1>5, <1>8, MacStep
<1>10. u[k + 1] = MacByte(T, bytes, k + 1)
  BY <1>2 DEF MacRun
<1>11. StepOf(T, u[k + 1], bytes, k, r, c, x)
  BY <1>2, <1>7, <1>8, <1>9, <1>10 DEF StepOf
<1> QED
  BY <1>2, <1>6, <1>7, <1>8, <1>11

LEMMA MacRunBegins ==
    ASSUME NEW u, NEW t, NEW bytes \in Seq(Nat), NEW n \in Nat, n = Len(bytes), n > 2,
           MacState(t, 0), MacRun(u, t, bytes, n), NEW l \in Nat, l = Len(t.chain)
    PROVE  \A k \in 2..n : Begun(u[k], k, bytes, l, n)
<1>1. 1 # n /\ 2 # n
  <2>1. \A j \in Nat : j > 2 => 1 # j /\ 2 # j
    OBVIOUS
  <2> QED
    BY <2>1
<1>2. AES_BLOCK_SIZE \in Nat /\ AES_BLOCK_SIZE >= 3
  BY CcmConstants
<1>3. ASSUME NEW k \in 0..(AES_BLOCK_SIZE - 1)
      PROVE  (k % AES_BLOCK_SIZE) = k
  <2>1. k = AES_BLOCK_SIZE * 0 + k /\ 0 \in Nat
    BY <1>2
  <2> QED
    BY <2>1, BlockAndPlaceUnique
<1>4. Len(u[1].chain) = l /\ u[1].in[0] = bytes[1]
  <2>1. 0 \in 0..(n - 1) /\ 0 + 1 = 1
    OBVIOUS
  <2>2. PICK r \in 0..(AES_BLOCK_SIZE - 1), c \in Seq(MacBlocks), x \in MacBlocks :
           StepOf(u[0], u[1], bytes, 0, r, c, x)
    BY <2>1, MacRunStep
  <2>3. (0 % AES_BLOCK_SIZE) = 0 /\ (1 % AES_BLOCK_SIZE) = 1 /\ 1 # n
    <3>1. 0 \in 0..(AES_BLOCK_SIZE - 1) /\ 1 \in 0..(AES_BLOCK_SIZE - 1)
      BY <1>2
    <3>2. 1 # n
      BY <1>1
    <3> QED
      BY <3>1, <3>2, <1>3, Zenon
  <2>4. ~Ends(1, Len(bytes))
    BY <2>3 DEF Ends
  <2>5. u[1] = [chain |-> c, in |-> x] /\ x[0] = bytes[1] /\ c = u[0].chain
    BY <2>1, <2>2, <2>3, <2>4 DEF StepOf
  <2> QED
    BY <2>5 DEF MacRun
<1> DEFINE S == {k \in Nat : k + 2 \in 2..n => Begun(u[k + 2], k + 2, bytes, l, n)}
<1>5. 0 \in S
  <2>1. 1 \in 0..(n - 1) /\ 1 + 1 = 2
    OBVIOUS
  <2>2. PICK r \in 0..(AES_BLOCK_SIZE - 1), c \in Seq(MacBlocks), x \in MacBlocks :
           StepOf(u[1], u[2], bytes, 1, r, c, x)
    BY <2>1, MacRunStep
  <2>3. (1 % AES_BLOCK_SIZE) = 1 /\ (2 % AES_BLOCK_SIZE) = 2 /\ 2 # n
    <3>1. 1 \in 0..(AES_BLOCK_SIZE - 1) /\ 2 \in 0..(AES_BLOCK_SIZE - 1)
      BY <1>2
    <3>2. 2 # n
      BY <1>1
    <3> QED
      BY <3>1, <3>2, <1>3, Zenon
  <2>4. ~Ends(2, Len(bytes))
    BY <2>3 DEF Ends
  <2>5. 0 \in 0..(AES_BLOCK_SIZE - 1) /\ 0 # 1 /\ 2 < AES_BLOCK_SIZE
    BY <1>2
  <2>6. u[2] = [chain |-> c, in |-> x] /\ x[0] = bytes[1] /\ x[1] = bytes[2] /\ Len(c) = l
    BY <1>4, <2>1, <2>2, <2>3, <2>4, <2>5 DEF StepOf
  <2>7. u[2].chain = c /\ u[2].in = x
    BY <2>6
  <2>8. Begun(u[2], 2, bytes, l, n)
    BY <2>3, <2>5, <2>6, <2>7 DEF Begun
  <2> QED
    BY <2>8
<1>6. ASSUME NEW j \in Nat, j \in S PROVE j + 1 \in S
  <2>1. PICK k \in Nat : k = j + 2
    OBVIOUS
  <2>2. (j + 1) + 2 = k + 1
    BY <2>1
  <2> SUFFICES ASSUME k + 1 \in 2..n PROVE Begun(u[k + 1], k + 1, bytes, l, n)
    BY <2>2
  <2>3. k \in 2..n /\ k # n /\ k \in 0..(n - 1) /\ k >= 2
    BY <2>1
  <2>4. Begun(u[k], k, bytes, l, n)
    BY <1>6, <2>1, <2>3
  <2> HIDE DEF S
  <2>5. PICK r \in 0..(AES_BLOCK_SIZE - 1), c \in Seq(MacBlocks), x \in MacBlocks :
           StepOf(u[k], u[k + 1], bytes, k, r, c, x)
    BY <2>3, MacRunStep
  <2>6. /\ Len(Append(c, x)) = Len(c) + 1 /\ Append(c, x)[Len(c) + 1] = x /\ Len(c) \in Nat
        /\ \A i \in 1..Len(c) : Append(c, x)[i] = c[i]
    BY AppendProperties
  <2>7. CASE k < AES_BLOCK_SIZE
    <3>1. r = k /\ 0 # r /\ 1 # r /\ 0 \in 0..(AES_BLOCK_SIZE - 1) /\ 1 \in 0..(AES_BLOCK_SIZE - 1)
      BY <1>2, <1>3, <2>3, <2>5, <2>7 DEF StepOf
    <3>2. Len(c) = l /\ x[0] = bytes[1] /\ x[1] = bytes[2]
      BY <2>3, <2>4, <2>5, <2>7, <3>1 DEF Begun, StepOf
    <3>3. Ends(k + 1, n) <=> ~(k + 1 < AES_BLOCK_SIZE /\ k + 1 # n)
      <4>1. k + 1 < AES_BLOCK_SIZE => ((k + 1) % AES_BLOCK_SIZE) = k + 1
        <5>1. k + 1 < AES_BLOCK_SIZE => k + 1 \in 0..(AES_BLOCK_SIZE - 1)
          BY <1>2, <2>3
        <5> QED
          BY <1>3, <5>1, Zenon
      <4>2. k + 1 < AES_BLOCK_SIZE \/ k + 1 = AES_BLOCK_SIZE
        BY <1>2, <2>3, <2>7
      <4>3. k + 1 = AES_BLOCK_SIZE => ((k + 1) % AES_BLOCK_SIZE) = 0
        <5>1. AES_BLOCK_SIZE = AES_BLOCK_SIZE * 1 + 0 /\ 0 \in 0..(AES_BLOCK_SIZE - 1) /\ 1 \in Nat
          BY <1>2
        <5>2. (AES_BLOCK_SIZE % AES_BLOCK_SIZE) = 0
          BY <5>1, BlockAndPlaceUnique
        <5> QED
          BY <5>2
      <4> QED
        BY <2>3, <4>1, <4>2, <4>3 DEF Ends
    <3>4. CASE Ends(k + 1, n)
      <4>1. PICK d : d = Append(c, x)
        OBVIOUS
      <4>2. u[k + 1].chain = d
        BY <2>5, <3>4, <4>1 DEF StepOf
      <4>3. Len(d) > l /\ d[l + 1][0] = bytes[1] /\ d[l + 1][1] = bytes[2]
        BY <2>6, <3>2, <4>1
      <4> QED
        BY <3>3, <3>4, <4>2, <4>3 DEF Begun
    <3>5. CASE ~Ends(k + 1, n)
      <4>1. u[k + 1].chain = c /\ u[k + 1].in = x
        BY <2>5, <3>5 DEF StepOf
      <4> QED
        BY <3>2, <3>3, <3>5, <4>1 DEF Begun
    <3> QED
      BY <3>4, <3>5
  <2>8. CASE ~(k < AES_BLOCK_SIZE)
    <3>1. Len(c) > l /\ c[l + 1][0] = bytes[1] /\ c[l + 1][1] = bytes[2]
      BY <2>4, <2>5, <2>8 DEF Begun, StepOf
    <3>2. u[k + 1].chain = c \/ u[k + 1].chain = Append(c, x)
      <4>1. u[k + 1] = IF Ends(k + 1, Len(bytes)) THEN [chain |-> Append(c, x), in |-> Empty]
                       ELSE [chain |-> c, in |-> x]
        BY <2>5 DEF StepOf
      <4> QED
        BY <4>1
    <3>3. l + 1 \in 1..Len(c)
      BY <2>6, <3>1
    <3>4. PICK d : d = u[k + 1].chain
      OBVIOUS
    <3>5. Len(d) > l /\ d[l + 1] = c[l + 1]
      <4>1. d = c \/ d = Append(c, x)
        BY <3>2, <3>4
      <4>2. CASE d = c
        BY <3>1, <4>2
      <4>3. CASE d = Append(c, x)
        BY <2>6, <3>1, <3>3, <4>3
      <4> QED
        BY <4>1, <4>2, <4>3
    <3>6. ~(k + 1 < AES_BLOCK_SIZE)
      BY <1>2, <2>8
    <3> QED
      BY <3>1, <3>4, <3>5, <3>6 DEF Begun
  <2> QED
    BY <2>7, <2>8
<1> HIDE DEF S
<1>7. Nat \subseteq S
  BY <1>5, <1>6, SetInduction
<1> QED
  <2> SUFFICES ASSUME NEW k \in 2..n PROVE Begun(u[k], k, bytes, l, n)
    OBVIOUS
  <2>1. k - 2 \in Nat /\ (k - 2) + 2 = k
    OBVIOUS
  <2>2. k - 2 \in S
    BY <1>7, <2>1
  <2> QED
    BY <2>1, <2>2 DEF S

-----------------------------------------------------------------------------
LEMMA LengthUnique ==
    ASSUME NEW a \in Nat, NEW b \in Nat, a \div BASE = b \div BASE, a % BASE = b % BASE
    PROVE  a = b
<1>1. a = BASE * (a \div BASE) + (a % BASE)
  BY CcmConstants, QuotientRemainder
<1>2. b = BASE * (b \div BASE) + (b % BASE)
  BY CcmConstants, QuotientRemainder
<1> QED
  BY <1>1, <1>2

LEMMA LengthBytes ==
    ASSUME NEW a \in Nat
    PROVE  a \div BASE \in Nat /\ a % BASE \in Nat
<1>1. a \div BASE \in Nat /\ (a % BASE) \in 0..(BASE - 1)
  BY CcmConstants, QuotientRemainder
<1> QED
  BY <1>1, CcmConstants

LEMMA LengthThenData ==
    ASSUME NEW data \in Seq(Nat), NEW n \in Nat, n = Len(data)
    PROVE  /\ WithLength(data) \in Seq(Nat)
           /\ Len(WithLength(data)) = n + 2
           /\ WithLength(data)[1] = n \div BASE
           /\ WithLength(data)[2] = n % BASE
           /\ \A i \in 1..n : WithLength(data)[i + 2] = data[i]
<1>1. PICK a \in Nat, b \in Nat : a = n \div BASE /\ b = n % BASE
  BY LengthBytes
<1>2. WithLength(data) = <<a, b>> \o data
  BY <1>1 DEF WithLength
<1>3. PICK s \in Seq(Nat) : s = <<a, b>>
  <2>1. <<a, b>> \in Seq(Nat)
    OBVIOUS
  <2> QED
    BY <2>1
<1>4. Len(s) = 2 /\ s[1] = a /\ s[2] = b
  BY <1>3
<1>5. /\ s \o data \in Seq(Nat) /\ Len(s \o data) = Len(s) + Len(data)
      /\ \A i \in 1..(Len(s) + Len(data)) :
            (s \o data)[i] = IF i <= Len(s) THEN s[i] ELSE data[i - Len(s)]
  BY ConcatProperties
<1>6. \A i \in 1..n : i + 2 \in 1..(2 + n) /\ ~(i + 2 <= 2) /\ (i + 2) - 2 = i
  OBVIOUS
<1>7. 1 \in 1..(2 + n) /\ 2 \in 1..(2 + n) /\ 1 <= 2 /\ 2 <= 2
  OBVIOUS
<1>8. PICK w : w = s \o data
  OBVIOUS
<1>9. /\ w \in Seq(Nat) /\ Len(w) = 2 + n
      /\ \A i \in 1..(2 + n) : w[i] = IF i <= 2 THEN s[i] ELSE data[i - 2]
  BY <1>4, <1>5, <1>8
<1>10. w[1] = a /\ w[2] = b /\ \A i \in 1..n : w[i + 2] = data[i]
  BY <1>4, <1>6, <1>7, <1>9
<1> QED
  BY <1>1, <1>2, <1>3, <1>8, <1>9, <1>10

LEMMA CbcRuns ==
    ASSUME NEW t, NEW data \in Seq(Nat), NEW flag \in BOOLEAN
    PROVE  \E bytes, n, u : CbcRun(t, data, flag, bytes, n, u)
<1>1. PICK bytes : bytes = IF flag THEN WithLength(data) ELSE data
  OBVIOUS
<1>2. bytes \in Seq(Nat)
  BY <1>1, LengthThenData
<1>3. PICK n \in Nat : n = Len(bytes)
  BY <1>2
<1> QED
  BY <1>1, <1>2, <1>3, MacRuns

LEMMA CbcState ==
    ASSUME NEW t, MacState(t, 0), NEW data \in Seq(Nat), NEW flag \in BOOLEAN
    PROVE  MacState(ccm_cbc_mac(t, data, flag), 0)
<1>1. PICK bytes, n, u : CbcRun(t, data, flag, bytes, n, u)
  BY CbcRuns
<1>2. bytes \in Seq(Nat) /\ n \in Nat /\ n = Len(bytes) /\ MacRun(u, t, bytes, n)
  BY <1>1 DEF CbcRun
<1>3. \A k \in 0..n : MacState(u[k], PlaceAfter(k, n))
  BY <1>2, MacRunStates
<1>4. n \in 0..n
  BY <1>2
<1>5. MacState(u[n], PlaceAfter(n, n))
  BY <1>3, <1>4
<1> QED
  BY <1>1, <1>5 DEF PlaceAfter, CbcRun

LEMMA CbcKeeps ==
    ASSUME NEW t, MacState(t, 0), NEW data \in Seq(Nat), NEW flag \in BOOLEAN,
           NEW l \in 1..Len(t.chain)
    PROVE  /\ l \in 1..Len(ccm_cbc_mac(t, data, flag).chain)
           /\ ccm_cbc_mac(t, data, flag).chain[l] = t.chain[l]
<1>1. PICK bytes, n, u : CbcRun(t, data, flag, bytes, n, u)
  BY CbcRuns
<1>2. bytes \in Seq(Nat) /\ n \in Nat /\ n = Len(bytes) /\ MacRun(u, t, bytes, n)
  BY <1>1 DEF CbcRun
<1>3. Keeps(u, n, l, t.chain[l])
  BY <1>2, MacRunKeeps
<1>4. n \in 0..n
  BY <1>2
<1> QED
  BY <1>1, <1>3, <1>4 DEF CbcRun, Keeps

LengthAt(T, l, n) == T.chain[l + 1][0] = n \div BASE /\ T.chain[l + 1][1] = n % BASE

LEMMA CbcBegins ==
    ASSUME NEW t, MacState(t, 0), NEW data \in Seq(Nat), Len(data) > 0,
           NEW l \in Nat, l = Len(t.chain)
    PROVE  LengthAt(ccm_cbc_mac(t, data, TRUE), l, Len(data))
<1>1. PICK bytes, n, u : CbcRun(t, data, TRUE, bytes, n, u)
  BY CbcRuns
<1>2. /\ bytes \in Seq(Nat) /\ n \in Nat /\ n = Len(bytes) /\ MacRun(u, t, bytes, n)
      /\ bytes = WithLength(data) /\ n = Len(data) + 2
  BY <1>1, LengthThenData DEF CbcRun
<1>3. n > 2 /\ n \in 2..n
  <2>1. Len(data) \in Nat
    OBVIOUS
  <2> QED
    BY <1>2, <2>1
<1>4. \A j \in 2..n : Begun(u[j], j, bytes, l, n)
  BY <1>2, <1>3, MacRunBegins
<1>5. Begun(u[n], n, bytes, l, n)
  BY <1>3, <1>4
<1>6. bytes[1] = Len(data) \div BASE /\ bytes[2] = Len(data) % BASE
  BY <1>2, LengthThenData
<1>7. ccm_cbc_mac(t, data, TRUE) = u[n]
  BY <1>1 DEF CbcRun
<1> QED
  BY <1>5, <1>6, <1>7 DEF Begun, LengthAt

LEMMA CbcUndone ==
    ASSUME NEW t, MacState(t, 0), NEW w, MacState(w, 0), NEW flag \in BOOLEAN,
           NEW data \in Seq(Nat), NEW other \in Seq(Nat), Len(data) = Len(other),
           ccm_cbc_mac(t, data, flag) = ccm_cbc_mac(w, other, flag)
    PROVE  t = w /\ data = other
<1>1. PICK bs, n, u : CbcRun(t, data, flag, bs, n, u)
  BY CbcRuns
<1>2. PICK cs, m, v : CbcRun(w, other, flag, cs, m, v)
  BY CbcRuns
<1>3. m = n
  BY <1>1, <1>2, LengthThenData DEF CbcRun
<1>4. /\ bs \in Seq(Nat) /\ cs \in Seq(Nat) /\ n \in Nat /\ n = Len(bs) /\ n = Len(cs)
      /\ MacRun(u, t, bs, n) /\ MacRun(v, w, cs, n)
  BY <1>1, <1>2, <1>3 DEF CbcRun
<1>5. u[n] = v[n]
  BY <1>1, <1>2, <1>3 DEF CbcRun
<1>6. t = w /\ bs = cs
  BY <1>4, <1>5, MacRunUndone
<1>7. /\ bs = IF flag THEN WithLength(data) ELSE data
      /\ cs = IF flag THEN WithLength(other) ELSE other
  BY <1>1, <1>2 DEF CbcRun
<1>8. data = other
  <2>1. CASE ~flag
    BY <1>6, <1>7, <2>1
  <2>2. CASE flag
    <3>1. PICK k \in Nat : k = Len(data) /\ k = Len(other)
      OBVIOUS
    <3>2. bs = WithLength(data) /\ cs = WithLength(other)
      BY <1>7, <2>2
    <3>3. \A i \in 1..k : bs[i + 2] = data[i]
      BY <3>1, <3>2, LengthThenData
    <3>4. \A i \in 1..k : cs[i + 2] = other[i]
      BY <3>1, <3>2, LengthThenData
    <3>5. \A i \in 1..k : data[i] = other[i]
      BY <1>6, <3>3, <3>4
    <3> QED
      BY <3>1, <3>5, SeqEqual
  <2> QED
    BY <2>1, <2>2
<1> QED
  BY <1>6, <1>8

-----------------------------------------------------------------------------
(* The first block of a MAC, from which nonce and length of the payload can be read. *)
NonceBytes == [1..NONCE_SIZE -> Nat]

FormatOf(f, n, alen, plen, m) ==
    /\ f[0] = <<"mac", alen > 0, m>>
    /\ \A p \in 1..NONCE_SIZE : f[p] = n[p]
    /\ f[AES_BLOCK_SIZE - 2] = plen \div BASE
    /\ f[AES_BLOCK_SIZE - 1] = plen % BASE

LEMMA FormatPlaces ==
    ASSUME NEW n \in NonceBytes, NEW alen \in Nat, NEW plen \in Nat, NEW m \in Nat
    PROVE  /\ Format(n, alen, plen, m) \in MacBlocks
           /\ FormatOf(Format(n, alen, plen, m), n, alen, plen, m)
<1> DEFINE cell(p) == CASE p = 0 -> <<"mac", alen > 0, m>>
                        [] p \in 1..NONCE_SIZE -> n[p]
                        [] p = AES_BLOCK_SIZE - 2 -> plen \div BASE
                        [] p = AES_BLOCK_SIZE - 1 -> plen % BASE
<1>1. AES_BLOCK_SIZE = NONCE_SIZE + 3 /\ NONCE_SIZE \in Nat
  BY CcmConstants
<1>2. cell(0) = <<"mac", alen > 0, m>>
  BY <1>1
<1>3. \A p \in 1..NONCE_SIZE : cell(p) = n[p]
  BY <1>1
<1>4. cell(AES_BLOCK_SIZE - 2) = plen \div BASE
  BY <1>1
<1>5. cell(AES_BLOCK_SIZE - 1) = plen % BASE
  BY <1>1
<1>6. \A p \in 0..(AES_BLOCK_SIZE - 1) :
         p = 0 \/ p \in 1..NONCE_SIZE \/ p = AES_BLOCK_SIZE - 2 \/ p = AES_BLOCK_SIZE - 1
  BY <1>1
<1>7. cell(0) \in Cells
  <2>1. (alen > 0) \in BOOLEAN
    OBVIOUS
  <2>2. \A b \in BOOLEAN : <<"mac", b, m>> \in Cells
    BY DEF Cells
  <2> HIDE DEF cell
  <2>3. <<"mac", alen > 0, m>> \in Cells
    BY <2>1, <2>2, Zenon
  <2> QED
    BY <1>2, <2>3
<1>8. \A p \in 1..NONCE_SIZE : cell(p) \in Cells
  BY <1>3 DEF Cells, NonceBytes
<1>9. cell(AES_BLOCK_SIZE - 2) \in Cells /\ cell(AES_BLOCK_SIZE - 1) \in Cells
  BY <1>4, <1>5, LengthBytes DEF Cells
<1>10. Format(n, alen, plen, m) = [p \in 0..(AES_BLOCK_SIZE - 1) |-> cell(p)]
  BY DEF Format
<1> HIDE DEF cell
<1>11. \A p \in 0..(AES_BLOCK_SIZE - 1) : cell(p) \in Cells
  BY <1>6, <1>7, <1>8, <1>9
<1>12. PICK f : f = Format(n, alen, plen, m)
  OBVIOUS
<1>13. f \in MacBlocks /\ \A p \in 0..(AES_BLOCK_SIZE - 1) : f[p] = cell(p)
  BY <1>10, <1>11, <1>12 DEF MacBlocks
<1>14. /\ 0 \in 0..(AES_BLOCK_SIZE - 1) /\ AES_BLOCK_SIZE - 2 \in 0..(AES_BLOCK_SIZE - 1)
       /\ AES_BLOCK_SIZE - 1 \in 0..(AES_BLOCK_SIZE - 1)
       /\ \A p \in 1..NONCE_SIZE : p \in 0..(AES_BLOCK_SIZE - 1)
  BY <1>1
<1>15. f[0] = cell(0) /\ f[AES_BLOCK_SIZE - 2] = cell(AES_BLOCK_SIZE - 2)
       /\ f[AES_BLOCK_SIZE - 1] = cell(AES_BLOCK_SIZE - 1)
  BY <1>13, <1>14
<1>16. \A p \in 1..NONCE_SIZE : f[p] = n[p]
  BY <1>3, <1>13, <1>14
<1> QED
  BY <1>2, <1>4, <1>5, <1>12, <1>13, <1>15, <1>16 DEF FormatOf

LEMMA FormatUndone ==
    ASSUME NEW n \in NonceBytes, NEW alen \in Nat, NEW plen \in Nat, NEW m \in Nat,
           NEW o \in NonceBytes, NEW blen \in Nat, NEW qlen \in Nat,
           Format(n, alen, plen, m) = Format(o, blen, qlen, m)
    PROVE  n = o /\ plen = qlen /\ (alen > 0 <=> blen > 0)
<1>1. PICK f : f = Format(n, alen, plen, m) /\ f = Format(o, blen, qlen, m)
  OBVIOUS
<1>2. FormatOf(f, n, alen, plen, m)
  BY <1>1, FormatPlaces
<1>3. FormatOf(f, o, blen, qlen, m)
  BY <1>1, FormatPlaces
<1>4. plen = qlen
  BY <1>2, <1>3, LengthUnique DEF FormatOf
<1>5. n = o
  <2>1. \A p \in 1..NONCE_SIZE : n[p] = o[p]
    BY <1>2, <1>3 DEF FormatOf
  <2>2. PICK D : D = 1..NONCE_SIZE
    OBVIOUS
  <2>3. n \in [D -> Nat] /\ o \in [D -> Nat] /\ \A p \in D : n[p] = o[p]
    BY <2>1, <2>2 DEF NonceBytes
  <2> QED
    BY <2>3, SameFunction
<1>6. alen > 0 <=> blen > 0
  BY <1>2, <1>3 DEF FormatOf
<1> QED
  BY <1>4, <1>5, <1>6

(* The parts of a MAC. *)
Start(n, alen, plen, m) == [chain |-> <<Format(n, alen, plen, m)>>, in |-> Empty]
AfterData(n, aad, plen, m) ==
    IF Len(aad) > 0 THEN ccm_cbc_mac(Start(n, Len(aad), plen, m), aad, TRUE)
    ELSE Start(n, Len(aad), plen, m)

LEMMA MacInParts ==
    ASSUME NEW n, NEW aad, NEW payload, NEW plen, NEW m
    PROVE  Mac(n, aad, payload, plen, m) =
              IF Len(payload) > 0 THEN ccm_cbc_mac(AfterData(n, aad, plen, m), payload, FALSE)
              ELSE AfterData(n, aad, plen, m)
BY DEF Mac, Start, AfterData

StartsWith(t, f) == MacState(t, 0) /\ 1 \in 1..Len(t.chain) /\ t.chain[1] = f

LEMMA StartState ==
    ASSUME NEW n \in NonceBytes, NEW alen \in Nat, NEW plen \in Nat, NEW m \in Nat
    PROVE  StartsWith(Start(n, alen, plen, m), Format(n, alen, plen, m))
           /\ Len(Start(n, alen, plen, m).chain) = 1
<1>1. PICK f \in MacBlocks : f = Format(n, alen, plen, m)
  BY FormatPlaces
<1>2. PICK c : c = <<f>>
  OBVIOUS
<1>3. c \in Seq(MacBlocks) /\ Len(c) = 1 /\ c[1] = f
  BY <1>2
<1>4. Start(n, alen, plen, m) = [chain |-> c, in |-> Empty]
  BY <1>1, <1>2 DEF Start
<1>5. MacState([chain |-> c, in |-> Empty], 0)
  BY <1>3, EmptyBlock, RecordState
<1> QED
  <2>1. PICK t : t = Start(n, alen, plen, m)
    OBVIOUS
  <2>2. t.chain = c /\ MacState(t, 0)
    BY <1>4, <1>5, <2>1
  <2>3. StartsWith(t, f) /\ Len(t.chain) = 1
    BY <1>3, <2>2 DEF StartsWith
  <2> QED
    BY <1>1, <2>1, <2>3

LEMMA AfterDataState ==
    ASSUME NEW n \in NonceBytes, NEW aad \in Seq(Nat), NEW plen \in Nat, NEW m \in Nat
    PROVE  StartsWith(AfterData(n, aad, plen, m), Format(n, Len(aad), plen, m))
<1>1. PICK t : t = Start(n, Len(aad), plen, m)
  OBVIOUS
<1>2. MacState(t, 0) /\ Len(t.chain) = 1 /\ t.chain[1] = Format(n, Len(aad), plen, m)
  BY <1>1, StartState DEF StartsWith
<1>3. 1 \in 1..Len(t.chain)
  BY <1>2
<1>4. CASE Len(aad) > 0
  <2>1. MacState(ccm_cbc_mac(t, aad, TRUE), 0)
    BY <1>2, CbcState
  <2>2. /\ 1 \in 1..Len(ccm_cbc_mac(t, aad, TRUE).chain)
        /\ ccm_cbc_mac(t, aad, TRUE).chain[1] = t.chain[1]
    BY <1>2, <1>3, CbcKeeps
  <2> QED
    BY <1>1, <1>2, <1>4, <2>1, <2>2 DEF AfterData, StartsWith
<1>5. CASE ~(Len(aad) > 0)
  BY <1>1, <1>2, <1>3, <1>5 DEF AfterData, StartsWith
<1> QED
  BY <1>4, <1>5

LEMMA MacStarts ==
    ASSUME NEW n \in NonceBytes, NEW aad \in Seq(Nat), NEW payload \in Seq(Nat), NEW m \in Nat,
           NEW T, T = Mac(n, aad, payload, Len(payload), m)
    PROVE  StartsWith(T, Format(n, Len(aad), Len(payload), m))
<1>1. PICK t : t = AfterData(n, aad, Len(payload), m)
  OBVIOUS
<1>2. /\ MacState(t, 0) /\ 1 \in 1..Len(t.chain)
      /\ t.chain[1] = Format(n, Len(aad), Len(payload), m)
  <2>1. StartsWith(t, Format(n, Len(aad), Len(payload), m))
    BY <1>1, AfterDataState
  <2> QED
    BY <2>1 DEF StartsWith
<1>3. CASE Len(payload) > 0
  <2>1. T = ccm_cbc_mac(t, payload, FALSE)
    BY <1>1, <1>3, MacInParts
  <2>2. MacState(ccm_cbc_mac(t, payload, FALSE), 0)
    BY <1>2, CbcState
  <2>3. /\ 1 \in 1..Len(ccm_cbc_mac(t, payload, FALSE).chain)
        /\ ccm_cbc_mac(t, payload, FALSE).chain[1] = t.chain[1]
    BY <1>2, CbcKeeps
  <2> QED
    BY <1>2, <2>1, <2>2, <2>3 DEF StartsWith
<1>4. CASE ~(Len(payload) > 0)
  <2>1. T = t
    BY <1>1, <1>4, MacInParts
  <2> QED
    BY <1>2, <2>1 DEF StartsWith
<1> QED
  BY <1>3, <1>4

(* The associated data can be read from the state after them. *)
LEMMA AfterDataUndone ==
    ASSUME NEW n \in NonceBytes, NEW aad \in Seq(Nat), NEW plen \in Nat, NEW m \in Nat,
           NEW bad \in Seq(Nat), Len(aad) > 0 <=> Len(bad) > 0,
           AfterData(n, aad, plen, m) = AfterData(n, bad, plen, m)
    PROVE  aad = bad
<1>1. CASE ~(Len(aad) > 0)
  <2>1. Len(aad) = 0 /\ Len(bad) = 0
    BY <1>1
  <2> QED
    BY <2>1
<1>2. CASE Len(aad) > 0
  <2>1. PICK t, w : t = Start(n, Len(aad), plen, m) /\ w = Start(n, Len(bad), plen, m)
    OBVIOUS
  <2>2. MacState(t, 0) /\ MacState(w, 0) /\ Len(t.chain) = 1 /\ Len(w.chain) = 1
    <3>1. Len(aad) \in Nat /\ Len(bad) \in Nat
      OBVIOUS
    <3>2. /\ StartsWith(Start(n, Len(aad), plen, m), Format(n, Len(aad), plen, m))
          /\ Len(Start(n, Len(aad), plen, m).chain) = 1
      BY <3>1, StartState, Zenon
    <3>3. /\ StartsWith(Start(n, Len(bad), plen, m), Format(n, Len(bad), plen, m))
          /\ Len(Start(n, Len(bad), plen, m).chain) = 1
      BY <3>1, StartState, Zenon
    <3> QED
      BY <2>1, <3>2, <3>3 DEF StartsWith
  <2>3. PICK W : W = ccm_cbc_mac(t, aad, TRUE) /\ W = ccm_cbc_mac(w, bad, TRUE)
    BY <1>2, <2>1 DEF AfterData
  <2>4. LengthAt(W, 1, Len(aad))
    BY <1>2, <2>2, <2>3, CbcBegins
  <2>5. LengthAt(W, 1, Len(bad))
    BY <1>2, <2>2, <2>3, CbcBegins
  <2>6. Len(aad) = Len(bad)
    <3>1. Len(aad) \in Nat /\ Len(bad) \in Nat
      OBVIOUS
    <3>2. Len(aad) \div BASE = Len(bad) \div BASE /\ Len(aad) % BASE = Len(bad) % BASE
      BY <2>4, <2>5 DEF LengthAt
    <3> QED
      BY <3>1, <3>2, LengthUnique
  <2>7. ccm_cbc_mac(t, aad, TRUE) = ccm_cbc_mac(w, bad, TRUE)
    BY <2>3
  <2> QED
    BY <2>2, <2>6, <2>7, CbcUndone
<1> QED
  BY <1>1, <1>2

(* Equal MACs are of equal messages. *)
Messages(n, aad, payload, o, bad, other, m) ==
    /\ n \in NonceBytes /\ aad \in Seq(Nat) /\ payload \in Seq(Nat) /\ m \in Nat
    /\ o \in NonceBytes /\ bad \in Seq(Nat) /\ other \in Seq(Nat)

LEMMA MacUndone ==
    ASSUME NEW n, NEW aad, NEW payload, NEW o, NEW bad, NEW other, NEW m,
           Messages(n, aad, payload, o, bad, other, m),
           Mac(n, aad, payload, Len(payload), m) = Mac(o, bad, other, Len(other), m)
    PROVE  n = o /\ aad = bad /\ payload = other
<1> USE DEF Messages
<1>1. Len(aad) \in Nat /\ Len(bad) \in Nat /\ Len(payload) \in Nat /\ Len(other) \in Nat
  OBVIOUS
<1>2. PICK T : /\ T = Mac(n, aad, payload, Len(payload), m)
              /\ T = Mac(o, bad, other, Len(other), m)
  OBVIOUS
<1>3. StartsWith(T, Format(n, Len(aad), Len(payload), m))
  BY <1>2, MacStarts
<1>4. StartsWith(T, Format(o, Len(bad), Len(other), m))
  BY <1>2, MacStarts
<1>5. n = o /\ Len(payload) = Len(other) /\ (Len(aad) > 0 <=> Len(bad) > 0)
  <2>1. Format(n, Len(aad), Len(payload), m) = Format(o, Len(bad), Len(other), m)
    BY <1>3, <1>4 DEF StartsWith
  <2> QED
    BY <1>1, <2>1, FormatUndone
<1>6. PICK l \in Nat : l = Len(payload) /\ l = Len(other)
  BY <1>1, <1>5
<1>7. PICK t, w : t = AfterData(n, aad, l, m) /\ w = AfterData(n, bad, l, m)
  OBVIOUS
<1>8. MacState(t, 0) /\ MacState(w, 0)
  BY <1>6, <1>7, AfterDataState DEF StartsWith
<1>9. t = w /\ payload = other
  <2>1. CASE l > 0
    <3>1. ccm_cbc_mac(t, payload, FALSE) = ccm_cbc_mac(w, other, FALSE)
      BY <1>5, <1>6, <1>7, <1>2, <2>1, MacInParts
    <3> QED
      BY <1>5, <1>8, <3>1, CbcUndone
  <2>2. CASE ~(l > 0)
    <3>1. t = w
      BY <1>5, <1>6, <1>7, <1>2, <2>2, MacInParts
    <3>2. Len(payload) = 0 /\ Len(other) = 0
      BY <1>6, <2>2
    <3> QED
      BY <3>1, <3>2
  <2> QED
    BY <2>1, <2>2
<1>10. AfterData(n, aad, l, m) = AfterData(n, bad, l, m)
  BY <1>7, <1>9
<1> QED
  BY <1>5, <1>9, <1>10, AfterDataUndone

-----------------------------------------------------------------------------
(* A message on the wire: the payload under its pads, and the tag under its own. *)
JoinedOf(w, A, n, m, s, t) ==
    /\ w \in Seq(A) /\ Len(w) = n + m
    /\ \A i \in 1..n : w[i] = s[i]
    /\ \A i \in 1..m : w[n + i] = t[i]

LEMMA Joined ==
    ASSUME NEW A, NEW n \in Nat, NEW m \in Nat, NEW s \in [1..n -> A], NEW t \in [1..m -> A],
           NEW w, w = s \o t
    PROVE  JoinedOf(w, A, n, m, s, t)
<1>1. s \in Seq(A) /\ t \in Seq(A) /\ Len(s) = n /\ Len(t) = m
  OBVIOUS
<1>2. w \in Seq(A) /\ Len(w) = n + m
  BY <1>1, ConcatProperties
<1>3. ASSUME NEW i \in 1..(n + m) PROVE w[i] = IF i <= n THEN s[i] ELSE t[i - n]
  <2>1. i \in 1..(Len(s) + Len(t))
    BY <1>1
  <2>2. (s \o t)[i] = IF i <= Len(s) THEN s[i] ELSE t[i - Len(s)]
    BY <1>1, <2>1, ConcatProperties, Zenon
  <2> QED
    BY <1>1, <2>2, Zenon
<1>4. \A i \in 1..n : i \in 1..(n + m) /\ i <= n
  OBVIOUS
<1>5. \A i \in 1..m : n + i \in 1..(n + m) /\ ~(n + i <= n) /\ (n + i) - n = i
  OBVIOUS
<1>6. \A i \in 1..m : w[n + i] = t[i]
  BY <1>3, <1>5
<1>7. \A i \in 1..n : w[i] = s[i]
  BY <1>3, <1>4
<1> QED
  BY <1>2, <1>6, <1>7 DEF JoinedOf

SealedParts(w, payload, n, l, m, chain) ==
    /\ Len(w) = l + m /\ l = Len(payload)
    /\ \E A : w \in Seq(A)
    /\ \A i \in 1..l : w[i] = Hide(Data(payload[i]), CtrPad(n, i))
    /\ \A i \in 1..m : w[l + i] = Hide(<<"tag", chain, i>>, TagPad(n, i))

LEMMA SealedInParts ==
    ASSUME NEW payload \in Seq(Nat), NEW l \in Nat, l = Len(payload), NEW m \in Nat,
           NEW aad, NEW n
    PROVE  SealedParts(Sealed(payload, aad, n, m), payload, n, l, m,
                       Mac(n, aad, payload, Len(payload), m).chain)
<1>1. PICK T : T = Mac(n, aad, payload, Len(payload), m)
  OBVIOUS
<1> DEFINE F(i) == Hide(Data(payload[i]), CtrPad(n, i))
           G(i) == Hide(TagByte(T, i), TagPad(n, i))
<1>2. PICK s, t : s = [i \in 1..l |-> F(i)] /\ t = [i \in 1..m |-> G(i)]
  OBVIOUS
<1>3. Sealed(payload, aad, n, m) = s \o t
  BY <1>1, <1>2 DEF Sealed
<1>4. \A i \in 1..m : G(i) = Hide(<<"tag", T.chain, i>>, TagPad(n, i))
  BY DEF TagByte
<1> HIDE DEF F, G
<1>5. PICK A : (\A i \in 1..l : F(i) \in A) /\ (\A i \in 1..m : G(i) \in A)
  <2>1. \E A : A = {F(i) : i \in 1..l} \cup {G(i) : i \in 1..m}
    OBVIOUS
  <2> QED
    BY <2>1
<1>6. s \in [1..l -> A] /\ t \in [1..m -> A]
  BY <1>2, <1>5
<1>7. PICK w : w = s \o t
  OBVIOUS
<1>8. /\ w \in Seq(A) /\ Len(w) = l + m
      /\ \A i \in 1..l : w[i] = s[i]
      /\ \A i \in 1..m : w[l + i] = t[i]
  <2>1. JoinedOf(w, A, l, m, s, t)
    BY <1>6, <1>7, Joined
  <2> QED
    BY <2>1 DEF JoinedOf
<1>9. \A i \in 1..l : w[i] = Hide(Data(payload[i]), CtrPad(n, i))
  BY <1>2, <1>8 DEF F
<1>10. \A i \in 1..m : w[l + i] = Hide(<<"tag", T.chain, i>>, TagPad(n, i))
  BY <1>2, <1>4, <1>8
<1>11. SealedParts(w, payload, n, l, m, T.chain)
  BY <1>8, <1>9, <1>10 DEF SealedParts
<1> QED
  BY <1>1, <1>3, <1>7, <1>11

(* The counter under a byte of the payload, which is not that of the tag. *)
LEMMA CounterOfByte ==
    ASSUME NEW n, NEW l \in Nat, l < TC_CCM_PAYLOAD_MAX_BYTES, NEW i \in 1..l
    PROVE  \E q \in Nat, r \in 0..(AES_BLOCK_SIZE - 1) :
              /\ CtrPad(n, i) = [nonce |-> n, counter |-> q + 1, place |-> r]
              /\ i - 1 = AES_BLOCK_SIZE * q + r
<1>1. PICK q \in Nat, r \in 0..(AES_BLOCK_SIZE - 1) :
         (i - 1) \div AES_BLOCK_SIZE = q /\ ((i - 1) % AES_BLOCK_SIZE) = r
         /\ i - 1 = AES_BLOCK_SIZE * q + r
  <2>1. i - 1 \in Nat
    OBVIOUS
  <2> QED
    BY <2>1, BlockAndPlace
<1>2. PICK M \in Nat : M = BASE * BASE /\ M = TC_CCM_PAYLOAD_MAX_BYTES
  BY CcmLimits DEF TC_CCM_PAYLOAD_MAX_BYTES
<1>3. q <= AES_BLOCK_SIZE * q
  BY CcmConstants, Z3
<1>4. q + 1 < M
  <2>1. AES_BLOCK_SIZE * q \in Nat
    BY CcmConstants, Z3
  <2>2. AES_BLOCK_SIZE * q <= i - 1
    BY <1>1, <2>1
  <2>3. i - 1 + 1 < M
    BY <1>2
  <2>4. \A x \in Nat : q <= x /\ x <= i - 1 => q + 1 < M
    BY <2>3
  <2> QED
    BY <1>3, <2>1, <2>2, <2>4
<1>5. ((q + 1) % M) = q + 1
  <2>1. \A a \in Nat, b \in Nat : a < b => (a % b) = a
    BY Z3
  <2> QED
    BY <1>2, <1>4, <2>1
<1>6. CtrPad(n, i) = [nonce |-> n, counter |-> q + 1, place |-> r]
  BY <1>1, <1>2, <1>5 DEF CtrPad
<1> QED
  BY <1>1, <1>6

LEMMA CtrPadsDiffer ==
    ASSUME NEW n, NEW l \in Nat, l < TC_CCM_PAYLOAD_MAX_BYTES, NEW i \in 1..l, NEW j \in 1..l,
           CtrPad(n, i) = CtrPad(n, j)
    PROVE  i = j
<1>1. PICK q \in Nat, r \in 0..(AES_BLOCK_SIZE - 1) :
         /\ CtrPad(n, i) = [nonce |-> n, counter |-> q + 1, place |-> r]
         /\ i - 1 = AES_BLOCK_SIZE * q + r
  BY CounterOfByte
<1>2. PICK p \in Nat, s \in 0..(AES_BLOCK_SIZE - 1) :
         /\ CtrPad(n, j) = [nonce |-> n, counter |-> p + 1, place |-> s]
         /\ j - 1 = AES_BLOCK_SIZE * p + s
  BY CounterOfByte
<1>3. [nonce |-> n, counter |-> q + 1, place |-> r] = [nonce |-> n, counter |-> p + 1, place |-> s]
  BY <1>1, <1>2
<1>4. q + 1 = p + 1 /\ r = s
  BY <1>3
<1>5. q = p
  BY <1>4
<1>6. i - 1 = j - 1
  BY <1>1, <1>2, <1>4, <1>5
<1> QED
  BY <1>6

LEMMA TagPadDiffers ==
    ASSUME NEW n, NEW o, NEW l \in Nat, l < TC_CCM_PAYLOAD_MAX_BYTES, NEW i \in 1..l, NEW j
    PROVE  CtrPad(n, i) # TagPad(o, j)
<1>1. PICK q \in Nat, r \in 0..(AES_BLOCK_SIZE - 1) :
         CtrPad(n, i) = [nonce |-> n, counter |-> q + 1, place |-> r]
  BY CounterOfByte
<1>2. q + 1 # 0
  OBVIOUS
<1>3. ASSUME CtrPad(n, i) = TagPad(o, j) PROVE FALSE
  <2>1. [nonce |-> n, counter |-> q + 1, place |-> r] = [nonce |-> o, counter |-> 0, place |-> j - 1]
    BY <1>1, <1>3 DEF TagPad
  <2>2. q + 1 = 0
    BY <2>1
  <2> QED
    BY <1>2, <2>2
<1> QED
  BY <1>3

(* Every byte on the wire has a pad of its own. *)
LEMMA PadsDiffer ==
    ASSUME NEW w, NEW payload, NEW n, NEW l \in Nat, l < TC_CCM_PAYLOAD_MAX_BYTES, NEW m \in Nat,
           NEW chain, SealedParts(w, payload, n, l, m, chain)
    PROVE  \A i, j \in DOMAIN w : w[i].pad = w[j].pad => i = j
<1>1. DOMAIN w = 1..(l + m)
  BY DEF SealedParts
<1>2. \A i \in 1..l : w[i].pad = CtrPad(n, i)
  <2> TAKE i \in 1..l
  <2>1. w[i] = Hide(Data(payload[i]), CtrPad(n, i))
    BY DEF SealedParts
  <2> QED
    BY <2>1 DEF Hide
<1>3. \A i \in 1..m : w[l + i].pad = TagPad(n, i)
  <2> TAKE i \in 1..m
  <2>1. w[l + i] = Hide(<<"tag", chain, i>>, TagPad(n, i))
    BY DEF SealedParts
  <2> QED
    BY <2>1 DEF Hide
<1> SUFFICES ASSUME NEW i \in 1..(l + m), NEW j \in 1..(l + m), w[i].pad = w[j].pad
             PROVE  i = j
  BY <1>1
<1>4. CASE i \in 1..l /\ j \in 1..l
  <2>1. CtrPad(n, i) = CtrPad(n, j)
    BY <1>2, <1>4
  <2> QED
    BY <1>4, <2>1, CtrPadsDiffer
<1>5. \A k \in 1..(l + m) : k \in 1..l \/ (k - l \in 1..m /\ l + (k - l) = k)
  OBVIOUS
<1>6. CASE i \in 1..l /\ j \notin 1..l
  <2>1. j - l \in 1..m /\ l + (j - l) = j
    BY <1>5, <1>6
  <2>2. w[l + (j - l)].pad = TagPad(n, j - l)
    BY <1>3, <2>1
  <2>3. CtrPad(n, i) = TagPad(n, j - l)
    BY <1>2, <1>6, <2>1, <2>2
  <2> QED
    BY <1>6, <2>3, TagPadDiffers
<1>7. CASE i \notin 1..l /\ j \in 1..l
  <2>1. i - l \in 1..m /\ l + (i - l) = i
    BY <1>5, <1>7
  <2>2. w[l + (i - l)].pad = TagPad(n, i - l)
    BY <1>3, <2>1
  <2>3. CtrPad(n, j) = TagPad(n, i - l)
    BY <1>2, <1>7, <2>1, <2>2
  <2> QED
    BY <1>7, <2>3, TagPadDiffers
<1>8. CASE i \notin 1..l /\ j \notin 1..l
  <2>1. i - l \in 1..m /\ l + (i - l) = i /\ j - l \in 1..m /\ l + (j - l) = j
    BY <1>5, <1>8
  <2>2. w[l + (i - l)].pad = TagPad(n, i - l)
    BY <1>3, <2>1
  <2>3. w[l + (j - l)].pad = TagPad(n, j - l)
    BY <1>3, <2>1
  <2>4. TagPad(n, i - l) = TagPad(n, j - l)
    BY <2>1, <2>2, <2>3
  <2>5. i - l - 1 = j - l - 1
    BY <2>4 DEF TagPad
  <2> QED
    BY <2>5
<1> QED
  BY <1>4, <1>6, <1>7, <1>8

-----------------------------------------------------------------------------
(* What the module's messages are made of. *)
LEMMA WiderSeq ==
    ASSUME NEW A, NEW B, A \subseteq B, NEW w \in Seq(A)
    PROVE  w \in Seq(B)
OBVIOUS

LEMMA MessageBytes ==
    /\ \A data \in Payloads \cup AssociatedData : data \in Seq(Nat) /\ data \in Seq(0..(BASE - 1))
    /\ Nonces \subseteq NonceBytes
<1>1. 0..(BASE - 1) \subseteq Nat
  BY CcmConstants
<1>2. \A data \in Seq(0..(BASE - 1)) : data \in Seq(Nat)
  <2>1. PICK A : A = 0..(BASE - 1)
    OBVIOUS
  <2>2. A \subseteq Nat
    BY <1>1, <2>1
  <2>3. \A data \in Seq(A) : data \in Seq(Nat)
    BY <2>2, WiderSeq
  <2> QED
    BY <2>1, <2>3
<1>3. \A n \in [1..NONCE_SIZE -> 0..(BASE - 1)] : n \in [1..NONCE_SIZE -> Nat]
  BY <1>1
<1> QED
  BY <1>2, <1>3, CcmAssumption DEF NonceBytes

(* A tag tells a message from any other. *)
LEMMA TagUndone ==
    ASSUME NEW n, NEW aad, NEW payload, NEW o, NEW bad, NEW other, NEW m,
           Messages(n, aad, payload, o, bad, other, m),
           Mac(n, aad, payload, Len(payload), m).chain = Mac(o, bad, other, Len(other), m).chain
    PROVE  n = o /\ aad = bad /\ payload = other
<1>1. PICK T, U : /\ T = Mac(n, aad, payload, Len(payload), m)
                 /\ U = Mac(o, bad, other, Len(other), m)
  OBVIOUS
<1>2. StartsWith(T, Format(n, Len(aad), Len(payload), m))
  BY <1>1, MacStarts DEF Messages
<1>3. StartsWith(U, Format(o, Len(bad), Len(other), m))
  BY <1>1, MacStarts DEF Messages
<1>4. MacState(T, 0) /\ MacState(U, 0)
  BY <1>2, <1>3 DEF StartsWith
<1>5. /\ T = [chain |-> T.chain, in |-> T.in] /\ T.in = Empty
      /\ U = [chain |-> U.chain, in |-> U.in] /\ U.in = Empty
  BY <1>4, EmptyBlock DEF MacState
<1>6. T = U
  BY <1>1, <1>5
<1>7. Mac(n, aad, payload, Len(payload), m) = Mac(o, bad, other, Len(other), m)
  BY <1>1, <1>6
<1> QED
  BY <1>7, MacUndone

(* Decryption refuses what is beyond its limits or has a byte of the tag wrong. *)
MessageRefused == verdict' = "FAIL" /\ \A i \in DOMAIN opened' : opened'[i] = 0

Decrypted(c, n) == [i \in 1..MessageLength(Len(c)) |-> Plain(n, <<c[i], i>>)]
ReceivedMac(c, n, aad) == Mac(n, aad, Decrypted(c, n), MessageLength(Len(c)), mlen)

LEMMA BeyondLimits ==
    ASSUME NEW c, NEW n, NEW aad, NEW olen, tc_ccm_decryption_verification(c, n, aad, olen),
           \/ Len(aad) >= TC_CCM_AAD_MAX_BYTES
           \/ Len(c) >= TC_CCM_PAYLOAD_MAX_BYTES
           \/ olen < MessageLength(Len(c))
    PROVE  MessageRefused
<1>1. verdict' = "FAIL" /\ opened' = <<>>
  BY DEF tc_ccm_decryption_verification
<1>2. DOMAIN opened' = {}
  BY <1>1
<1> QED
  BY <1>1, <1>2 DEF MessageRefused

LEMMA TagWrong ==
    ASSUME NEW c, NEW n, NEW aad, NEW olen, tc_ccm_decryption_verification(c, n, aad, olen),
           NEW i \in 1..mlen,
           Reveal(c[MessageLength(Len(c)) + i], TagPad(n, i)) # TagByte(ReceivedMac(c, n, aad), i)
    PROVE  MessageRefused
<1>1. CASE \/ Len(aad) >= TC_CCM_AAD_MAX_BYTES
           \/ Len(c) >= TC_CCM_PAYLOAD_MAX_BYTES
           \/ olen < MessageLength(Len(c))
  BY <1>1, BeyondLimits
<1>2. CASE ~(\/ Len(aad) >= TC_CCM_AAD_MAX_BYTES
             \/ Len(c) >= TC_CCM_PAYLOAD_MAX_BYTES
             \/ olen < MessageLength(Len(c)))
  <2>1. PICK len : len = MessageLength(Len(c))
    OBVIOUS
  <2>2. verdict' = "FAIL" /\ opened' = [j \in 1..len |-> 0]
    BY <1>2, <2>1 DEF tc_ccm_decryption_verification, ReceivedMac, Decrypted
  <2> QED
    BY <2>2 DEF MessageRefused
<1> QED
  BY <1>1, <1>2

LEMMA TagRight ==
    ASSUME NEW c, NEW n, NEW aad, NEW olen, tc_ccm_decryption_verification(c, n, aad, olen),
           Len(aad) < TC_CCM_AAD_MAX_BYTES, Len(c) < TC_CCM_PAYLOAD_MAX_BYTES,
           MessageLength(Len(c)) <= olen,
           Len(aad) \in Nat, Len(c) \in Nat, MessageLength(Len(c)) \in Nat, olen \in Nat,
           \A i \in 1..mlen : Reveal(c[MessageLength(Len(c)) + i], TagPad(n, i))
                                = TagByte(ReceivedMac(c, n, aad), i)
    PROVE  verdict' = "SUCCESS" /\ opened' = Decrypted(c, n)
<1>1. ~(\/ Len(aad) >= TC_CCM_AAD_MAX_BYTES
        \/ Len(c) >= TC_CCM_PAYLOAD_MAX_BYTES
        \/ olen < MessageLength(Len(c)))
  BY CcmLimits
<1> QED
  BY <1>1 DEF tc_ccm_decryption_verification, ReceivedMac, Decrypted

(* A byte under the pad it was hidden by, and under another. *)
LEMMA Revealed ==
    ASSUME NEW v, NEW pad, NEW other
    PROVE  /\ Reveal(Hide(v, pad), pad) = v
           /\ pad # other => Reveal(Hide(v, pad), other) = Garbage
BY DEF Reveal, Hide

LEMMA PlainByte ==
    ASSUME NEW x, NEW n, NEW i
    PROVE  Plain(n, <<Hide(Data(x), CtrPad(n, i)), i>>) = x
<1>1. PICK c : c = Hide(Data(x), CtrPad(n, i))
  OBVIOUS
<1>2. Reveal(c, CtrPad(n, i)) = Data(x)
  BY <1>1, Revealed
<1>3. Len(Data(x)) = 2 /\ Data(x)[2] = x
  BY DEF Data
<1> QED
  BY <1>1, <1>2, <1>3 DEF Plain

LEMMA GarbageIsNoTag == \A T, i : Garbage # TagByte(T, i)
BY DEF Garbage, TagByte

-----------------------------------------------------------------------------
(***************************************************************************)
(* The invariant: what is on the wire is the sealed form of what was sent, *)
(* which was within the limits of encryption, and the last delivery was    *)
(* judged as the properties say.                                           *)
(***************************************************************************)
OnTheWire ==
    /\ mlen \in 1..MAX_MAC
    /\ sent.payload \in Payloads /\ sent.aad \in AssociatedData /\ sent.nonce \in Nonces
    /\ Len(sent.payload) < TC_CCM_PAYLOAD_MAX_BYTES
    /\ Len(sent.aad) < TC_CCM_AAD_MAX_BYTES
    /\ wire = Sealed(sent.payload, sent.aad, sent.nonce, mlen)

CcmInv ==
    /\ mlen \in 0..MAX_MAC
    /\ mlen > 0 => ccm_nonce \in Nonces
    /\ IF wire = <<>> THEN fate = "none" ELSE OnTheWire
    /\ IntactIsAccepted
    /\ AlteredIsRefused

(* A message on the wire, byte by byte. *)
SentChain == Mac(sent.nonce, sent.aad, sent.payload, Len(sent.payload), mlen).chain

Shape(l) ==
    /\ l \in Nat /\ mlen \in Nat /\ mlen > 0 /\ mlen < UINT
    /\ l = Len(sent.payload) /\ l < TC_CCM_PAYLOAD_MAX_BYTES
    /\ Len(wire) = l + mlen
    /\ \E A : wire \in Seq(A)
    /\ \A i \in 1..l : wire[i] = Hide(Data(sent.payload[i]), CtrPad(sent.nonce, i))
    /\ \A i \in 1..mlen : wire[l + i] = Hide(<<"tag", SentChain, i>>, TagPad(sent.nonce, i))
    /\ sent.payload \in Seq(Nat) /\ sent.payload \in Seq(0..(BASE - 1))
    /\ sent.aad \in Seq(Nat) /\ Len(sent.aad) < TC_CCM_AAD_MAX_BYTES
    /\ sent.nonce \in NonceBytes

LEMMA WireShape ==
    ASSUME OnTheWire
    PROVE  \E l : Shape(l)
<1>1. sent.payload \in Seq(Nat) /\ sent.payload \in Seq(0..(BASE - 1))
  BY MessageBytes DEF OnTheWire
<1>2. sent.aad \in Seq(Nat) /\ sent.nonce \in NonceBytes
  BY MessageBytes DEF OnTheWire
<1>3. PICK l \in Nat : l = Len(sent.payload)
  BY <1>1
<1>4. mlen \in Nat /\ mlen > 0 /\ mlen < UINT
  BY CcmConstants, CcmLimits DEF OnTheWire
<1>5. PICK p, a, n, m : p = sent.payload /\ a = sent.aad /\ n = sent.nonce /\ m = mlen
  OBVIOUS
<1>6. SealedParts(Sealed(p, a, n, m), p, n, l, m, Mac(n, a, p, Len(p), m).chain)
  BY <1>1, <1>3, <1>4, <1>5, SealedInParts
<1>7. SealedParts(wire, sent.payload, sent.nonce, l, mlen, SentChain)
  BY <1>5, <1>6 DEF OnTheWire, SentChain
<1>8. Shape(l)
  BY <1>1, <1>2, <1>3, <1>4, <1>7 DEF Shape, SealedParts, OnTheWire
<1> QED
  BY <1>8

LEMMA LengthOfWire ==
    ASSUME NEW l, Shape(l)
    PROVE  /\ Len(wire) = l + mlen /\ MessageLength(l + mlen) = l
           /\ MessageLength(Len(wire)) = l
           /\ l \in Nat /\ mlen \in Nat /\ 1 \in 1..mlen
<1>1. Len(wire) = l + mlen /\ l \in Nat /\ mlen \in Nat /\ mlen > 0
  BY DEF Shape
<1>2. MessageLength(l + mlen) = l
  BY <1>1 DEF MessageLength
<1> QED
  BY <1>1, <1>2

(* Another message than the one sent has another tag. *)
LEMMA OtherTag ==
    ASSUME NEW l, Shape(l), NEW n \in NonceBytes, NEW a \in Seq(Nat), NEW p \in Seq(Nat),
           Len(p) = l, ~(n = sent.nonce /\ a = sent.aad /\ p = sent.payload)
    PROVE  <<"tag", SentChain, 1>> # TagByte(Mac(n, a, p, l, mlen), 1)
<1>1. PICK T : T = Mac(n, a, p, l, mlen)
  OBVIOUS
<1>2. SUFFICES ASSUME T.chain = SentChain PROVE FALSE
  BY <1>1 DEF TagByte
<1>3. Messages(n, a, p, sent.nonce, sent.aad, sent.payload, mlen)
  BY DEF Messages, Shape
<1>4. Mac(n, a, p, Len(p), mlen).chain
        = Mac(sent.nonce, sent.aad, sent.payload, Len(sent.payload), mlen).chain
  BY <1>1, <1>2 DEF SentChain
<1> QED
  BY <1>3, <1>4, TagUndone

(* What decryption makes of a payload whose bytes are p. *)
LEMMA DecryptedBytes ==
    ASSUME NEW l, Shape(l), NEW c, Len(c) = l + mlen, NEW p \in Seq(Nat), Len(p) = l,
           \A i \in 1..l : c[i] = Hide(Data(p[i]), CtrPad(sent.nonce, i))
    PROVE  Decrypted(c, sent.nonce) = p
<1>1. MessageLength(Len(c)) = l /\ l \in Nat
  BY LengthOfWire DEF Shape
<1>2. PICK d : d = Decrypted(c, sent.nonce)
  OBVIOUS
<1>3. d = [i \in 1..l |-> Plain(sent.nonce, <<c[i], i>>)]
  BY <1>1, <1>2 DEF Decrypted
<1>4. ASSUME NEW i \in 1..l PROVE Plain(sent.nonce, <<c[i], i>>) = p[i]
  <2>1. c[i] = Hide(Data(p[i]), CtrPad(sent.nonce, i))
    OBVIOUS
  <2> QED
    BY <2>1, PlainByte
<1>5. \A i \in 1..l : p[i] \in Nat
  BY ElementOfSeq
<1>6. d \in Seq(Nat) /\ Len(d) = l /\ \A i \in 1..l : d[i] = p[i]
  <2>1. PICK e : e = [i \in 1..l |-> p[i]]
    OBVIOUS
  <2>2. d = e
    BY <1>3, <1>4, <2>1
  <2> QED
    BY <1>1, <1>5, <2>1, <2>2
<1>7. d = p
  BY <1>6, SeqEqual
<1> QED
  BY <1>2, <1>7

-----------------------------------------------------------------------------
(* One lemma for each of the fates. *)
LEMMA WireDecrypts ==
    ASSUME NEW l, Shape(l)
    PROVE  Decrypted(wire, sent.nonce) = sent.payload
<1>1. /\ Len(wire) = l + mlen /\ sent.payload \in Seq(Nat) /\ Len(sent.payload) = l
      /\ \A i \in 1..l : wire[i] = Hide(Data(sent.payload[i]), CtrPad(sent.nonce, i))
  BY DEF Shape
<1> QED
  BY <1>1, DecryptedBytes

LEMMA IntactJudged ==
    ASSUME NEW l, Shape(l), NEW olen, olen = Len(wire),
           tc_ccm_decryption_verification(wire, sent.nonce, sent.aad, olen)
    PROVE  IF Len(wire) < TC_CCM_PAYLOAD_MAX_BYTES
           THEN verdict' = "SUCCESS" /\ opened' = sent.payload
           ELSE verdict' = "FAIL"
<1>1. Len(wire) = l + mlen /\ l \in Nat /\ mlen \in Nat /\ MessageLength(Len(wire)) = l
  BY LengthOfWire DEF Shape
<1>2. TC_CCM_PAYLOAD_MAX_BYTES \in Nat /\ TC_CCM_AAD_MAX_BYTES \in Int
  BY CcmLimits
<1>3. CASE Len(wire) < TC_CCM_PAYLOAD_MAX_BYTES
  <2>1. Decrypted(wire, sent.nonce) = sent.payload
    BY WireDecrypts
  <2>2. ReceivedMac(wire, sent.nonce, sent.aad).chain = SentChain
    BY <1>1, <2>1 DEF ReceivedMac, SentChain, Shape
  <2>3. ASSUME NEW i \in 1..mlen
        PROVE  Reveal(wire[l + i], TagPad(sent.nonce, i))
                 = TagByte(ReceivedMac(wire, sent.nonce, sent.aad), i)
    <3>1. wire[l + i] = Hide(<<"tag", SentChain, i>>, TagPad(sent.nonce, i))
      BY DEF Shape
    <3>2. Reveal(wire[l + i], TagPad(sent.nonce, i)) = <<"tag", SentChain, i>>
      BY <3>1, Revealed
    <3> QED
      BY <2>2, <3>2 DEF TagByte
  <2>4. /\ Len(sent.aad) < TC_CCM_AAD_MAX_BYTES /\ Len(sent.aad) \in Nat
        /\ MessageLength(Len(wire)) <= olen /\ olen \in Nat
    BY <1>1 DEF Shape
  <2>5. \A i \in 1..mlen : Reveal(wire[MessageLength(Len(wire)) + i], TagPad(sent.nonce, i))
                             = TagByte(ReceivedMac(wire, sent.nonce, sent.aad), i)
    BY <1>1, <2>3
  <2>6. verdict' = "SUCCESS" /\ opened' = Decrypted(wire, sent.nonce)
    BY <1>1, <1>3, <2>4, <2>5, TagRight
  <2> QED
    BY <1>3, <2>1, <2>6
<1>4. CASE ~(Len(wire) < TC_CCM_PAYLOAD_MAX_BYTES)
  <2>1. Len(wire) >= TC_CCM_PAYLOAD_MAX_BYTES
    BY <1>1, <1>2, <1>4
  <2>2. MessageRefused
    BY <2>1, BeyondLimits
  <2> QED
    BY <1>4, <2>2 DEF MessageRefused
<1> QED
  BY <1>3, <1>4

LEMMA NonceJudged ==
    ASSUME NEW l, Shape(l), NEW n, n # sent.nonce, NEW aad, NEW olen,
           tc_ccm_decryption_verification(wire, n, aad, olen)
    PROVE  MessageRefused
<1>1. MessageLength(Len(wire)) = l /\ 1 \in 1..mlen
  BY LengthOfWire
<1>2. wire[l + 1] = Hide(<<"tag", SentChain, 1>>, TagPad(sent.nonce, 1))
  BY <1>1 DEF Shape
<1>3. TagPad(sent.nonce, 1) # TagPad(n, 1)
  BY DEF TagPad
<1>4. Reveal(wire[l + 1], TagPad(n, 1)) = Garbage
  BY <1>2, <1>3, Revealed
<1>5. Garbage # TagByte(ReceivedMac(wire, n, aad), 1)
  BY GarbageIsNoTag
<1> QED
  BY <1>1, <1>4, <1>5, TagWrong

LEMMA AadJudged ==
    ASSUME NEW l, Shape(l), NEW aad \in Seq(Nat), aad # sent.aad, NEW olen,
           tc_ccm_decryption_verification(wire, sent.nonce, aad, olen)
    PROVE  MessageRefused
<1>1. MessageLength(Len(wire)) = l /\ 1 \in 1..mlen
  BY LengthOfWire
<1>2. wire[l + 1] = Hide(<<"tag", SentChain, 1>>, TagPad(sent.nonce, 1))
  BY <1>1 DEF Shape
<1>3. Reveal(wire[l + 1], TagPad(sent.nonce, 1)) = <<"tag", SentChain, 1>>
  BY <1>2, Revealed
<1>4. Decrypted(wire, sent.nonce) = sent.payload
  BY WireDecrypts
<1>5. ReceivedMac(wire, sent.nonce, aad) = Mac(sent.nonce, aad, sent.payload, l, mlen)
  BY <1>1, <1>4 DEF ReceivedMac
<1>6. <<"tag", SentChain, 1>> # TagByte(Mac(sent.nonce, aad, sent.payload, l, mlen), 1)
  BY OtherTag DEF Shape
<1> QED
  BY <1>1, <1>3, <1>5, <1>6, TagWrong

LEMMA CutJudged ==
    ASSUME NEW l, Shape(l), NEW k \in 0..(Len(wire) - 1), NEW aad,
           tc_ccm_decryption_verification(SubSeq(wire, 1, k), sent.nonce, aad,
                                          Len(SubSeq(wire, 1, k)))
    PROVE  MessageRefused
<1>1. PICK c : c = SubSeq(wire, 1, k)
  OBVIOUS
<1>2. Len(c) = k /\ \A i \in 1..k : c[i] = wire[i]
  BY <1>1 DEF Shape
<1>3. /\ l \in Nat /\ mlen \in Nat /\ mlen > 0 /\ mlen < UINT
      /\ UINT \in Nat /\ k \in Nat /\ k < l + mlen
  BY CcmLimits DEF Shape
<1>4. CASE k < mlen
  <2>1. MessageLength(k) = UINT - (mlen - k)
    BY <1>4 DEF MessageLength
  <2>2. k < MessageLength(k)
    BY <1>3, <2>1
  <2> QED
    BY <1>1, <1>2, <2>2, BeyondLimits
<1>5. CASE ~(k < mlen)
  <2>1. MessageLength(k) = k - mlen
    BY <1>5 DEF MessageLength
  <2>2. PICK i \in 1..l : i = k - mlen + 1 /\ i \in 1..k
    BY <1>3, <1>5
  <2>3. c[i] = Hide(Data(sent.payload[i]), CtrPad(sent.nonce, i))
    BY <1>2, <2>2 DEF Shape
  <2>4. CtrPad(sent.nonce, i) # TagPad(sent.nonce, 1)
    BY <2>2, TagPadDiffers DEF Shape
  <2>5. Reveal(c[i], TagPad(sent.nonce, 1)) = Garbage
    BY <2>3, <2>4, Revealed
  <2>6. Garbage # TagByte(ReceivedMac(c, sent.nonce, aad), 1)
    BY GarbageIsNoTag
  <2>7. MessageLength(Len(c)) + 1 = i /\ 1 \in 1..mlen
    BY <1>2, <1>3, <2>1, <2>2
  <2>8. tc_ccm_decryption_verification(c, sent.nonce, aad, k)
    BY <1>1, <1>2
  <2> QED
    BY <2>5, <2>6, <2>7, <2>8, TagWrong
<1> QED
  BY <1>4, <1>5

(* A byte that was changed: of the payload, or of the tag. *)
LEMMA ChangedByte ==
    ASSUME NEW A, NEW w \in Seq(A), NEW i \in 1..Len(w), NEW c, c = [w EXCEPT ![i] = Changed(@)]
    PROVE  /\ Len(c) = Len(w)
           /\ c[i] = Changed(w[i])
           /\ \A j \in 1..Len(w) : j # i => c[j] = w[j]
<1>1. PICK e : e = Changed(w[i])
  OBVIOUS
<1>2. c = [w EXCEPT ![i] = e]
  BY <1>1
<1>3. PICK B : B = A \cup {e}
  OBVIOUS
<1>4. w \in Seq(B) /\ e \in B
  BY <1>3, WiderSeq
<1> QED
  BY <1>1, <1>2, <1>4, ExceptSeq

LEMMA ChangedHidden ==
    ASSUME NEW v, NEW pad
    PROVE  Changed(Hide(v, pad))
             = Hide(IF Len(v) = 2 THEN Data((v[2] + 1) % BASE) ELSE Garbage, pad)
BY DEF Changed, Hide

LEMMA OtherByte ==
    ASSUME NEW x \in 0..(BASE - 1)
    PROVE  (x + 1) % BASE \in Nat /\ (x + 1) % BASE # x
<1>1. BASE \in Nat /\ BASE > 1
  BY CcmConstants
<1>2. CASE x + 1 < BASE
  <2>1. \A a \in Nat, b \in Nat : a < b => (a % b) = a
    BY Z3
  <2> QED
    BY <1>1, <1>2, <2>1
<1>3. CASE x + 1 = BASE
  <2>1. \A b \in Nat : b > 1 => (b % b) = 0
    BY Z3
  <2> QED
    BY <1>1, <1>3, <2>1
<1> QED
  BY <1>1, <1>2, <1>3

ChangedIn(c, i) ==
    /\ i \in 1..Len(wire) /\ Len(c) = Len(wire) /\ c[i] = Changed(wire[i])
    /\ \A j \in 1..Len(wire) : j # i => c[j] = wire[j]

LEMMA ChangedJudged ==
    ASSUME NEW l, Shape(l), NEW i, NEW c, ChangedIn(c, i),
           NEW olen, tc_ccm_decryption_verification(c, sent.nonce, sent.aad, olen)
    PROVE  MessageRefused
<1>1. /\ Len(wire) = l + mlen /\ MessageLength(l + mlen) = l
      /\ l \in Nat /\ mlen \in Nat /\ 1 \in 1..mlen
  BY LengthOfWire
<1>2. i \in 1..Len(wire)
  BY DEF ChangedIn
<1>3. /\ Len(c) = Len(wire) /\ c[i] = Changed(wire[i])
      /\ \A j \in 1..Len(wire) : j # i => c[j] = wire[j]
  BY DEF ChangedIn
<1>4. MessageLength(Len(c)) = l /\ Len(c) = l + mlen
  BY <1>1, <1>3
<1>5. CASE i \in 1..l
  <2>1. PICK p, n : p = sent.payload /\ n = sent.nonce
    OBVIOUS
  <2>2. p \in Seq(Nat) /\ p \in Seq(0..(BASE - 1)) /\ Len(p) = l
    BY <2>1 DEF Shape
  <2>3. p[i] \in 0..(BASE - 1)
    BY <1>5, <2>2, ElementOfSeq
  <2>4. PICK x \in Nat : x = (p[i] + 1) % BASE /\ x # p[i]
    BY <2>3, OtherByte
  <2>5. PICK q \in Seq(Nat) : /\ Len(q) = l /\ q[i] = x
                              /\ \A j \in 1..l : j # i => q[j] = p[j]
    <3>1. PICK e : e = [p EXCEPT ![i] = x]
      OBVIOUS
    <3>2. /\ e \in Seq(Nat) /\ Len(e) = l
          /\ \A j \in 1..l : e[j] = IF j = i THEN x ELSE p[j]
      BY <1>5, <2>2, <3>1, ExceptSeq
    <3> QED
      BY <1>5, <3>2
  <2>6. c[i] = Hide(Data(x), CtrPad(n, i))
    <3>1. wire[i] = Hide(Data(p[i]), CtrPad(n, i))
      BY <1>5, <2>1 DEF Shape
    <3>2. Len(Data(p[i])) = 2 /\ Data(p[i])[2] = p[i]
      BY DEF Data
    <3>3. Changed(Hide(Data(p[i]), CtrPad(n, i))) = Hide(Data(x), CtrPad(n, i))
      BY <2>4, <3>2, ChangedHidden
    <3> QED
      BY <1>3, <3>1, <3>3
  <2>7. \A j \in 1..l : c[j] = Hide(Data(q[j]), CtrPad(n, j))
    <3> TAKE j \in 1..l
    <3>1. CASE j = i
      BY <2>5, <2>6, <3>1
    <3>2. CASE j # i
      <4>1. c[j] = wire[j] /\ q[j] = p[j]
        BY <1>1, <1>3, <2>5, <3>2
      <4>2. wire[j] = Hide(Data(p[j]), CtrPad(n, j))
        BY <2>1 DEF Shape
      <4> QED
        BY <4>1, <4>2
    <3> QED
      BY <3>1, <3>2
  <2>8. Decrypted(c, sent.nonce) = q
    BY <1>4, <2>1, <2>5, <2>7, DecryptedBytes
  <2>9. q # sent.payload
    BY <1>5, <2>1, <2>4, <2>5
  <2>10. ReceivedMac(c, sent.nonce, sent.aad) = Mac(sent.nonce, sent.aad, q, l, mlen)
    BY <1>4, <2>8 DEF ReceivedMac
  <2>11. sent.nonce \in NonceBytes /\ sent.aad \in Seq(Nat)
    BY DEF Shape
  <2>12. <<"tag", SentChain, 1>> # TagByte(ReceivedMac(c, sent.nonce, sent.aad), 1)
    BY <2>5, <2>9, <2>10, <2>11, OtherTag
  <2>13. c[l + 1] = Hide(<<"tag", SentChain, 1>>, TagPad(sent.nonce, 1))
    <3>1. wire[l + 1] = Hide(<<"tag", SentChain, 1>>, TagPad(sent.nonce, 1))
      BY <1>1 DEF Shape
    <3>2. l + 1 \in 1..Len(wire) /\ l + 1 # i
      BY <1>1, <1>5
    <3> QED
      BY <1>3, <3>1, <3>2
  <2>14. Reveal(c[l + 1], TagPad(sent.nonce, 1)) = <<"tag", SentChain, 1>>
    BY <2>13, Revealed
  <2> QED
    BY <1>1, <1>4, <2>12, <2>14, TagWrong
<1>6. CASE i \notin 1..l
  <2>1. PICK k \in 1..mlen : i = l + k
    <3>1. i - l \in 1..mlen /\ i = l + (i - l)
      BY <1>1, <1>2, <1>6
    <3> QED
      BY <3>1
  <2>2. wire[i] = Hide(<<"tag", SentChain, k>>, TagPad(sent.nonce, k))
    BY <2>1 DEF Shape
  <2>3. c[l + k] = Hide(Garbage, TagPad(sent.nonce, k))
    <3>1. Len(<<"tag", SentChain, k>>) # 2
      OBVIOUS
    <3>2. Changed(Hide(<<"tag", SentChain, k>>, TagPad(sent.nonce, k)))
            = Hide(Garbage, TagPad(sent.nonce, k))
      BY <3>1, ChangedHidden
    <3> QED
      BY <1>3, <2>1, <2>2, <3>2
  <2>4. Reveal(c[l + k], TagPad(sent.nonce, k)) = Garbage
    BY <2>3, Revealed
  <2>5. Garbage # TagByte(ReceivedMac(c, sent.nonce, sent.aad), k)
    BY GarbageIsNoTag
  <2> QED
    BY <1>4, <2>4, <2>5, TagWrong
<1> QED
  BY <1>5, <1>6

-----------------------------------------------------------------------------
LEMMA ExceptIsChanged ==
    ASSUME NEW l, Shape(l), NEW i \in DOMAIN wire
    PROVE  ChangedIn([wire EXCEPT ![i] = Changed(@)], i)
<1>1. PICK A : wire \in Seq(A)
  BY DEF Shape
<1>2. i \in 1..Len(wire)
  BY <1>1
<1>3. PICK c : c = [wire EXCEPT ![i] = Changed(@)]
  OBVIOUS
<1>4. ChangedIn(c, i)
  BY <1>1, <1>2, <1>3, ChangedByte DEF ChangedIn
<1> QED
  BY <1>3, <1>4

LEMMA CcmInvInit == CcmInit => CcmInv
<1> SUFFICES ASSUME CcmInit PROVE CcmInv
  OBVIOUS
<1>1. mlen \in 0..MAX_MAC /\ ~(mlen > 0)
  BY CcmConstants DEF CcmInit
<1>2. wire = <<>> /\ fate = "none"
  BY DEF CcmInit
<1> QED
  BY <1>1, <1>2 DEF CcmInv, IntactIsAccepted, AlteredIsRefused

LEMMA ConfigureKeepsInv ==
    ASSUME CcmInv, Configure
    PROVE  CcmInv'
<1>1. PICK n \in Nonces, nlen \in {NONCE_SIZE, NONCE_SIZE + 1}, m \in MacLengths :
         tc_ccm_config(n, nlen, m)
  BY DEF Configure
<1>2. wire = <<>> /\ wire' = <<>> /\ fate = "none" /\ fate' = "none"
  BY <1>1 DEF Configure, CcmInv, tc_ccm_config
<1>3. mlen' \in 0..MAX_MAC /\ (mlen' > 0 => ccm_nonce' \in Nonces)
  <2>1. CASE nlen = NONCE_SIZE /\ m \in MIN_MAC..MAX_MAC /\ m % 2 = 0
    <3>1. ccm_nonce' = n /\ mlen' = m
      BY <1>1, <2>1 DEF tc_ccm_config
    <3> QED
      BY <2>1, <3>1, CcmConstants
  <2>2. CASE ~(nlen = NONCE_SIZE /\ m \in MIN_MAC..MAX_MAC /\ m % 2 = 0)
    <3>1. ccm_nonce' = ccm_nonce /\ mlen' = mlen
      BY <1>1, <2>2 DEF tc_ccm_config
    <3> QED
      BY <3>1 DEF CcmInv
  <2> QED
    BY <2>1, <2>2
<1> QED
  BY <1>2, <1>3 DEF CcmInv, IntactIsAccepted, AlteredIsRefused

LEMMA SendKeepsInv ==
    ASSUME CcmInv, Send
    PROVE  CcmInv'
<1>1. PICK p \in Payloads, a \in AssociatedData :
         \E olen \in {Len(p) + mlen - 1, Len(p) + mlen} : tc_ccm_generation_encryption(p, a, olen)
  BY DEF Send
<1>2. PICK olen \in {Len(p) + mlen - 1, Len(p) + mlen} : tc_ccm_generation_encryption(p, a, olen)
  BY <1>1
<1>3. /\ wire = <<>> /\ mlen > 0 /\ mlen' = mlen /\ ccm_nonce' = ccm_nonce /\ fate' = "none"
      /\ mlen \in 0..MAX_MAC /\ ccm_nonce \in Nonces
  BY <1>2 DEF Send, CcmInv, tc_ccm_generation_encryption
<1>4. IF wire' = <<>> THEN fate' = "none" ELSE OnTheWire'
  <2>1. CASE \/ Len(a) >= TC_CCM_AAD_MAX_BYTES
             \/ Len(p) >= TC_CCM_PAYLOAD_MAX_BYTES
             \/ olen < Len(p) + mlen
    <3>1. wire' = wire
      BY <1>2, <2>1 DEF tc_ccm_generation_encryption
    <3> QED
      BY <1>3, <3>1
  <2>2. CASE ~(\/ Len(a) >= TC_CCM_AAD_MAX_BYTES
               \/ Len(p) >= TC_CCM_PAYLOAD_MAX_BYTES
               \/ olen < Len(p) + mlen)
    <3>1. /\ wire' = Sealed(p, a, ccm_nonce, mlen)
          /\ sent' = [payload |-> p, aad |-> a, nonce |-> ccm_nonce]
      BY <1>2, <2>2 DEF tc_ccm_generation_encryption
    <3>2. p \in Seq(Nat) /\ a \in Seq(Nat)
      BY MessageBytes
    <3>3. Len(p) < TC_CCM_PAYLOAD_MAX_BYTES /\ Len(a) < TC_CCM_AAD_MAX_BYTES
      BY <2>2, <3>2, CcmLimits
    <3>4. mlen' \in 1..MAX_MAC
      BY <1>3, CcmConstants
    <3>5. sent'.payload = p /\ sent'.aad = a /\ sent'.nonce = ccm_nonce
      BY <3>1
    <3>6. OnTheWire'
      BY <1>3, <3>1, <3>3, <3>4, <3>5 DEF OnTheWire
    <3> QED
      BY <1>3, <3>6
  <2> QED
    BY <2>1, <2>2
<1> QED
  BY <1>3, <1>4 DEF CcmInv, IntactIsAccepted, AlteredIsRefused

(* What a delivery leaves as it was, and how it is judged. *)
LEMMA DeliveryKeeps ==
    ASSUME NEW how, NEW c, NEW n, NEW aad, Deliver(how, c, n, aad)
    PROVE  /\ tc_ccm_decryption_verification(c, n, aad, Len(c)) /\ fate' = how
           /\ ccm_nonce' = ccm_nonce /\ mlen' = mlen /\ sent' = sent /\ wire' = wire
BY DEF Deliver, tc_ccm_decryption_verification

LEMMA ReceiveJudged ==
    ASSUME NEW l, Shape(l), Receive
    PROVE  /\ ccm_nonce' = ccm_nonce /\ mlen' = mlen /\ sent' = sent /\ wire' = wire
           /\ IntactIsAccepted' /\ AlteredIsRefused'
<1>1. CASE Deliver("intact", wire, sent.nonce, sent.aad)
  <2>1. tc_ccm_decryption_verification(wire, sent.nonce, sent.aad, Len(wire)) /\ fate' = "intact"
        /\ ccm_nonce' = ccm_nonce /\ mlen' = mlen /\ sent' = sent /\ wire' = wire
    BY <1>1, DeliveryKeeps
  <2>2. IF Len(wire) < TC_CCM_PAYLOAD_MAX_BYTES
        THEN verdict' = "SUCCESS" /\ opened' = sent.payload
        ELSE verdict' = "FAIL"
    BY <2>1, IntactJudged
  <2> QED
    BY <2>1, <2>2 DEF IntactIsAccepted, AlteredIsRefused
<1>2. ASSUME NEW how, NEW c, NEW n, NEW aad, Deliver(how, c, n, aad), how # "intact", MessageRefused
      PROVE  /\ ccm_nonce' = ccm_nonce /\ mlen' = mlen /\ sent' = sent /\ wire' = wire
             /\ IntactIsAccepted' /\ AlteredIsRefused'
  <2>1. fate' = how /\ ccm_nonce' = ccm_nonce /\ mlen' = mlen /\ sent' = sent /\ wire' = wire
    BY <1>2, DeliveryKeeps
  <2> QED
    BY <1>2, <2>1 DEF IntactIsAccepted, AlteredIsRefused, MessageRefused
<1>3. CASE \E i \in DOMAIN wire :
              Deliver("changed", [wire EXCEPT ![i] = Changed(@)], sent.nonce, sent.aad)
  <2>1. PICK i \in DOMAIN wire :
           Deliver("changed", [wire EXCEPT ![i] = Changed(@)], sent.nonce, sent.aad)
    BY <1>3
  <2>2. PICK c : c = [wire EXCEPT ![i] = Changed(@)]
    OBVIOUS
  <2>3. Deliver("changed", c, sent.nonce, sent.aad) /\ ChangedIn(c, i)
    BY <2>1, <2>2, ExceptIsChanged
  <2>4. tc_ccm_decryption_verification(c, sent.nonce, sent.aad, Len(c))
    BY <2>3, DeliveryKeeps
  <2>5. MessageRefused
    BY <2>3, <2>4, ChangedJudged
  <2> QED
    BY <1>2, <2>3, <2>5
<1>4. CASE \E k \in 0..(Len(wire) - 1) :
              Deliver("cut", SubSeq(wire, 1, k), sent.nonce, sent.aad)
  <2>1. PICK k \in 0..(Len(wire) - 1) :
           Deliver("cut", SubSeq(wire, 1, k), sent.nonce, sent.aad)
    BY <1>4
  <2>2. tc_ccm_decryption_verification(SubSeq(wire, 1, k), sent.nonce, sent.aad,
                                       Len(SubSeq(wire, 1, k)))
    BY <2>1, DeliveryKeeps
  <2>3. MessageRefused
    BY <2>2, CutJudged
  <2> QED
    BY <1>2, <2>1, <2>3
<1>5. CASE \E a \in AssociatedData \ {sent.aad} : Deliver("aad", wire, sent.nonce, a)
  <2>1. PICK a \in AssociatedData \ {sent.aad} : Deliver("aad", wire, sent.nonce, a)
    BY <1>5
  <2>2. tc_ccm_decryption_verification(wire, sent.nonce, a, Len(wire))
    BY <2>1, DeliveryKeeps
  <2>3. a \in Seq(Nat) /\ a # sent.aad
    BY MessageBytes
  <2>4. MessageRefused
    BY <2>2, <2>3, AadJudged
  <2> QED
    BY <1>2, <2>1, <2>4
<1>6. CASE \E n \in Nonces \ {sent.nonce} : Deliver("nonce", wire, n, sent.aad)
  <2>1. PICK n \in Nonces \ {sent.nonce} : Deliver("nonce", wire, n, sent.aad)
    BY <1>6
  <2>2. tc_ccm_decryption_verification(wire, n, sent.aad, Len(wire))
    BY <2>1, DeliveryKeeps
  <2>3. n # sent.nonce
    OBVIOUS
  <2>4. MessageRefused
    BY <2>2, <2>3, NonceJudged
  <2> QED
    BY <1>2, <2>1, <2>4
<1> QED
  BY <1>1, <1>3, <1>4, <1>5, <1>6 DEF Receive

LEMMA ReceiveKeepsInv ==
    ASSUME CcmInv, Receive
    PROVE  CcmInv'
<1>1. OnTheWire /\ wire # <<>>
  BY DEF CcmInv, Receive
<1>2. PICK l : Shape(l)
  BY <1>1, WireShape
<1>3. /\ ccm_nonce' = ccm_nonce /\ mlen' = mlen /\ sent' = sent /\ wire' = wire
      /\ IntactIsAccepted' /\ AlteredIsRefused'
  BY <1>2, ReceiveJudged
<1>4. OnTheWire'
  BY <1>1, <1>3 DEF OnTheWire
<1> QED
  BY <1>1, <1>3, <1>4 DEF CcmInv

LEMMA CcmInvStep == CcmInv /\ [CcmNext]_ccmVars => CcmInv'
<1> SUFFICES ASSUME CcmInv, [CcmNext]_ccmVars PROVE CcmInv'
  OBVIOUS
<1>1. CASE Configure
  BY <1>1, ConfigureKeepsInv
<1>2. CASE Send
  BY <1>2, SendKeepsInv
<1>3. CASE Receive
  BY <1>3, ReceiveKeepsInv
<1>4. CASE UNCHANGED ccmVars
  BY <1>4 DEF ccmVars, CcmInv, OnTheWire, IntactIsAccepted, AlteredIsRefused
<1> QED
  BY <1>1, <1>2, <1>3, <1>4 DEF CcmNext

LEMMA CcmInvImpliesPadsOnce == CcmInv => PadsOnce
<1> SUFFICES ASSUME CcmInv PROVE PadsOnce
  OBVIOUS
<1>1. CASE wire = <<>>
  <2>1. DOMAIN wire = {}
    BY <1>1
  <2> QED
    BY <2>1 DEF PadsOnce
<1>2. CASE wire # <<>>
  <2>1. OnTheWire
    BY <1>2 DEF CcmInv
  <2>2. PICK l : Shape(l)
    BY <2>1, WireShape
  <2>3. /\ l \in Nat /\ l < TC_CCM_PAYLOAD_MAX_BYTES /\ mlen \in Nat
        /\ SealedParts(wire, sent.payload, sent.nonce, l, mlen, SentChain)
    BY <2>2 DEF Shape, SealedParts
  <2>4. \A i, j \in DOMAIN wire : wire[i].pad = wire[j].pad => i = j
    BY <2>3, PadsDiffer
  <2> QED
    BY <2>4 DEF PadsOnce
<1> QED
  BY <1>1, <1>2

LEMMA CcmInvImpliesAuthentic == CcmInv => Authentic
<1> SUFFICES ASSUME CcmInv PROVE Authentic
  OBVIOUS
<1>1. MacsTellMessagesApart
  <2> SUFFICES ASSUME NEW p \in Payloads, NEW a \in AssociatedData, NEW n \in Nonces,
                      wire # <<>>,
                      Mac(n, a, p, Len(p), mlen)
                        = Mac(sent.nonce, sent.aad, sent.payload, Len(sent.payload), mlen)
               PROVE  p = sent.payload /\ a = sent.aad /\ n = sent.nonce
    BY DEF MacsTellMessagesApart
  <2>1. OnTheWire
    BY DEF CcmInv
  <2>2. PICK l : Shape(l)
    BY <2>1, WireShape
  <2>3. Messages(n, a, p, sent.nonce, sent.aad, sent.payload, mlen)
    BY <2>2, MessageBytes DEF Messages, Shape
  <2> QED
    BY <2>3, MacUndone
<1> QED
  BY <1>1 DEF CcmInv, Authentic

LEMMA CcmInvariant == CcmSpec => []CcmInv
<1> QED
  BY CcmInvInit, CcmInvStep, PTL DEF CcmSpec

(***************************************************************************)
(* In CCM no byte of a message, of its payload or of its tag, is hidden by *)
(* the pad of another, whatever the sizes of blocks, nonces and tags       *)
(* (ccm_mode.c:121-125, 188).                                              *)
(***************************************************************************)
THEOREM CcmPadsNeverRepeat == CcmSpec => []PadsOnce
BY CcmInvariant, CcmInvImpliesPadsOnce, PTL

(***************************************************************************)
(* What is received is what was sent or is refused, and the MACs of two    *)
(* different messages differ: of any payload, associated data and nonce,   *)
(* altered in one byte, cut at any length, or taken with other associated  *)
(* data or another nonce (ccm_mode.c:64-80, 163-168, 212-213, 261-266).    *)
(***************************************************************************)
THEOREM CcmIsAuthentic == CcmSpec => []Authentic
BY CcmInvariant, CcmInvImpliesAuthentic, PTL

-----------------------------------------------------------------------------
(***************************************************************************)
(* Ascon's cipher.  What is absorbed can be taken back, byte by byte, from *)
(* the state it leaves: the places at and after the next one to be used    *)
(* are zero, and only where absorbing begins is there a key or a           *)
(* separation in the state and no byte of data.                            *)
(***************************************************************************)
RatePlaces == 0..(ASCON_AEAD_RATE - 1)

AeadInputs == [x0 : [RatePlaces -> Nat], one : BOOLEAN, key : {{}, {3, 4}}]
AeadStates == [chain : Seq(AeadInputs), in : AeadInputs]

(* Absorbing, before its next byte. *)
Clean(r) ==
    /\ r \in [state : AeadStates, at : RatePlaces]
    /\ \A p \in RatePlaces : p >= r.at => r.state.in.x0[p] = 0

Marked(r) == r.at = 0 /\ (r.state.in.one \/ r.state.in.key # {})

LEMMA AeadSizes ==
    /\ ASCON_AEAD_RATE \in Nat /\ ASCON_AEAD_RATE > 0
    /\ ByteValues \in Nat /\ ByteValues > 1 /\ PAD_BYTE \in Nat /\ PAD_BYTE > 0
    /\ TAG_BYTES \in Nat /\ TAG_BYTES > 0 /\ TAG_BYTES = 2 * ASCON_AEAD_RATE
    /\ CRYPTO_ABYTES \in Nat /\ CRYPTO_ABYTES >= TAG_BYTES
BY AeadAssumption DEF TAG_BYTES

LEMMA UntouchedInput ==
    /\ Untouched \in AeadInputs /\ Untouched.one = FALSE /\ Untouched.key = {}
    /\ \A p \in RatePlaces : Untouched.x0[p] = 0
BY DEF Untouched, AeadInputs, RatePlaces

LEMMA SameInput ==
    ASSUME NEW i \in AeadInputs, NEW j \in AeadInputs, i.x0 = j.x0, i.one = j.one, i.key = j.key
    PROVE  i = j
<1>1. i = [x0 |-> i.x0, one |-> i.one, key |-> i.key]
  BY DEF AeadInputs
<1>2. j = [x0 |-> j.x0, one |-> j.one, key |-> j.key]
  BY DEF AeadInputs
<1> QED
  BY <1>1, <1>2

LEMMA SameState ==
    ASSUME NEW s \in AeadStates, NEW t \in AeadStates, s.chain = t.chain, s.in = t.in
    PROVE  s = t
<1>1. s = [chain |-> s.chain, in |-> s.in]
  BY DEF AeadStates
<1>2. t = [chain |-> t.chain, in |-> t.in]
  BY DEF AeadStates
<1> QED
  BY <1>1, <1>2

LEMMA PutByte ==
    ASSUME NEW s \in AeadStates, NEW p \in RatePlaces, NEW v \in Nat
    PROVE  /\ Put(s, p, v) \in AeadStates
           /\ Put(s, p, v).chain = s.chain
           /\ Put(s, p, v).in.one = s.in.one /\ Put(s, p, v).in.key = s.in.key
           /\ \A q \in RatePlaces : Put(s, p, v).in.x0[q] = IF q = p THEN v ELSE s.in.x0[q]
<1> DEFINE y == [s.in.x0 EXCEPT ![p] = v]
           i == [s.in EXCEPT !.x0 = y]
<1>1. s.in \in AeadInputs /\ s.chain \in Seq(AeadInputs)
  BY DEF AeadStates
<1>2. s.in.x0 \in [RatePlaces -> Nat]
  BY <1>1 DEF AeadInputs
<1>3. y \in [RatePlaces -> Nat] /\ \A q \in RatePlaces : y[q] = IF q = p THEN v ELSE s.in.x0[q]
  BY <1>2
<1> HIDE DEF y
<1>4. i \in AeadInputs /\ i.x0 = y /\ i.one = s.in.one /\ i.key = s.in.key
  BY <1>1, <1>3 DEF AeadInputs
<1> HIDE DEF i
<1>5. Put(s, p, v) = [s EXCEPT !.in = i]
  BY DEF Put, i, y, AeadStates, AeadInputs
<1>6. [s EXCEPT !.in = i] \in AeadStates /\ [s EXCEPT !.in = i].chain = s.chain
      /\ [s EXCEPT !.in = i].in = i
  BY <1>4 DEF AeadStates
<1> QED
  BY <1>3, <1>4, <1>5, <1>6

LEMMA PutUndone ==
    ASSUME NEW s \in AeadStates, NEW t \in AeadStates, NEW p \in RatePlaces, NEW v \in Nat, NEW w \in Nat,
           s.in.x0[p] = 0, t.in.x0[p] = 0, Put(s, p, v) = Put(t, p, w)
    PROVE  s = t /\ v = w
<1>1. s.chain = t.chain /\ s.in.one = t.in.one /\ s.in.key = t.in.key
  BY PutByte
<1>2. \A q \in RatePlaces : (IF q = p THEN v ELSE s.in.x0[q]) = (IF q = p THEN w ELSE t.in.x0[q])
  <2>1. \A q \in RatePlaces : Put(s, p, v).in.x0[q] = IF q = p THEN v ELSE s.in.x0[q]
    BY PutByte
  <2>2. \A q \in RatePlaces : Put(t, p, w).in.x0[q] = IF q = p THEN w ELSE t.in.x0[q]
    BY PutByte
  <2> QED
    BY <2>1, <2>2
<1>3. v = w /\ \A q \in RatePlaces : s.in.x0[q] = t.in.x0[q]
  BY <1>2
<1>4. s.in \in AeadInputs /\ t.in \in AeadInputs
  BY DEF AeadStates
<1>5. s.in.x0 \in [RatePlaces -> Nat] /\ t.in.x0 \in [RatePlaces -> Nat]
  BY <1>4 DEF AeadInputs
<1>6. s.in.x0 = t.in.x0
  BY <1>3, <1>5, SameFunction
<1>7. s.in = t.in
  BY <1>1, <1>4, <1>6 DEF AeadInputs
<1> QED
  BY <1>1, <1>3, <1>7 DEF AeadStates

LEMMA LastTaken ==
    ASSUME NEW S, NEW c \in Seq(S), NEW d \in Seq(S), NEW x \in S, NEW y \in S,
           Append(c, x) = Append(d, y)
    PROVE  c = d /\ x = y
<1>1. PICK m \in Nat : m = Len(c)
  OBVIOUS
<1>2. PICK n \in Nat : n = Len(d)
  OBVIOUS
<1>3. Len(Append(c, x)) = m + 1 /\ Len(Append(d, y)) = n + 1
  BY <1>1, <1>2
<1>4. m = n
  BY <1>3
<1>5. Append(c, x)[m + 1] = x /\ Append(d, y)[m + 1] = y
  BY <1>1, <1>2, <1>4
<1>6. \A i \in 1..m : Append(c, x)[i] = c[i] /\ Append(d, y)[i] = d[i]
  BY <1>1, <1>2, <1>4
<1>7. c \in [1..m -> S] /\ d \in [1..m -> S] /\ \A i \in 1..m : c[i] = d[i]
  BY <1>1, <1>2, <1>4, <1>6
<1>8. c = d
  BY <1>7, SameFunction
<1> QED
  BY <1>5, <1>8

LEMMA PermutedState ==
    ASSUME NEW s \in AeadStates
    PROVE  /\ AsconPermute(s) \in AeadStates /\ AsconPermute(s).in = Untouched
           /\ AsconPermute(s).chain = Append(s.chain, s.in)
           /\ AsconPermute(s).chain # <<>>
           /\ \A t \in AeadStates : AsconPermute(s) = AsconPermute(t) => s = t
<1>1. s.chain \in Seq(AeadInputs) /\ s.in \in AeadInputs
  BY DEF AeadStates
<1>2. Append(s.chain, s.in) \in Seq(AeadInputs) /\ Append(s.chain, s.in) # <<>>
  BY <1>1
<1>3. AsconPermute(s).in = Untouched /\ AsconPermute(s).chain = Append(s.chain, s.in)
  BY DEF AsconPermute
<1>4. AsconPermute(s) \in AeadStates
  BY <1>2, UntouchedInput DEF AsconPermute, AeadStates
<1>5. ASSUME NEW t \in AeadStates, AsconPermute(s) = AsconPermute(t) PROVE s = t
  <2>1. t.chain \in Seq(AeadInputs) /\ t.in \in AeadInputs
    BY DEF AeadStates
  <2>2. AsconPermute(t).chain = Append(t.chain, t.in)
    BY DEF AsconPermute
  <2>3. Append(s.chain, s.in) = Append(t.chain, t.in)
    BY <1>3, <1>5, <2>2
  <2>4. s.chain = t.chain /\ s.in = t.in
    <3>1. PICK c \in Seq(AeadInputs), x \in AeadInputs : c = s.chain /\ x = s.in
      BY <1>1
    <3>2. PICK d \in Seq(AeadInputs), y \in AeadInputs : d = t.chain /\ y = t.in
      BY <2>1
    <3>3. Append(c, x) = Append(d, y)
      BY <2>3, <3>1, <3>2
    <3>4. c = d /\ x = y
      BY <3>3, LastTaken
    <3> QED
      BY <3>1, <3>2, <3>4
  <2> QED
    BY <2>4 DEF AeadStates
<1> QED
  BY <1>2, <1>3, <1>4, <1>5

-----------------------------------------------------------------------------
LEMMA ByteAbsorbed ==
    ASSUME NEW r, Clean(r), NEW v \in Nat
    PROVE  Clean(AbsorbByte(r, v)) /\ ~Marked(AbsorbByte(r, v))
<1> DEFINE t == Put(r.state, r.at, v)
           w == AbsorbByte(r, v)
<1>1. r.state \in AeadStates /\ r.at \in RatePlaces /\ r.at \in Nat
  BY AeadSizes DEF Clean, RatePlaces
<1>2. /\ t \in AeadStates
      /\ \A q \in RatePlaces : t.in.x0[q] = IF q = r.at THEN v ELSE r.state.in.x0[q]
  BY <1>1, PutByte
<1> HIDE DEF t
<1>3. CASE r.at = ASCON_AEAD_RATE - 1
  <2>1. w = [state |-> AsconPermute(t), at |-> 0]
    BY <1>3 DEF AbsorbByte, t
  <2>2. 0 \in RatePlaces
    BY AeadSizes DEF RatePlaces
  <2>3. AsconPermute(t) \in AeadStates /\ AsconPermute(t).in = Untouched
    BY <1>2, PermutedState
  <2> HIDE DEF w
  <2>4. w.at = 0 /\ w.state = AsconPermute(t) /\ w \in [state : AeadStates, at : RatePlaces]
    BY <2>1, <2>2, <2>3
  <2>5. Clean(w)
    BY <2>3, <2>4, UntouchedInput DEF Clean
  <2>6. ~Marked(w)
    BY <2>3, <2>4, UntouchedInput DEF Marked
  <2> QED
    BY <2>5, <2>6 DEF w
<1>4. CASE r.at # ASCON_AEAD_RATE - 1
  <2>1. w = [state |-> t, at |-> r.at + 1]
    BY <1>4 DEF AbsorbByte, t
  <2>2. r.at + 1 \in RatePlaces /\ r.at + 1 # 0
    BY <1>1, <1>4, AeadSizes DEF RatePlaces
  <2> HIDE DEF w
  <2>3. w.at = r.at + 1 /\ w.state = t /\ w \in [state : AeadStates, at : RatePlaces]
    BY <1>2, <2>1, <2>2
  <2>4. ASSUME NEW p \in RatePlaces, p >= r.at + 1 PROVE t.in.x0[p] = 0
    <3>1. p # r.at /\ p >= r.at
      BY <1>1, <2>4 DEF RatePlaces
    <3>2. r.state.in.x0[p] = 0
      BY <3>1 DEF Clean
    <3> QED
      BY <1>2, <3>1, <3>2
  <2>5. Clean(w)
    BY <2>3, <2>4 DEF Clean
  <2>6. ~Marked(w)
    BY <2>2, <2>3 DEF Marked
  <2> QED
    BY <2>5, <2>6 DEF w
<1> QED
  BY <1>3, <1>4

LEMMA ByteUndone ==
    ASSUME NEW r, Clean(r), NEW v \in Nat, NEW s, Clean(s), NEW w \in Nat,
           AbsorbByte(r, v) = AbsorbByte(s, w)
    PROVE  r = s /\ v = w
<1> DEFINE t == Put(r.state, r.at, v)
           u == Put(s.state, s.at, w)
<1>1. /\ r.state \in AeadStates /\ r.at \in RatePlaces /\ r.at \in Nat /\ r.state.in.x0[r.at] = 0
      /\ s.state \in AeadStates /\ s.at \in RatePlaces /\ s.at \in Nat /\ s.state.in.x0[s.at] = 0
  BY AeadSizes DEF Clean, RatePlaces
<1>2. t \in AeadStates /\ u \in AeadStates
  BY <1>1, PutByte
<1>3. /\ AbsorbByte(r, v).at = IF r.at = ASCON_AEAD_RATE - 1 THEN 0 ELSE r.at + 1
      /\ AbsorbByte(s, w).at = IF s.at = ASCON_AEAD_RATE - 1 THEN 0 ELSE s.at + 1
  BY DEF AbsorbByte
<1>4. r.at = s.at
  BY <1>1, <1>3
<1>5. /\ AbsorbByte(r, v).state = IF r.at = ASCON_AEAD_RATE - 1 THEN AsconPermute(t) ELSE t
      /\ AbsorbByte(s, w).state = IF s.at = ASCON_AEAD_RATE - 1 THEN AsconPermute(u) ELSE u
  BY DEF AbsorbByte
<1> HIDE DEF t, u
<1>6. t = u
  BY <1>2, <1>4, <1>5, PermutedState
<1>7. r.state = s.state /\ v = w
  BY <1>1, <1>4, <1>6, PutUndone DEF t, u
<1>8. r = s
  BY <1>4, <1>7 DEF Clean
<1> QED
  BY <1>7, <1>8
-----------------------------------------------------------------------------
LEMMA AbsorbRuns ==
    ASSUME NEW s, NEW data \in Seq(Nat), NEW n \in Nat, n = Len(data)
    PROVE  \E u : /\ Runs("absorb", <<>>, [state |-> s, at |-> 0], data, u, n)
                  /\ AbsorbAll(s, data) = u[n]
<1> DEFINE t == [state |-> s, at |-> 0]
           Chain(g) == g = [x \in SUBSET (1..n) |->
                             IF x = {} THEN t ELSE AbsorbByte(g[x \ {Max(x)}], data[Max(x)])]
           f == CHOOSE g : Chain(g)
<1>1. PICK g : Folded("absorb", <<>>, t, data, g, n)
  BY FoldExists
<1>2. Chain(g)
  BY <1>1 DEF Folded, FoldStep
<1>3. Chain(f)
  BY <1>2
<1>4. DOMAIN data = 1..n
  OBVIOUS
<1>5. AbsorbAll(s, data) = f[1..n]
  BY <1>4 DEF AbsorbAll, FoldLeft, MapThenFoldSet
<1>6. Folded("absorb", <<>>, t, data, f, n)
  BY <1>3 DEF Folded, FoldStep
<1> HIDE DEF f, t
<1>7. PICK u : Runs("absorb", <<>>, t, data, u, n) /\ u[n] = f[1..n]
  BY <1>6, FoldRuns
<1> QED
  BY <1>5, <1>7 DEF t

(* What absorbing begins with. *)
Begins(r) == Clean(r) /\ Marked(r)

LEMMA RunClean ==
    ASSUME NEW t, Begins(t), NEW data \in Seq(Nat), NEW n \in Nat, n = Len(data),
           NEW u, Runs("absorb", <<>>, t, data, u, n)
    PROVE  \A k \in 0..n : Clean(u[k]) /\ (k # 0 => ~Marked(u[k]))
<1> DEFINE S == {k \in Nat : k <= n => Clean(u[k]) /\ (k # 0 => ~Marked(u[k]))}
<1>1. 0 \in S
  BY DEF Runs, Begins
<1>2. ASSUME NEW k \in Nat, k \in S PROVE k + 1 \in S
  <2>1. CASE k + 1 <= n
    <3>1. k \in 0..(n - 1) /\ k + 1 \in 1..n /\ data[k + 1] \in Nat
      BY <2>1
    <3>2. u[k + 1] = AbsorbByte(u[k], data[k + 1])
      BY <3>1 DEF Runs, FoldStep
    <3>3. Clean(u[k])
      BY <1>2, <3>1
    <3>4. Clean(u[k + 1]) /\ ~Marked(u[k + 1])
      BY <3>1, <3>2, <3>3, ByteAbsorbed
    <3> QED
      BY <3>4
  <2> QED
    BY <2>1
<1> HIDE DEF S
<1>3. Nat \subseteq S
  BY <1>1, <1>2, SetInduction
<1> QED
  BY <1>3 DEF S

(* Two runs that end alike are the same. *)
LEMMA RunsUndone ==
    ASSUME NEW t, Begins(t), NEW data \in Seq(Nat), NEW n \in Nat, n = Len(data),
           NEW u, Runs("absorb", <<>>, t, data, u, n),
           NEW t2, Begins(t2), NEW data2 \in Seq(Nat), NEW n2 \in Nat, n2 = Len(data2),
           NEW u2, Runs("absorb", <<>>, t2, data2, u2, n2),
           u[n] = u2[n2]
    PROVE  t = t2 /\ data = data2
<1> DEFINE S == {k \in Nat : k <= n =>
                    \A m \in 0..n2 : u[k] = u2[m] =>
                        k = m /\ t = t2 /\ \A i \in 1..k : data[i] = data2[i]}
<1>1. \A k \in 0..n : Clean(u[k]) /\ (k # 0 => ~Marked(u[k]))
  BY RunClean
<1>2. \A k \in 0..n2 : Clean(u2[k]) /\ (k # 0 => ~Marked(u2[k]))
  BY RunClean
<1>3. u[0] = t /\ u2[0] = t2 /\ Marked(u[0]) /\ Marked(u2[0])
  BY DEF Runs, Begins
<1>4. 0 \in S
  <2>1. ASSUME NEW m \in 0..n2, u[0] = u2[m] PROVE m = 0 /\ t = t2
    <3>1. m = 0
      BY <1>2, <1>3, <2>1
    <3> QED
      BY <1>3, <2>1, <3>1
  <2> QED
    BY <2>1
<1>5. ASSUME NEW k \in Nat, k \in S PROVE k + 1 \in S
  <2> SUFFICES ASSUME k + 1 <= n, NEW m \in 0..n2, u[k + 1] = u2[m]
               PROVE  k + 1 = m /\ t = t2 /\ \A i \in 1..(k + 1) : data[i] = data2[i]
    OBVIOUS
  <2>1. k + 1 \in 1..n /\ k + 1 \in 0..n /\ k \in 0..(n - 1) /\ k \in 0..n /\ k <= n
        /\ data[k + 1] \in Nat
    OBVIOUS
  <2>2. m # 0
    BY <1>1, <1>3, <2>1
  <2>3. PICK j \in Nat : m = j + 1 /\ j \in 0..(n2 - 1) /\ j \in 0..n2 /\ data2[j + 1] \in Nat
    <3>1. m - 1 \in Nat /\ m = (m - 1) + 1 /\ m - 1 \in 0..(n2 - 1) /\ m - 1 \in 0..n2
          /\ data2[(m - 1) + 1] \in Nat
      BY <2>2
    <3> QED
      BY <3>1
  <2>4. u[k + 1] = AbsorbByte(u[k], data[k + 1]) /\ u2[j + 1] = AbsorbByte(u2[j], data2[j + 1])
    BY <2>1, <2>3 DEF Runs, FoldStep
  <2>5. Clean(u[k]) /\ Clean(u2[j])
    BY <1>1, <1>2, <2>1, <2>3
  <2>6. AbsorbByte(u[k], data[k + 1]) = AbsorbByte(u2[j], data2[j + 1])
    BY <2>3, <2>4
  <2>7. u[k] = u2[j] /\ data[k + 1] = data2[j + 1]
    BY <2>1, <2>3, <2>5, <2>6, ByteUndone
  <2>8. k = j /\ t = t2 /\ \A i \in 1..k : data[i] = data2[i]
    BY <1>5, <2>1, <2>3, <2>7
  <2>9. \A i \in 1..(k + 1) : i \in 1..k \/ i = k + 1
    OBVIOUS
  <2> QED
    BY <2>3, <2>7, <2>8, <2>9
<1> HIDE DEF S
<1>6. Nat \subseteq S
  BY <1>4, <1>5, SetInduction
<1>7. n = n2 /\ t = t2 /\ \A i \in 1..n : data[i] = data2[i]
  <2>1. n \in S /\ n <= n /\ n2 \in 0..n2
    BY <1>6
  <2> QED
    BY <2>1 DEF S
<1>8. data \in [1..n -> Nat] /\ data2 \in [1..n -> Nat]
  <2>1. Len(data2) = n
    BY <1>7
  <2> QED
    BY <2>1
<1> QED
  BY <1>7, <1>8, SameFunction

LEMMA EndUndone ==
    ASSUME NEW r, Clean(r)
    PROVE  /\ End(r) \in AeadStates
           /\ \A s : Clean(s) /\ End(r) = End(s) => r = s
<1>1. /\ r.state \in AeadStates /\ r.at \in RatePlaces /\ r.at \in Nat
      /\ \A p \in RatePlaces : p >= r.at => r.state.in.x0[p] = 0
  BY AeadSizes DEF Clean, RatePlaces
<1>2. PAD_BYTE \in Nat /\ PAD_BYTE > 0 /\ \A p \in RatePlaces : p \in Nat
  BY AeadSizes DEF RatePlaces
<1>3. /\ End(r) \in AeadStates
      /\ \A q \in RatePlaces : End(r).in.x0[q] = IF q = r.at THEN PAD_BYTE ELSE r.state.in.x0[q]
  BY <1>1, <1>2, PutByte DEF End
<1>4. ASSUME NEW s, Clean(s), End(r) = End(s) PROVE r = s
  <2>1. /\ s.state \in AeadStates /\ s.at \in RatePlaces /\ s.at \in Nat
        /\ \A p \in RatePlaces : p >= s.at => s.state.in.x0[p] = 0
    BY <1>4, AeadSizes DEF Clean, RatePlaces
  <2>2. \A q \in RatePlaces : End(s).in.x0[q] = IF q = s.at THEN PAD_BYTE ELSE s.state.in.x0[q]
    BY <1>2, <2>1, PutByte DEF End
  <2>3. \A q \in RatePlaces : (IF q = r.at THEN PAD_BYTE ELSE r.state.in.x0[q])
                            = (IF q = s.at THEN PAD_BYTE ELSE s.state.in.x0[q])
    BY <1>3, <1>4, <2>2
  <2>4. ~(r.at < s.at) 
    <3> SUFFICES ASSUME r.at < s.at PROVE FALSE
      OBVIOUS
    <3>1. s.at # r.at /\ r.state.in.x0[s.at] = 0
      BY <1>1, <2>1
    <3> QED
      BY <1>2, <2>1, <2>3, <3>1
  <2>5. ~(s.at < r.at)
    <3> SUFFICES ASSUME s.at < r.at PROVE FALSE
      OBVIOUS
    <3>1. s.at # r.at /\ s.state.in.x0[r.at] = 0
      BY <1>1, <2>1
    <3> QED
      BY <1>1, <1>2, <2>3, <3>1
  <2>6. r.at = s.at
    BY <1>1, <2>1, <2>4, <2>5
  <2>7. Put(r.state, r.at, PAD_BYTE) = Put(s.state, r.at, PAD_BYTE)
    BY <1>4, <2>6 DEF End
  <2>8. r.state.in.x0[r.at] = 0 /\ s.state.in.x0[r.at] = 0
    BY <1>1, <2>1, <2>6
  <2>9. r.state = s.state
    BY <1>1, <1>2, <2>1, <2>7, <2>8, PutUndone
  <2> QED
    BY <1>4, <2>6, <2>9 DEF Clean
<1> QED
  BY <1>3, <1>4

(* A state that data may be absorbed into. *)
Fresh(s) ==
    /\ s \in AeadStates /\ (s.in.one \/ s.in.key # {})
    /\ \A p \in RatePlaces : s.in.x0[p] = 0

LEMMA DataUndone ==
    ASSUME NEW s, Fresh(s), NEW data \in Seq(Nat)
    PROVE  /\ End(AbsorbAll(s, data)) \in AeadStates
           /\ \A s2, data2 : /\ Fresh(s2) /\ data2 \in Seq(Nat)
                             /\ End(AbsorbAll(s, data)) = End(AbsorbAll(s2, data2))
                             => s = s2 /\ data = data2
<1> DEFINE t(q) == [state |-> q, at |-> 0]
<1>1. \A q : Fresh(q) => Begins(t(q))
  <2>1. 0 \in RatePlaces
    BY AeadSizes DEF RatePlaces
  <2> QED
    BY <2>1 DEF Fresh, Begins, Clean, Marked
<1>2. ASSUME NEW q, Fresh(q), NEW d \in Seq(Nat) PROVE Clean(AbsorbAll(q, d))
  <2>1. PICK n \in Nat : n = Len(d)
    OBVIOUS
  <2>2. PICK u : Runs("absorb", <<>>, t(q), d, u, n) /\ AbsorbAll(q, d) = u[n]
    BY <2>1, AbsorbRuns
  <2>3. Begins(t(q)) /\ n \in 0..n
    BY <1>1, <1>2
  <2> HIDE DEF t
  <2>4. \A k \in 0..n : Clean(u[k])
    BY <2>1, <2>2, <2>3, RunClean
  <2> QED
    BY <2>2, <2>3, <2>4
<1>3. End(AbsorbAll(s, data)) \in AeadStates
  BY <1>2, EndUndone
<1>4. ASSUME NEW s2, NEW data2 \in Seq(Nat), Fresh(s2),
             End(AbsorbAll(s, data)) = End(AbsorbAll(s2, data2))
      PROVE  s = s2 /\ data = data2
  <2>1. Clean(AbsorbAll(s, data)) /\ Clean(AbsorbAll(s2, data2))
    BY <1>2, <1>4
  <2>2. AbsorbAll(s, data) = AbsorbAll(s2, data2)
    BY <1>4, <2>1, EndUndone
  <2>3. PICK n \in Nat, n2 \in Nat : n = Len(data) /\ n2 = Len(data2)
    OBVIOUS
  <2>4. PICK u : Runs("absorb", <<>>, t(s), data, u, n) /\ AbsorbAll(s, data) = u[n]
    BY <2>3, AbsorbRuns
  <2>5. PICK u2 : Runs("absorb", <<>>, t(s2), data2, u2, n2) /\ AbsorbAll(s2, data2) = u2[n2]
    BY <2>3, AbsorbRuns
  <2>6. Begins(t(s)) /\ Begins(t(s2)) /\ u[n] = u2[n2]
    BY <1>1, <1>4, <2>2, <2>4, <2>5
  <2>7. t(s) = t(s2) => s = s2
    OBVIOUS
  <2> HIDE DEF t
  <2>8. t(s) = t(s2) /\ data = data2
    BY <2>3, <2>4, <2>5, <2>6, RunsUndone
  <2> QED
    BY <2>7, <2>8
<1> QED
  BY <1>3, <1>4

-----------------------------------------------------------------------------
NonceValues == [RatePlaces -> Nat]

LEMMA NonceStands ==
    ASSUME NEW npub \in NonceValues
    PROVE  /\ Fresh(AeadStart(npub)) /\ AeadStart(npub).in = [Untouched EXCEPT !.key = {3, 4}]
           /\ AeadStart(npub).in.one = FALSE /\ AeadStart(npub).in.key = {3, 4}
           /\ \A n2 \in NonceValues : AeadStart(npub) = AeadStart(n2) => npub = n2
<1> DEFINE x(n) == [Untouched EXCEPT !.x0 = n]
           y == [Untouched EXCEPT !.key = {3, 4}]
<1>1. \A n \in NonceValues : x(n) \in AeadInputs /\ x(n).x0 = n
  BY UntouchedInput DEF AeadInputs, NonceValues
<1>2. /\ y \in AeadInputs /\ y.one = FALSE /\ y.key = {3, 4}
      /\ \A p \in RatePlaces : y.x0[p] = 0
  BY UntouchedInput DEF AeadInputs
<1>3. \A n \in NonceValues : AeadStart(n).chain = <<x(n)>> /\ AeadStart(n).in = y
  BY DEF AeadStart
<1>4. AeadStart(npub) = [chain |-> <<x(npub)>>, in |-> y]
  BY DEF AeadStart
<1> HIDE DEF x, y
<1>5. AeadStart(npub) \in AeadStates
  BY <1>1, <1>2, <1>4 DEF AeadStates
<1>6. \A n2 \in NonceValues : AeadStart(npub) = AeadStart(n2) => npub = n2
  <2> SUFFICES ASSUME NEW n2 \in NonceValues, AeadStart(npub) = AeadStart(n2) PROVE npub = n2
    OBVIOUS
  <2>1. <<x(npub)>> = <<x(n2)>>
    BY <1>3
  <2>2. x(npub) = x(n2)
    BY <2>1
  <2> QED
    BY <1>1, <2>2
<1> QED
  BY <1>2, <1>3, <1>5, <1>6 DEF Fresh, y

(* Separation can be taken back, and so can what was absorbed before it. *)
LEMMA ReadyUndone ==
    ASSUME NEW npub \in NonceValues, NEW ad \in Seq(Nat)
    PROVE  /\ Fresh(Ready(npub, ad))
           /\ \A n2 \in NonceValues, ad2 \in Seq(Nat) :
                  Ready(npub, ad) = Ready(n2, ad2) => npub = n2 /\ ad = ad2
<1> DEFINE A(n, d) == AbsorbAD(AeadStart(n), d)
<1>1. \A n \in NonceValues : /\ Fresh(AeadStart(n))
                        /\ AeadStart(n).in.one = FALSE /\ AeadStart(n).in.key = {3, 4}
  BY NonceStands
<1>2. \A n \in NonceValues, d \in Seq(Nat) : d = <<>> => A(n, d) = AeadStart(n)
  BY DEF AbsorbAD
<1>3. \A n \in NonceValues, d \in Seq(Nat) :
          d # <<>> => A(n, d) = AsconPermute(End(AbsorbAll(AeadStart(n), d)))
  BY DEF AbsorbAD
<1>4. ASSUME NEW n \in NonceValues, NEW d \in Seq(Nat)
      PROVE  /\ A(n, d) \in AeadStates /\ A(n, d).in.one = FALSE
             /\ \A p \in RatePlaces : A(n, d).in.x0[p] = 0
             /\ A(n, d).in.key = IF d = <<>> THEN {3, 4} ELSE {}
  <2>1. CASE d = <<>>
    BY <1>1, <1>2, <2>1 DEF Fresh
  <2>2. CASE d # <<>>
    <3>1. A(n, d) = AsconPermute(End(AbsorbAll(AeadStart(n), d)))
      BY <1>3, <2>2
    <3>2. End(AbsorbAll(AeadStart(n), d)) \in AeadStates
      BY <1>1, DataUndone
    <3>3. A(n, d) \in AeadStates /\ A(n, d).in = Untouched
      BY <3>1, <3>2, PermutedState
    <3> QED
      BY <2>2, <3>3, UntouchedInput
  <2> QED
    BY <2>1, <2>2
<1>5. \A n \in NonceValues, d \in Seq(Nat) : Ready(n, d) = Separate(A(n, d))
  BY DEF Ready
<1> HIDE DEF A
<1>6. ASSUME NEW s \in AeadStates
      PROVE  /\ Separate(s) \in AeadStates /\ Separate(s).in.one = TRUE
             /\ Separate(s).in.x0 = s.in.x0 /\ Separate(s).in.key = s.in.key
             /\ Separate(s).chain = s.chain
  <2>1. s.in \in AeadInputs
    BY DEF AeadStates
  <2> DEFINE i == [s.in EXCEPT !.one = TRUE]
  <2>2. i \in AeadInputs /\ i.one = TRUE /\ i.x0 = s.in.x0 /\ i.key = s.in.key
    BY <2>1 DEF AeadInputs
  <2> HIDE DEF i
  <2>3. Separate(s) = [s EXCEPT !.in = i]
    BY DEF Separate, AeadStates, i
  <2> QED
    BY <2>2, <2>3 DEF AeadStates
<1>7. Fresh(Ready(npub, ad))
  <2>1. PICK s \in AeadStates : s = A(npub, ad) /\ \A p \in RatePlaces : s.in.x0[p] = 0
    BY <1>4
  <2>2. Ready(npub, ad) = Separate(s)
    BY <1>5, <2>1
  <2> QED
    BY <1>6, <2>1, <2>2 DEF Fresh
<1>8. ASSUME NEW n2 \in NonceValues, NEW ad2 \in Seq(Nat), Ready(npub, ad) = Ready(n2, ad2)
      PROVE  npub = n2 /\ ad = ad2
  <2>1. Separate(A(npub, ad)) = Separate(A(n2, ad2))
    BY <1>5, <1>8
  <2>2. PICK s \in AeadStates, t \in AeadStates :
            s = A(npub, ad) /\ t = A(n2, ad2) /\ s.in.one = FALSE /\ t.in.one = FALSE
    BY <1>4
  <2>3. s.chain = t.chain /\ s.in.x0 = t.in.x0 /\ s.in.key = t.in.key
    <3>1. Separate(s) = Separate(t)
      BY <2>1, <2>2
    <3>2. /\ Separate(s).in.x0 = s.in.x0 /\ Separate(s).in.key = s.in.key
          /\ Separate(s).chain = s.chain
      BY <1>6
    <3>3. /\ Separate(t).in.x0 = t.in.x0 /\ Separate(t).in.key = t.in.key
          /\ Separate(t).chain = t.chain
      BY <1>6
    <3> QED
      BY <3>1, <3>2, <3>3
  <2>4. s.in \in AeadInputs /\ t.in \in AeadInputs
    BY DEF AeadStates
  <2>5. s = t
    BY <2>2, <2>3, <2>4, SameInput, SameState
  <2>6. (ad = <<>>) = (ad2 = <<>>)
    <3>1. s.in.key = IF ad = <<>> THEN {3, 4} ELSE {}
      BY <1>4, <2>2
    <3>2. t.in.key = IF ad2 = <<>> THEN {3, 4} ELSE {}
      BY <1>4, <2>2
    <3>3. {3, 4} # {}
      OBVIOUS
    <3> QED
      BY <2>5, <3>1, <3>2, <3>3
  <2>7. CASE ad = <<>>
    <3>1. AeadStart(npub) = AeadStart(n2) /\ ad2 = <<>>
      BY <1>2, <2>2, <2>5, <2>6, <2>7 DEF A
    <3> QED
      BY <2>7, <3>1, NonceStands
  <2>8. CASE ad # <<>>
    <3>1. AsconPermute(End(AbsorbAll(AeadStart(npub), ad)))
            = AsconPermute(End(AbsorbAll(AeadStart(n2), ad2)))
      BY <1>3, <2>2, <2>5, <2>6, <2>8 DEF A
    <3>2. /\ End(AbsorbAll(AeadStart(npub), ad)) \in AeadStates
          /\ End(AbsorbAll(AeadStart(n2), ad2)) \in AeadStates
      BY <1>1, DataUndone
    <3>3. End(AbsorbAll(AeadStart(npub), ad)) = End(AbsorbAll(AeadStart(n2), ad2))
      BY <3>1, <3>2, PermutedState
    <3>4. AeadStart(npub) = AeadStart(n2) /\ ad = ad2
      BY <1>1, <3>3, DataUndone
    <3> QED
      BY <3>4, NonceStands
  <2> QED
    BY <2>7, <2>8
<1> QED
  BY <1>7, <1>8

(* No two messages leave the same state. *)
LEMMA AfterUndone ==
    ASSUME NEW npub \in NonceValues, NEW ad \in Seq(Nat), NEW msg \in Seq(Nat),
           NEW n2 \in NonceValues, NEW ad2 \in Seq(Nat), NEW msg2 \in Seq(Nat),
           After(npub, ad, msg).chain = After(n2, ad2, msg2).chain
    PROVE  npub = n2 /\ ad = ad2 /\ msg = msg2
<1> DEFINE E(n, d, m) == End(AbsorbAll(Ready(n, d), m))
           W(i) == [i EXCEPT !.key = @ \cup {1, 2}]
           S == {W(i) : i \in AeadInputs} \cup AeadInputs
<1>1. \A n \in NonceValues, d \in Seq(Nat) : Fresh(Ready(n, d))
  BY ReadyUndone
<1>2. \A s \in AeadStates : [s EXCEPT !.in.key = @ \cup {1, 2}] = [s EXCEPT !.in = W(s.in)]
  BY DEF AeadStates, AeadInputs
<1>3. ASSUME NEW n \in NonceValues, NEW d \in Seq(Nat), NEW m \in Seq(Nat)
      PROVE  /\ E(n, d, m) \in AeadStates
             /\ After(n, d, m).chain = Append(E(n, d, m).chain, W(E(n, d, m).in))
  <2>1. E(n, d, m) \in AeadStates
    BY <1>1, DataUndone
  <2>2. After(n, d, m) = AsconPermute([E(n, d, m) EXCEPT !.in = W(E(n, d, m).in)])
    BY <1>2, <2>1 DEF After, Finalize
  <2>3. PICK s \in AeadStates : s = E(n, d, m)
    BY <2>1
  <2>4. [s EXCEPT !.in = W(s.in)].chain = s.chain /\ [s EXCEPT !.in = W(s.in)].in = W(s.in)
    BY DEF AeadStates
  <2> QED
    BY <2>1, <2>2, <2>3, <2>4 DEF AsconPermute
<1>4. ASSUME NEW i \in AeadInputs, NEW j \in AeadInputs, W(i) = W(j) PROVE i = j
  <2>1. W(i).x0 = i.x0 /\ W(j).x0 = j.x0 /\ W(i).one = i.one /\ W(j).one = j.one
    BY DEF AeadInputs
  <2>2. W(i).key = i.key \cup {1, 2} /\ W(j).key = j.key \cup {1, 2}
    BY DEF AeadInputs
  <2>3. i.key \in {{}, {3, 4}} /\ j.key \in {{}, {3, 4}}
    BY DEF AeadInputs
  <2>4. i.key \cup {1, 2} = j.key \cup {1, 2}
    BY <1>4, <2>2
  <2>5. i.key = j.key
    <3>1. 3 \in {3, 4} \cup {1, 2} /\ 3 \notin {} \cup {1, 2}
      OBVIOUS
    <3> QED
      BY <2>3, <2>4, <3>1
  <2> HIDE DEF W
  <2> QED
    BY <1>4, <2>1, <2>5, SameInput
<1>5. \A i \in AeadInputs : W(i) \in S /\ i \in S
  OBVIOUS
<1> HIDE DEF E, W, S
<1>6. PICK s \in AeadStates, t \in AeadStates : s = E(npub, ad, msg) /\ t = E(n2, ad2, msg2)
  BY <1>3
<1>7. PICK c, i, d, j : /\ c = s.chain /\ i = s.in /\ d = t.chain /\ j = t.in
                        /\ c \in Seq(AeadInputs) /\ d \in Seq(AeadInputs)
                        /\ i \in AeadInputs /\ j \in AeadInputs
  BY DEF AeadStates
<1>8. c \in Seq(S) /\ d \in Seq(S) /\ W(i) \in S /\ W(j) \in S
  <2>1. AeadInputs \subseteq S
    BY <1>5
  <2>2. Seq(AeadInputs) \subseteq Seq(S)
    BY <2>1
  <2> QED
    BY <1>5, <1>7, <2>2
<1>9. Append(c, W(i)) = Append(d, W(j))
  <2>1. After(npub, ad, msg).chain = Append(s.chain, W(s.in))
    BY <1>3, <1>6
  <2>2. After(n2, ad2, msg2).chain = Append(t.chain, W(t.in))
    BY <1>3, <1>6
  <2> QED
    BY <1>7, <2>1, <2>2
<1>10. c = d /\ i = j
  <2>1. PICK x \in S, y \in S, cs \in Seq(S), ds \in Seq(S) :
            x = W(i) /\ y = W(j) /\ cs = c /\ ds = d
    BY <1>8
  <2>2. Append(cs, x) = Append(ds, y)
    BY <1>9, <2>1
  <2>3. cs = ds /\ x = y
    BY <2>2, LastTaken
  <2> QED
    BY <1>4, <1>7, <2>1, <2>3
<1>11. s = t
  BY <1>7, <1>10, SameState
<1>12. Ready(npub, ad) = Ready(n2, ad2) /\ msg = msg2
  <2>1. PICK q, q2 : q = Ready(npub, ad) /\ q2 = Ready(n2, ad2) /\ Fresh(q) /\ Fresh(q2)
    BY <1>1
  <2>2. End(AbsorbAll(q, msg)) = End(AbsorbAll(q2, msg2))
    BY <1>6, <1>11, <2>1 DEF E
  <2>3. q = q2 /\ msg = msg2
    BY <2>1, <2>2, DataUndone
  <2> QED
    BY <2>1, <2>3
<1> QED
  BY <1>12, ReadyUndone

-----------------------------------------------------------------------------
LEMMA FirstFacts ==
    ASSUME NEW S, NEW s, NEW k \in Nat, \A i \in 1..k : s[i] \in S
    PROVE  /\ SubSeq(s, 1, k) \in Seq(S)
           /\ Len(SubSeq(s, 1, k)) = k
           /\ \A i \in 1..k : SubSeq(s, 1, k)[i] = s[i]
<1>1. 1 \in Int /\ k \in Int /\ k - 1 + 1 = k /\ \A i \in 1..k : 1 + i - 1 = i
  OBVIOUS
<1>2. /\ SubSeq(s, 1, k) \in Seq(S)
      /\ Len(SubSeq(s, 1, k)) = IF 1 <= k THEN k - 1 + 1 ELSE 0
      /\ \A i \in 1..(k - 1 + 1) : SubSeq(s, 1, k)[i] = s[1 + i - 1]
  BY <1>1, SubSeqProperties
<1> QED
  BY <1>1, <1>2

LEMMA AsFunction ==
    ASSUME NEW S, NEW p \in Seq(S), NEW k \in Nat, Len(p) = k
    PROVE  p \in [1..k -> S]
OBVIOUS

LEMMA PrefixFacts ==
    ASSUME NEW msg \in Seq(Nat), NEW k \in Nat, k <= Len(msg)
    PROVE  /\ SubSeq(msg, 1, k) \in Seq(Nat) /\ Len(SubSeq(msg, 1, k)) = k
           /\ \A i \in 1..k : SubSeq(msg, 1, k)[i] = msg[i]
           /\ SubSeq(SubSeq(msg, 1, k), 1, k) = SubSeq(msg, 1, k)
           /\ k < Len(msg) => Append(SubSeq(msg, 1, k), msg[k + 1]) = SubSeq(msg, 1, k + 1)
           /\ k = 0 => SubSeq(msg, 1, k) = <<>>
           /\ k = Len(msg) => SubSeq(msg, 1, k) = msg
<1> DEFINE s == SubSeq(msg, 1, k)
<1>1. /\ s \in Seq(Nat) /\ Len(s) = k /\ \A i \in 1..k : s[i] = msg[i]
      /\ s \in [1..k -> Nat]
  <2>1. \A i \in 1..k : msg[i] \in Nat
    OBVIOUS
  <2>2. /\ SubSeq(msg, 1, k) \in Seq(Nat) /\ Len(SubSeq(msg, 1, k)) = k
        /\ \A i \in 1..k : SubSeq(msg, 1, k)[i] = msg[i]
    BY <2>1, FirstFacts
  <2>3. SubSeq(msg, 1, k) \in [1..k -> Nat]
    BY <2>2, AsFunction
  <2> QED
    BY <2>2, <2>3
<1>2. SubSeq(s, 1, k) = s
  <2>1. /\ SubSeq(s, 1, k) \in [1..k -> Nat] /\ \A i \in 1..k : SubSeq(s, 1, k)[i] = s[i]
    <3>1. PICK c \in Seq(Nat) : c = s /\ Len(c) = k
      BY <1>1
    <3>2. \A i \in 1..k : c[i] \in Nat
      BY <3>1
    <3>3. /\ SubSeq(c, 1, k) \in Seq(Nat) /\ Len(SubSeq(c, 1, k)) = k
          /\ \A i \in 1..k : SubSeq(c, 1, k)[i] = c[i]
      BY <3>2, FirstFacts
    <3>4. SubSeq(c, 1, k) \in [1..k -> Nat]
      BY <3>3, AsFunction
    <3> QED
      BY <3>1, <3>3, <3>4
  <2> QED
    BY <1>1, <2>1, SameFunction
<1>3. ASSUME k < Len(msg) PROVE Append(s, msg[k + 1]) = SubSeq(msg, 1, k + 1)
  <2> DEFINE a == Append(s, msg[k + 1])
             b == SubSeq(msg, 1, k + 1)
  <2>1. msg[k + 1] \in Nat
    BY <1>3
  <2>2. b \in Seq(Nat) /\ Len(b) = k + 1 /\ \A i \in 1..(k + 1) : b[i] = msg[i]
    BY <1>3
  <2>3. a \in Seq(Nat) /\ Len(a) = k + 1 /\ \A i \in 1..(k + 1) : a[i] = msg[i]
    BY <1>1, <2>1
  <2> HIDE DEF a, b
  <2>4. a \in [1..(k + 1) -> Nat] /\ b \in [1..(k + 1) -> Nat]
    BY <2>2, <2>3
  <2>5. \A i \in 1..(k + 1) : a[i] = b[i]
    BY <2>2, <2>3
  <2>6. a = b
    BY <2>4, <2>5, SameFunction
  <2> QED
    BY <2>6 DEF a, b
<1>4. k = 0 => s = <<>>
  BY <1>1
<1>5. ASSUME k = Len(msg) PROVE s = msg
  <2>1. msg \in [1..k -> Nat] /\ \A i \in 1..k : s[i] = msg[i]
    BY <1>1, <1>5
  <2> QED
    BY <1>1, <2>1, SameFunction
<1> QED
  BY <1>1, <1>2, <1>3, <1>4, <1>5

(* The first m bytes of a text are those sent. *)
AsSent(npub, ad, msg, body, m) ==
    \A i \in 1..m : body[i] = [value |-> msg[i], pad |-> KeystreamPad(npub, ad, msg, i - 1)]

LEMMA DecryptRuns ==
    ASSUME NEW npub, NEW ad, NEW S, NEW body \in Seq(S), NEW n \in Nat, n = Len(body)
    PROVE  \E u : /\ Runs("decrypt", <<npub, ad>>, <<>>, body, u, n)
                  /\ DecryptBody(npub, ad, body) = u[n]
<1> DEFINE Chain(g) == g = [x \in SUBSET (1..n) |->
                             IF x = {} THEN <<>>
                             ELSE DecryptByte(npub, ad, g[x \ {Max(x)}], body[Max(x)])]
           f == CHOOSE g : Chain(g)
           data == <<npub, ad>>
<1>0. data[1] = npub /\ data[2] = ad
  OBVIOUS
<1> HIDE DEF data
<1>1. PICK g : Folded("decrypt", data, <<>>, body, g, n)
  BY FoldExists
<1>2. Chain(g)
  BY <1>0, <1>1 DEF Folded, FoldStep
<1>3. Chain(f)
  BY <1>2
<1>4. DOMAIN body = 1..n
  OBVIOUS
<1>5. DecryptBody(npub, ad, body) = f[1..n]
  BY <1>4 DEF DecryptBody, FoldLeft, MapThenFoldSet
<1>6. Folded("decrypt", data, <<>>, body, f, n)
  BY <1>0, <1>3 DEF Folded, FoldStep
<1> HIDE DEF f
<1>7. PICK u : Runs("decrypt", data, <<>>, body, u, n) /\ u[n] = f[1..n]
  BY <1>6, FoldRuns
<1> QED
  BY <1>5, <1>7 DEF data

(* What was decrypted stays as it is. *)
LEMMA DecryptKeeps ==
    ASSUME NEW npub, NEW ad, NEW S, NEW body \in Seq(S), NEW n \in Nat, n = Len(body),
           \A i \in 1..n : body[i].value \in Nat,
           NEW u, Runs("decrypt", <<npub, ad>>, <<>>, body, u, n)
    PROVE  \A k \in 0..n : /\ u[k] \in Seq(Nat) /\ Len(u[k]) = k
                           /\ \A i \in 1..k : u[k][i] = u[i][i]
<1> DEFINE T == {k \in Nat : k <= n => /\ u[k] \in Seq(Nat) /\ Len(u[k]) = k
                                       /\ \A i \in 1..k : u[k][i] = u[i][i]}
<1>1. 0 \in T
  <2>1. u[0] = <<>> /\ <<>> \in Seq(Nat) /\ Len(<<>>) = 0 /\ 1..0 = {}
    BY DEF Runs
  <2> QED
    BY <2>1
<1>2. ASSUME NEW k \in Nat, k \in T PROVE k + 1 \in T
  <2> SUFFICES ASSUME k + 1 <= n
               PROVE  /\ u[k + 1] \in Seq(Nat) /\ Len(u[k + 1]) = k + 1
                      /\ \A i \in 1..(k + 1) : u[k + 1][i] = u[i][i]
    OBVIOUS
  <2>1. k \in 0..(n - 1) /\ k + 1 \in 1..n /\ k <= n
    OBVIOUS
  <2>2. u[k] \in Seq(Nat) /\ Len(u[k]) = k /\ \A i \in 1..k : u[k][i] = u[i][i]
    BY <1>2, <2>1
  <2>3. u[k + 1] = FoldStep("decrypt", <<npub, ad>>, u[k], body[k + 1])
    BY <2>1 DEF Runs
  <2>4. u[k + 1] = DecryptByte(npub, ad, u[k], body[k + 1])
    BY <2>3 DEF FoldStep
  <2>5. PICK v \in Nat : u[k + 1] = Append(u[k], v)
    BY <2>1, <2>4, AeadSizes DEF DecryptByte
  <2>6. PICK q \in Seq(Nat) : q = u[k] /\ Len(q) = k
    BY <2>2
  <2>7. /\ Append(q, v) \in Seq(Nat) /\ Len(Append(q, v)) = k + 1
        /\ \A i \in 1..k : Append(q, v)[i] = q[i]
    BY <2>6
  <2>8. ASSUME NEW i \in 1..(k + 1) PROVE u[k + 1][i] = u[i][i]
    <3>1. CASE i = k + 1
      BY <3>1
    <3>2. CASE i # k + 1
      <4>1. i \in 1..k
        BY <3>2
      <4> QED
        BY <2>2, <2>5, <2>6, <2>7, <4>1
    <3> QED
      BY <3>1, <3>2
  <2> QED
    BY <2>5, <2>6, <2>7, <2>8
<1> HIDE DEF T
<1>3. Nat \subseteq T
  BY <1>1, <1>2, SetInduction
<1> QED
  BY <1>3 DEF T

LEMMA DecryptFollows ==
    ASSUME NEW npub, NEW ad, NEW msg \in Seq(Nat), NEW S, NEW body \in Seq(S),
           NEW n \in Nat, n = Len(body), NEW m \in Nat, m <= n, m <= Len(msg),
           AsSent(npub, ad, msg, body, m),
           NEW u, Runs("decrypt", <<npub, ad>>, <<>>, body, u, n)
    PROVE  \A k \in 0..m : u[k] = SubSeq(msg, 1, k)
<1> DEFINE T == {k \in Nat : k <= m => u[k] = SubSeq(msg, 1, k)}
<1>1. 0 \in T
  <2>1. SubSeq(msg, 1, 0) = <<>>
    BY PrefixFacts
  <2> QED
    BY <2>1 DEF Runs
<1>2. ASSUME NEW k \in Nat, k \in T PROVE k + 1 \in T
  <2> SUFFICES ASSUME k + 1 <= m PROVE u[k + 1] = SubSeq(msg, 1, k + 1)
    OBVIOUS
  <2>1. k \in 0..(n - 1) /\ k + 1 \in 1..m /\ k <= m /\ k < Len(msg) /\ k <= Len(msg)
        /\ (k + 1) - 1 = k
    OBVIOUS
  <2>2. u[k] = SubSeq(msg, 1, k)
    BY <1>2, <2>1
  <2>3. u[k + 1] = FoldStep("decrypt", <<npub, ad>>, u[k], body[k + 1])
    BY <2>1 DEF Runs
  <2>4. u[k + 1] = DecryptByte(npub, ad, u[k], body[k + 1])
    BY <2>3 DEF FoldStep
  <2>5. /\ Len(u[k]) = k /\ SubSeq(u[k], 1, k) = SubSeq(msg, 1, k)
        /\ Append(u[k], msg[k + 1]) = SubSeq(msg, 1, k + 1)
    BY <2>1, <2>2, PrefixFacts
  <2>6. KeystreamPad(npub, ad, u[k], Len(u[k])) = KeystreamPad(npub, ad, msg, k)
    BY <2>5 DEF KeystreamPad
  <2>7. body[k + 1].value = msg[k + 1] /\ body[k + 1].pad = KeystreamPad(npub, ad, msg, k)
    <3>1. body[k + 1] = [value |-> msg[k + 1], pad |-> KeystreamPad(npub, ad, msg, (k + 1) - 1)]
      BY <2>1 DEF AsSent
    <3>2. (k + 1) - 1 = k
      OBVIOUS
    <3> QED
      BY <3>1, <3>2
  <2> QED
    BY <2>4, <2>5, <2>6, <2>7 DEF DecryptByte
<1> HIDE DEF T
<1>3. Nat \subseteq T
  BY <1>1, <1>2, SetInduction
<1> QED
  BY <1>3 DEF T

(* What a text decrypts to. *)
LEMMA TextDecrypted ==
    ASSUME NEW npub, NEW ad, NEW S, NEW body \in Seq(S), NEW n \in Nat, n = Len(body),
           \A i \in 1..n : body[i].value \in Nat
    PROVE  LET text == DecryptBody(npub, ad, body)
           IN  /\ text \in Seq(Nat) /\ Len(text) = n
               /\ \A msg \in Seq(Nat) :
                     /\ Len(msg) = n /\ AsSent(npub, ad, msg, body, n) => text = msg
                     /\ \A i \in 1..n :
                           /\ Len(msg) = n /\ AsSent(npub, ad, msg, body, i - 1)
                           /\ body[i].pad = KeystreamPad(npub, ad, msg, i - 1)
                           => text[i] = body[i].value
<1> DEFINE text == DecryptBody(npub, ad, body)
<1>1. PICK u : Runs("decrypt", <<npub, ad>>, <<>>, body, u, n) /\ text = u[n]
  BY DecryptRuns
<1> HIDE DEF text
<1>2. \A k \in 0..n : /\ u[k] \in Seq(Nat) /\ Len(u[k]) = k
                      /\ \A i \in 1..k : u[k][i] = u[i][i]
  BY <1>1, DecryptKeeps
<1>3. text \in Seq(Nat) /\ Len(text) = n /\ \A i \in 1..n : text[i] = u[i][i]
  BY <1>1, <1>2
<1>4. ASSUME NEW msg \in Seq(Nat), Len(msg) = n, AsSent(npub, ad, msg, body, n) PROVE text = msg
  <2>1. n <= Len(msg) /\ n <= n /\ n \in 0..n
    BY <1>4
  <2>2. \A k \in 0..n : u[k] = SubSeq(msg, 1, k)
    BY <1>1, <1>4, <2>1, DecryptFollows
  <2>3. SubSeq(msg, 1, n) = msg
    BY <1>4, <2>1, PrefixFacts
  <2> QED
    BY <1>1, <2>1, <2>2, <2>3
<1>5. ASSUME NEW msg \in Seq(Nat), NEW i \in 1..n, Len(msg) = n,
             AsSent(npub, ad, msg, body, i - 1),
             body[i].pad = KeystreamPad(npub, ad, msg, i - 1)
      PROVE  text[i] = body[i].value
  <2>1. PICK k \in Nat : k = i - 1 /\ i = k + 1 /\ k \in 0..(n - 1) /\ k <= n /\ k <= Len(msg)
                         /\ k \in 0..k /\ i \in 0..n
    <3>1. i - 1 \in Nat /\ i = (i - 1) + 1 /\ i - 1 \in 0..(n - 1) /\ i - 1 <= n
          /\ i - 1 <= Len(msg) /\ i - 1 \in 0..(i - 1) /\ i \in 0..n
      BY <1>5
    <3> QED
      BY <3>1
  <2>2. AsSent(npub, ad, msg, body, k)
    BY <1>5, <2>1
  <2>3. u[k] = SubSeq(msg, 1, k)
    <3>1. k <= n /\ k <= Len(msg)
      BY <2>1
    <3>2. Runs("decrypt", <<npub, ad>>, <<>>, body, u, n)
      BY <1>1
    <3>3. \A j \in 0..k : u[j] = SubSeq(msg, 1, j)
      BY <2>2, <3>1, <3>2, DecryptFollows
    <3> QED
      BY <2>1, <3>3
  <2>4. Len(u[k]) = k /\ SubSeq(u[k], 1, k) = SubSeq(msg, 1, k) /\ u[k] \in Seq(Nat)
    <3>1. k <= Len(msg)
      BY <2>1
    <3> QED
      BY <2>3, <3>1, PrefixFacts
  <2>5. KeystreamPad(npub, ad, u[k], Len(u[k])) = KeystreamPad(npub, ad, msg, k)
    BY <2>4 DEF KeystreamPad
  <2>6. u[i] = FoldStep("decrypt", <<npub, ad>>, u[k], body[i])
    BY <1>1, <2>1 DEF Runs
  <2>7. u[i] = DecryptByte(npub, ad, u[k], body[i])
    BY <2>6 DEF FoldStep
  <2>8. u[i] = Append(u[k], body[i].value)
    BY <1>5, <2>1, <2>5, <2>7 DEF DecryptByte
  <2>9. PICK q \in Seq(Nat), v \in Nat : q = u[k] /\ v = body[i].value /\ Len(q) = k
    BY <2>4
  <2>10. Append(q, v)[k + 1] = v
    BY <2>9
  <2> QED
    BY <1>3, <2>1, <2>8, <2>9, <2>10
<1> QED
  BY <1>3, <1>4, <1>5 DEF text

-----------------------------------------------------------------------------
LEMMA SeqOfFunction ==
    ASSUME NEW n \in Nat, NEW f, f = [i \in 1..n |-> f[i]]
    PROVE  \E S : f \in Seq(S) /\ Len(f) = n
<1> DEFINE S == {f[i] : i \in 1..n}
<1>1. f \in [1..n -> S]
  OBVIOUS
<1> HIDE DEF S
<1>2. f \in Seq(S) /\ Len(f) = n
  BY <1>1
<1> QED
  BY <1>2

LEMMA JoinedParts ==
    ASSUME NEW A, NEW a \in Seq(A), NEW B, NEW b \in Seq(B), NEW m \in Nat, NEW n \in Nat,
           Len(a) = m, Len(b) = n
    PROVE  /\ a \o b \in Seq(A \cup B) /\ Len(a \o b) = m + n
           /\ \A i \in 1..m : (a \o b)[i] = a[i]
           /\ \A i \in 1..n : (a \o b)[m + i] = b[i]
<1>1. a \in Seq(A \cup B) /\ b \in Seq(A \cup B)
  <2>1. A \subseteq A \cup B /\ B \subseteq A \cup B
    OBVIOUS
  <2> QED
    BY <2>1
<1>2. PICK c \in Seq(A \cup B), d \in Seq(A \cup B) : c = a /\ d = b /\ Len(c) = m /\ Len(d) = n
  BY <1>1
<1>3. /\ c \o d \in Seq(A \cup B) /\ Len(c \o d) = m + n
      /\ \A i \in 1..m : (c \o d)[i] = c[i]
      /\ \A i \in 1..n : (c \o d)[m + i] = d[i]
  BY <1>2
<1> QED
  BY <1>2, <1>3

TagAt(c, l, npub, ad, msg, i) == c[l + i] = TagPads(After(npub, ad, msg))[i]

LEMMA CiphertextShape ==
    ASSUME NEW npub, NEW ad, NEW msg \in Seq(Nat), NEW l \in Nat, l = Len(msg)
    PROVE  LET c == Ciphertext(npub, msg, ad)
           IN  /\ \E S : c \in Seq(S)
               /\ Len(c) = l + CRYPTO_ABYTES
               /\ AsSent(npub, ad, msg, c, l)
               /\ \A i \in 1..TAG_BYTES : TagAt(c, l, npub, ad, msg, i)
<1> DEFINE body == [i \in 1..l |-> [value |-> msg[i], pad |-> KeystreamPad(npub, ad, msg, i - 1)]]
           tag == TagPads(After(npub, ad, msg))
           m == CiphertextLength(l) - l - TAG_BYTES
           rest == [i \in 1..m |-> NotWritten]
           front == body \o tag
           t == l + TAG_BYTES
<1>1. Ciphertext(npub, msg, ad) = (body \o tag) \o rest
  BY DEF Ciphertext
<1>2. m \in Nat /\ l + TAG_BYTES + m = l + CRYPTO_ABYTES
  BY AeadSizes DEF CiphertextLength
<1>3. body = [i \in 1..l |-> body[i]]
      /\ \A i \in 1..l : body[i] = [value |-> msg[i], pad |-> KeystreamPad(npub, ad, msg, i - 1)]
  OBVIOUS
<1>4. tag = [i \in 1..TAG_BYTES |-> tag[i]]
  BY DEF TagPads
<1>5. rest = [i \in 1..m |-> rest[i]]
  OBVIOUS
<1> HIDE DEF body, tag, rest, m
<1>6. PICK A : body \in Seq(A) /\ Len(body) = l
  BY <1>3, SeqOfFunction
<1>7. PICK B : tag \in Seq(B) /\ Len(tag) = TAG_BYTES
  BY <1>4, AeadSizes, SeqOfFunction
<1>8. PICK C : rest \in Seq(C) /\ Len(rest) = m
  BY <1>2, <1>5, SeqOfFunction
<1>9. /\ front \in Seq(A \cup B) /\ Len(front) = t
      /\ \A i \in 1..l : front[i] = body[i]
      /\ \A i \in 1..TAG_BYTES : front[l + i] = tag[i]
  <2>1. PICK z \in Nat : z = TAG_BYTES
    BY AeadSizes
  <2>2. body \in Seq(A) /\ tag \in Seq(B) /\ Len(body) = l /\ Len(tag) = z
    BY <1>6, <1>7, <2>1
  <2>3. body \o tag \in Seq(A \cup B)
    BY <2>1, <2>2, JoinedParts
  <2>4. Len(body \o tag) = l + z
    BY <2>1, <2>2
  <2>5. \A i \in 1..l : (body \o tag)[i] = body[i]
    BY <2>1, <2>2, JoinedParts
  <2>6. \A i \in 1..z : (body \o tag)[l + i] = tag[i]
    BY <2>1, <2>2
  <2> QED
    BY <2>1, <2>3, <2>4, <2>5, <2>6
<1>10. t \in Nat
  BY AeadSizes
<1> HIDE DEF front
<1>11. /\ front \o rest \in Seq((A \cup B) \cup C) /\ Len(front \o rest) = t + m
       /\ \A i \in 1..t : (front \o rest)[i] = front[i]
  <2> HIDE DEF t
  <2>1. front \o rest \in Seq((A \cup B) \cup C)
    BY <1>2, <1>8, <1>9, <1>10, JoinedParts
  <2>2. Len(front \o rest) = t + m
    <3>1. front \in Seq(A \cup B) /\ rest \in Seq(C) /\ Len(front) = t /\ Len(rest) = m
          /\ t \in Nat /\ m \in Nat
      BY <1>2, <1>8, <1>9, <1>10
    <3> QED
      BY <3>1
  <2>3. \A i \in 1..t : (front \o rest)[i] = front[i]
    BY <1>2, <1>8, <1>9, <1>10, JoinedParts
  <2> QED
    BY <2>1, <2>2, <2>3
<1>12. PICK c : c = Ciphertext(npub, msg, ad) /\ c = front \o rest
  BY <1>1 DEF front
<1>13. \A i \in 1..l : i \in 1..t /\ c[i] = body[i]
  <2>1. \A i \in 1..l : i \in 1..t
    BY <1>10, AeadSizes
  <2> QED
    BY <1>9, <1>10, <1>11, <1>12, <2>1
<1>14. \A i \in 1..TAG_BYTES : c[l + i] = tag[i]
  <2>1. \A i \in 1..TAG_BYTES : l + i \in 1..t
    BY <1>10, AeadSizes
  <2> QED
    BY <1>9, <1>10, <1>11, <1>12, <2>1
<1>15. c \in Seq((A \cup B) \cup C) /\ Len(c) = l + CRYPTO_ABYTES
  BY <1>2, <1>10, <1>11, <1>12
<1>16. AsSent(npub, ad, msg, c, l)
  BY <1>3, <1>13 DEF AsSent
<1>17. \A i \in 1..TAG_BYTES : TagAt(c, l, npub, ad, msg, i)
  BY <1>14 DEF TagAt, tag
<1> QED
  BY <1>12, <1>15, <1>16, <1>17

(* What decryption makes of a text as long as one sent. *)
Outcome(npub, ad, d, l, text) ==
    /\ text \in Seq(Nat) /\ Len(text) = l /\ plain' = text
    /\ \A msg \in Seq(Nat) :
          /\ Len(msg) = l /\ AsSent(npub, ad, msg, d, l) => text = msg
          /\ \A i \in 1..l :
                /\ Len(msg) = l /\ AsSent(npub, ad, msg, d, i - 1)
                /\ d[i].pad = KeystreamPad(npub, ad, msg, i - 1)
                => text[i] = d[i].value
    /\ (\A i \in 1..TAG_BYTES : TagAt(d, l, npub, ad, text, i))
          => aead_result' = "SUCCESS" /\ aead_mlen' = l
    /\ (\E i \in 1..TAG_BYTES : ~TagAt(d, l, npub, ad, text, i))
          => aead_result' = "FAIL" /\ aead_mlen' = 0

LEMMA LongEnough ==
    ASSUME NEW npub, NEW ad, NEW S, NEW d \in Seq(S), NEW l \in Nat, Len(d) = l + CRYPTO_ABYTES,
           \A i \in 1..l : d[i].value \in Nat, ascon_aead_decrypt(npub, ad, d)
    PROVE  \E text : Outcome(npub, ad, d, l, text)
<1> DEFINE body == SubSeq(d, 1, l)
           tag == SubSeq(d, l + 1, l + TAG_BYTES)
           text == DecryptBody(npub, ad, body)
<1>1. Len(d) - CRYPTO_ABYTES = l /\ ~(Len(d) < Shortest)
  BY AeadSizes DEF Shortest
<1>2. /\ plain' = text
      /\ IF TagMatches(tag, TagPads(After(npub, ad, text)))
         THEN aead_result' = "SUCCESS" /\ aead_mlen' = l
         ELSE aead_result' = "FAIL" /\ aead_mlen' = 0
  BY <1>1 DEF ascon_aead_decrypt
<1>3. \A i \in 1..l : d[i] \in S
  BY AeadSizes
<1>4. body \in Seq(S) /\ Len(body) = l /\ \A i \in 1..l : body[i] = d[i]
  BY <1>3, FirstFacts
<1>5. \A i \in 1..TAG_BYTES : tag[i] = d[l + i]
  <2>1. /\ l + 1 \in Int /\ l + TAG_BYTES \in Int /\ (l + TAG_BYTES) - (l + 1) + 1 = TAG_BYTES
        /\ \A i \in 1..TAG_BYTES : (l + 1) + i - 1 = l + i
    BY AeadSizes
  <2>2. \A i \in (l + 1)..(l + TAG_BYTES) : d[i] \in S
    BY AeadSizes
  <2>3. \A i \in 1..((l + TAG_BYTES) - (l + 1) + 1) : tag[i] = d[(l + 1) + i - 1]
    BY <2>1, <2>2, SubSeqProperties
  <2> QED
    BY <2>1, <2>3
<1> HIDE DEF body, tag
<1>6. \A i \in 1..l : body[i].value \in Nat
  BY <1>4
<1>7. /\ text \in Seq(Nat) /\ Len(text) = l
      /\ \A msg \in Seq(Nat) :
            /\ Len(msg) = l /\ AsSent(npub, ad, msg, body, l) => text = msg
            /\ \A i \in 1..l :
                  /\ Len(msg) = l /\ AsSent(npub, ad, msg, body, i - 1)
                  /\ body[i].pad = KeystreamPad(npub, ad, msg, i - 1)
                  => text[i] = body[i].value
  BY <1>4, <1>6, TextDecrypted
<1>8. \A msg, i : i \in 0..l => (AsSent(npub, ad, msg, body, i) <=> AsSent(npub, ad, msg, d, i))
  <2>1. \A i \in 0..l : \A j \in 1..i : j \in 1..l
    OBVIOUS
  <2> QED
    BY <1>4, <2>1 DEF AsSent
<1> HIDE DEF text
<1>9. ASSUME NEW msg \in Seq(Nat), Len(msg) = l
      PROVE  /\ AsSent(npub, ad, msg, d, l) => text = msg
             /\ \A i \in 1..l : /\ AsSent(npub, ad, msg, d, i - 1)
                                /\ d[i].pad = KeystreamPad(npub, ad, msg, i - 1)
                                => text[i] = d[i].value
  <2>1. l \in 0..l /\ \A i \in 1..l : i - 1 \in 0..l
    OBVIOUS
  <2> QED
    BY <1>4, <1>7, <1>8, <1>9, <2>1
<1>10. TagMatches(tag, TagPads(After(npub, ad, text)))
         <=> \A i \in 1..TAG_BYTES : TagAt(d, l, npub, ad, text, i)
  BY <1>5 DEF TagMatches, TagAt
<1>11. Outcome(npub, ad, d, l, text)
  BY <1>2, <1>7, <1>9, <1>10 DEF Outcome
<1> QED
  BY <1>11

LEMMA TagNames ==
    ASSUME NEW npub, NEW ad, NEW msg, NEW i \in 1..TAG_BYTES
    PROVE  TagPads(After(npub, ad, msg))[i]
             = [value |-> 0, pad |-> [chain |-> After(npub, ad, msg).chain,
                                      place |-> ASCON_AEAD_RATE + i]]
BY DEF TagPads

(* Under the tag of what was sent nothing else is accepted. *)
LEMMA OthersRefused ==
    ASSUME NEW npub \in NonceValues, NEW ad \in Seq(Nat), NEW msg \in Seq(Nat),
           NEW n2 \in NonceValues, NEW ad2 \in Seq(Nat), NEW text \in Seq(Nat),
           NEW d, NEW l, TagAt(d, l, npub, ad, msg, 1),
           npub # n2 \/ ad # ad2 \/ msg # text
    PROVE  ~TagAt(d, l, n2, ad2, text, 1) /\ 1 \in 1..TAG_BYTES
<1>1. 1 \in 1..TAG_BYTES
  BY AeadSizes
<1>2. SUFFICES ASSUME TagAt(d, l, n2, ad2, text, 1) PROVE FALSE
  BY <1>1
<1>3. TagPads(After(npub, ad, msg))[1] = TagPads(After(n2, ad2, text))[1]
  BY <1>2 DEF TagAt
<1>4. PICK x, y : x = After(npub, ad, msg).chain /\ y = After(n2, ad2, text).chain
  OBVIOUS
<1>5. [value |-> 0, pad |-> [chain |-> x, place |-> ASCON_AEAD_RATE + 1]]
        = [value |-> 0, pad |-> [chain |-> y, place |-> ASCON_AEAD_RATE + 1]]
  <2>1. TagPads(After(npub, ad, msg))[1]
          = [value |-> 0, pad |-> [chain |-> x, place |-> ASCON_AEAD_RATE + 1]]
    BY <1>1, <1>4, TagNames
  <2>2. TagPads(After(n2, ad2, text))[1]
          = [value |-> 0, pad |-> [chain |-> y, place |-> ASCON_AEAD_RATE + 1]]
    BY <1>1, <1>4, TagNames
  <2> QED
    BY <1>3, <2>1, <2>2
<1>6. x = y
  BY <1>5
<1>7. After(npub, ad, msg).chain = After(n2, ad2, text).chain
  BY <1>4, <1>6
<1>8. npub = n2 /\ ad = ad2 /\ msg = text
  BY <1>7, AfterUndone
<1> QED
  BY <1>8

-----------------------------------------------------------------------------
LEMMA SentValues ==
    ASSUME NEW npub, NEW ad, NEW msg \in Seq(Nat), NEW d, NEW l \in Nat, l = Len(msg),
           AsSent(npub, ad, msg, d, l), NEW i \in 1..l
    PROVE  /\ d[i].value = msg[i] /\ d[i].value \in Nat
           /\ d[i].pad = KeystreamPad(npub, ad, msg, i - 1)
<1>1. PICK v, p : d[i] = [value |-> v, pad |-> p] /\ v = msg[i] /\ p = KeystreamPad(npub, ad, msg, i - 1)
  BY DEF AsSent
<1>2. v \in Nat
  BY <1>1
<1> QED
  BY <1>1, <1>2

LEMMA DeliveredIntact ==
    ASSUME NEW npub, NEW ad, NEW msg \in Seq(Nat), NEW l \in Nat, l = Len(msg),
           NEW S, NEW d \in Seq(S), Len(d) = l + CRYPTO_ABYTES,
           AsSent(npub, ad, msg, d, l), \A i \in 1..TAG_BYTES : TagAt(d, l, npub, ad, msg, i),
           ascon_aead_decrypt(npub, ad, d)
    PROVE  aead_result' = "SUCCESS" /\ aead_mlen' = l /\ plain' = msg
<1>1. \A i \in 1..l : d[i].value \in Nat
  BY SentValues
<1>2. PICK text : Outcome(npub, ad, d, l, text)
  BY <1>1, LongEnough
<1>3. text = msg
  BY <1>2 DEF Outcome
<1> QED
  BY <1>2, <1>3 DEF Outcome

LEMMA DeliveredTag ==
    ASSUME NEW npub, NEW ad, NEW msg \in Seq(Nat), NEW l \in Nat, l = Len(msg),
           NEW S, NEW d \in Seq(S), Len(d) = l + CRYPTO_ABYTES,
           AsSent(npub, ad, msg, d, l),
           NEW i \in 1..TAG_BYTES, ~TagAt(d, l, npub, ad, msg, i),
           ascon_aead_decrypt(npub, ad, d)
    PROVE  aead_result' = "FAIL" /\ aead_mlen' = 0
<1>1. \A j \in 1..l : d[j].value \in Nat
  BY SentValues
<1>2. PICK text : Outcome(npub, ad, d, l, text)
  BY <1>1, LongEnough
<1>3. text = msg
  BY <1>2 DEF Outcome
<1>4. \E j \in 1..TAG_BYTES : ~TagAt(d, l, npub, ad, text, j)
  BY <1>3
<1> QED
  BY <1>2, <1>4 DEF Outcome

(* Byte i is not the one sent, those before it are. *)
ChangedAt(npub, ad, msg, d, i) ==
    /\ AsSent(npub, ad, msg, d, i - 1)
    /\ d[i].pad = KeystreamPad(npub, ad, msg, i - 1) /\ d[i].value # msg[i]

LEMMA DeliveredOther ==
    ASSUME NEW npub \in NonceValues, NEW ad \in Seq(Nat), NEW msg \in Seq(Nat),
           NEW l \in Nat, l = Len(msg), NEW n2 \in NonceValues, NEW ad2 \in Seq(Nat),
           NEW S, NEW d \in Seq(S), Len(d) = l + CRYPTO_ABYTES,
           \A i \in 1..l : d[i].value \in Nat, TagAt(d, l, npub, ad, msg, 1),
           npub # n2 \/ ad # ad2 \/ \E i \in 1..l : ChangedAt(npub, ad, msg, d, i),
           ascon_aead_decrypt(n2, ad2, d)
    PROVE  aead_result' = "FAIL" /\ aead_mlen' = 0
<1>1. PICK text : Outcome(n2, ad2, d, l, text)
  BY LongEnough
<1>2. text \in Seq(Nat)
  BY <1>1 DEF Outcome
<1>3. npub # n2 \/ ad # ad2 \/ msg # text
  <2> SUFFICES ASSUME npub = n2, ad = ad2 PROVE msg # text
    OBVIOUS
  <2>1. PICK i \in 1..l : ChangedAt(npub, ad, msg, d, i)
    OBVIOUS
  <2>2. text[i] = d[i].value
    BY <1>1, <2>1 DEF Outcome, ChangedAt
  <2> QED
    BY <2>1, <2>2 DEF ChangedAt
<1>4. ~TagAt(d, l, n2, ad2, text, 1) /\ 1 \in 1..TAG_BYTES
  BY <1>2, <1>3, OthersRefused
<1> QED
  BY <1>1, <1>4 DEF Outcome

LEMMA DeliveredCut ==
    ASSUME NEW npub, NEW ad, NEW msg \in Seq(Nat), NEW l \in Nat, l = Len(msg),
           NEW S, NEW c \in Seq(S), Len(c) = l + CRYPTO_ABYTES, AsSent(npub, ad, msg, c, l),
           NEW k \in Nat, k < Len(c), ascon_aead_decrypt(npub, ad, SubSeq(c, 1, k))
    PROVE  aead_result' = "FAIL" /\ aead_mlen' = 0
<1> DEFINE d == SubSeq(c, 1, k)
<1>1. \A i \in 1..k : c[i] \in S
  BY AeadSizes
<1>2. d \in Seq(S) /\ Len(d) = k /\ \A i \in 1..k : d[i] = c[i]
  BY <1>1, FirstFacts
<1> HIDE DEF d
<1>3. ascon_aead_decrypt(npub, ad, d)
  BY DEF d
<1>4. CASE k < CRYPTO_ABYTES
  BY <1>2, <1>3, <1>4 DEF ascon_aead_decrypt, Shortest
<1>5. CASE ~(k < CRYPTO_ABYTES)
  <2>1. PICK m \in Nat : m = k - CRYPTO_ABYTES /\ k = m + CRYPTO_ABYTES /\ m < l
    <3>1. k - CRYPTO_ABYTES \in Nat /\ k = (k - CRYPTO_ABYTES) + CRYPTO_ABYTES
          /\ k - CRYPTO_ABYTES < l
      BY <1>5, AeadSizes
    <3> QED
      BY <3>1
  <2>2. \A i \in 1..(m + 1) : d[i] = c[i] /\ i \in 1..l
    <3>1. \A i \in 1..(m + 1) : i \in 1..k /\ i \in 1..l
      BY <2>1, AeadSizes
    <3> QED
      BY <1>2, <3>1
  <2>3. \A i \in 1..m : i \in 1..(m + 1)
    OBVIOUS
  <2>4. \A i \in 1..m : d[i].value \in Nat
    <3>1. \A i \in 1..l : c[i].value \in Nat
      BY SentValues
    <3> QED
      BY <2>2, <2>3, <3>1
  <2>5. Len(d) = m + CRYPTO_ABYTES
    BY <1>2, <2>1
  <2>6. PICK text : Outcome(npub, ad, d, m, text)
    BY <1>2, <1>3, <2>4, <2>5, LongEnough
  <2>7. d[m + 1].pad.place = m % ASCON_AEAD_RATE
    <3>1. m + 1 \in 1..(m + 1) /\ (m + 1) - 1 = m
      OBVIOUS
    <3>2. d[m + 1] = [value |-> msg[m + 1], pad |-> KeystreamPad(npub, ad, msg, m)]
      BY <2>2, <3>1 DEF AsSent
    <3> QED
      BY <3>2 DEF KeystreamPad
  <2>8. m % ASCON_AEAD_RATE # ASCON_AEAD_RATE + 1
    BY AeadSizes, QuotientRemainder
  <2>9. 1 \in 1..TAG_BYTES
    BY AeadSizes
  <2>10. ~TagAt(d, m, npub, ad, text, 1)
    <3>1. PICK x : x = After(npub, ad, text).chain
      OBVIOUS
    <3>2. TagPads(After(npub, ad, text))[1]
            = [value |-> 0, pad |-> [chain |-> x, place |-> ASCON_AEAD_RATE + 1]]
      BY <2>9, <3>1, TagNames
    <3> QED
      BY <2>7, <2>8, <3>2 DEF TagAt
  <2> QED
    BY <2>6, <2>9, <2>10 DEF Outcome
<1> QED
  BY <1>4, <1>5

-----------------------------------------------------------------------------
(* What a message on its way is. *)
SentAead ==
    /\ aead_sent.nonce \in AeadNonces /\ aead_sent.msg \in AeadMessages
    /\ aead_sent.ad \in AeadAssociated
    /\ cipher = Ciphertext(aead_sent.nonce, aead_sent.msg, aead_sent.ad)
    /\ clen = Len(aead_sent.msg) + CRYPTO_ABYTES

AeadInv ==
    /\ clen \in Nat
    /\ clen = 0 => aead_fate = "none"
    /\ clen > 0 => SentAead
    /\ AcceptedIffIntact

LEMMA SeqsOfSubset ==
    ASSUME NEW A, NEW B, A \subseteq B
    PROVE  Seq(A) \subseteq Seq(B)
OBVIOUS

LEMMA AeadData ==
    /\ \A n \in AeadNonces : n \in NonceValues
    /\ \A data \in AeadMessages \cup AeadAssociated :
          /\ data \in Seq(Nat)
          /\ \A i \in 1..Len(data) : data[i] \in 0..(ByteValues - 1)
<1>1. \A n \in AeadNonces : n \in NonceValues
  <2>1. AeadNonces \subseteq [RatePlaces -> 0..(ByteValues - 1)]
    BY AeadAssumption DEF RatePlaces
  <2>2. 0..(ByteValues - 1) \subseteq Nat
    BY AeadSizes
  <2> QED
    BY <2>1, <2>2 DEF NonceValues
<1>2. ASSUME NEW data \in AeadMessages \cup AeadAssociated
      PROVE  /\ data \in Seq(Nat)
             /\ \A i \in 1..Len(data) : data[i] \in 0..(ByteValues - 1)
  <2>1. data \in Seq(0..(ByteValues - 1))
    BY AeadAssumption
  <2>2. 0..(ByteValues - 1) \subseteq Nat
    BY AeadSizes
  <2>3. data \in Seq(Nat)
    <3>1. PICK D : D = 0..(ByteValues - 1) /\ D \subseteq Nat
      BY <2>2
    <3>2. data \in Seq(D)
      BY <2>1, <3>1
    <3>3. Seq(D) \subseteq Seq(Nat)
      BY <3>1, SeqsOfSubset
    <3> QED
      BY <3>2, <3>3
  <2>4. \A i \in 1..Len(data) : data[i] \in 0..(ByteValues - 1)
    <3>1. PICK D : D = 0..(ByteValues - 1)
      OBVIOUS
    <3>2. data \in Seq(D)
      BY <2>1, <3>1
    <3>3. \A i \in 1..Len(data) : data[i] \in D
      BY <3>2
    <3> QED
      BY <3>1, <3>3
  <2> QED
    BY <2>3, <2>4
<1> QED
  BY <1>1, <1>2

(* One of the ways a message reaches the receiver. *)
Refused  == aead_result' = "FAIL" /\ aead_mlen' = 0
Accepted == /\ aead_result' = "SUCCESS" /\ aead_mlen' = Len(aead_sent.msg)
            /\ plain' = aead_sent.msg

LEMMA ChangeShows ==
    ASSUME NEW v \in 0..(ByteValues - 1)
    PROVE  (v + 1) % ByteValues \in Nat /\ (v + 1) % ByteValues # v
<1>1. ByteValues \in Nat /\ ByteValues > 1
  BY AeadSizes
<1>2. CASE v = ByteValues - 1
  <2>1. v + 1 = ByteValues * 1 + 0 /\ 0 \in 0..(ByteValues - 1)
    BY <1>1, <1>2
  <2>2. ((v + 1) % ByteValues) = 0
    <3>1. ((ByteValues * 1 + 0) % ByteValues) = 0
      BY <1>1, <2>1, QuotientUnique
    <3> QED
      BY <2>1, <3>1
  <2> QED
    BY <1>1, <1>2, <2>2
<1>3. CASE v # ByteValues - 1
  <2>1. v + 1 \in 0..(ByteValues - 1) /\ ByteValues * 0 = 0
    BY <1>1, <1>3
  <2>2. ((v + 1) % ByteValues) = v + 1
    <3>1. ((ByteValues * 0 + (v + 1)) % ByteValues) = v + 1
      BY <1>1, <2>1, QuotientUnique
    <3>2. ByteValues * 0 + (v + 1) = v + 1
      BY <1>1, <2>1
    <3> QED
      BY <3>1, <3>2
  <2> QED
    BY <2>2
<1> QED
  BY <1>2, <1>3

-----------------------------------------------------------------------------
(* What the receiver may be given, of what was sent. *)
LEMMA SentFacts ==
    ASSUME AeadInv, clen > 0
    PROVE  \E S : \E npub \in NonceValues, ad \in Seq(Nat), msg \in Seq(Nat), l \in Nat :
              /\ npub = aead_sent.nonce /\ ad = aead_sent.ad /\ msg = aead_sent.msg
              /\ l = Len(msg) /\ clen = l + CRYPTO_ABYTES
              /\ \A i \in 1..l : msg[i] \in 0..(ByteValues - 1)
              /\ cipher \in Seq(S) /\ Len(cipher) = clen /\ AsSent(npub, ad, msg, cipher, l)
              /\ \A i \in 1..TAG_BYTES : TagAt(cipher, l, npub, ad, msg, i)
<1>1. SentAead
  BY DEF AeadInv
<1>2. PICK npub \in NonceValues, ad \in Seq(Nat), msg \in Seq(Nat) :
          /\ npub = aead_sent.nonce /\ ad = aead_sent.ad /\ msg = aead_sent.msg
          /\ \A i \in 1..Len(msg) : msg[i] \in 0..(ByteValues - 1)
  BY <1>1, AeadData DEF SentAead
<1>3. PICK l \in Nat : l = Len(msg)
  OBVIOUS
<1>4. cipher = Ciphertext(npub, msg, ad) /\ clen = l + CRYPTO_ABYTES
  BY <1>1, <1>2, <1>3 DEF SentAead
<1>5. /\ \E S : cipher \in Seq(S)
      /\ Len(cipher) = l + CRYPTO_ABYTES
      /\ AsSent(npub, ad, msg, cipher, l)
      /\ \A i \in 1..TAG_BYTES : TagAt(cipher, l, npub, ad, msg, i)
  BY <1>3, <1>4, CiphertextShape
<1>6. PICK S : cipher \in Seq(S)
  BY <1>5
<1> QED
  BY <1>2, <1>3, <1>4, <1>5, <1>6

(* A byte of the ciphertext is changed. *)
LEMMA ByteChanged ==
    ASSUME NEW npub \in NonceValues, NEW ad \in Seq(Nat), NEW msg \in Seq(Nat), NEW l \in Nat, NEW S,
           npub = aead_sent.nonce, ad = aead_sent.ad, msg = aead_sent.msg,
           l = Len(msg), clen = l + CRYPTO_ABYTES,
           \A i \in 1..l : msg[i] \in 0..(ByteValues - 1),
           cipher \in Seq(S), Len(cipher) = clen, AsSent(npub, ad, msg, cipher, l),
           \A i \in 1..TAG_BYTES : TagAt(cipher, l, npub, ad, msg, i),
           NEW i \in 1..clen, ascon_aead_decrypt(npub, ad, [cipher EXCEPT ![i] = Change(@)])
    PROVE  IF Counted(i) THEN Refused ELSE Accepted
<1> DEFINE y == Change(cipher[i])
           d == [cipher EXCEPT ![i] = y]
           U == S \cup {y}
<1>1. ascon_aead_decrypt(npub, ad, d)
  OBVIOUS
<1>2. clen \in Nat /\ clen = l + CRYPTO_ABYTES /\ CRYPTO_ABYTES \in Nat /\ TAG_BYTES \in Nat
      /\ CRYPTO_ABYTES >= TAG_BYTES /\ TAG_BYTES > 0
  BY AeadSizes
<1>3. /\ d \in Seq(U) /\ Len(d) = clen /\ d[i] = y
      /\ \A j \in 1..clen : j # i => d[j] = cipher[j]
  <2> HIDE DEF y
  <2>1. S \subseteq U /\ y \in U
    OBVIOUS
  <2>2. Seq(S) \subseteq Seq(U)
    BY <2>1
  <2>3. PICK c \in Seq(U) : c = cipher /\ Len(c) = clen
    BY <2>2
  <2> HIDE DEF U
  <2>4. /\ [c EXCEPT ![i] = y] \in Seq(U) /\ Len([c EXCEPT ![i] = y]) = clen
        /\ [c EXCEPT ![i] = y][i] = y
        /\ \A j \in 1..clen : j # i => [c EXCEPT ![i] = y][j] = c[j]
    BY <1>2, <2>1, <2>3
  <2> QED
    BY <2>3, <2>4
<1> HIDE DEF d, U
<1>4. CASE i \in 1..l
  <2>1. \A j \in 1..(i - 1) : j \in 1..l /\ j # i /\ j \in 1..clen
    BY <1>2, <1>4
  <2>2. AsSent(npub, ad, msg, d, i - 1)
    BY <1>3, <2>1 DEF AsSent
  <2>3. cipher[i] = [value |-> msg[i], pad |-> KeystreamPad(npub, ad, msg, i - 1)]
    BY <1>4 DEF AsSent
  <2>4. PICK v, p : v = msg[i] /\ p = KeystreamPad(npub, ad, msg, i - 1)
    OBVIOUS
  <2>5. y.value = (v + 1) % ByteValues /\ y.pad = p
    <3>1. cipher[i] = [value |-> v, pad |-> p]
      BY <2>3, <2>4
    <3> QED
      BY <3>1 DEF Change
  <2>6. y.value \in Nat /\ y.value # msg[i]
    BY <1>4, <2>4, <2>5, ChangeShows
  <2> HIDE DEF y
  <2>7. ChangedAt(npub, ad, msg, d, i)
    BY <1>3, <2>2, <2>4, <2>5, <2>6 DEF ChangedAt
  <2>8. \A j \in 1..l : d[j].value \in Nat
    <3>1. \A j \in 1..l : j \in 1..clen /\ cipher[j].value \in Nat
      <4>1. \A j \in 1..l : cipher[j].value \in Nat
        BY SentValues
      <4> QED
        BY <1>2, <4>1
    <3> QED
      BY <1>3, <2>6, <3>1
  <2>9. TagAt(d, l, npub, ad, msg, 1)
    <3>1. 1 \in 1..TAG_BYTES /\ l + 1 \in 1..clen /\ l + 1 # i
      BY <1>2, <1>4
    <3> QED
      BY <1>3, <3>1 DEF TagAt
  <2>10. Refused
    <3>1. Len(d) = l + CRYPTO_ABYTES
      BY <1>3
    <3>2. npub # npub \/ ad # ad \/ \E j \in 1..l : ChangedAt(npub, ad, msg, d, j)
      BY <1>4, <2>7
    <3> QED
      BY <1>1, <1>3, <2>8, <2>9, <3>1, <3>2, DeliveredOther DEF Refused
  <2>11. Counted(i)
    BY <1>2, <1>4 DEF Counted
  <2> QED
    BY <2>10, <2>11
<1>5. CASE i \notin 1..l
  <2>1. AsSent(npub, ad, msg, d, l)
    <3>1. \A j \in 1..l : j \in 1..clen /\ j # i
      BY <1>2, <1>5
    <3> QED
      BY <1>3, <3>1 DEF AsSent
  <2>2. Len(d) = l + CRYPTO_ABYTES
    BY <1>3
  <2>3. CASE Counted(i)
    <3>1. PICK j \in 1..TAG_BYTES : i = l + j
      <4>1. i - l \in 1..TAG_BYTES /\ i = l + (i - l)
        BY <1>2, <1>5, <2>3 DEF Counted
      <4> QED
        BY <4>1
    <3>2. cipher[i] = TagPads(After(npub, ad, msg))[j]
      BY <3>1 DEF TagAt
    <3>3. PICK x : x = After(npub, ad, msg).chain
      OBVIOUS
    <3>4. TagPads(After(npub, ad, msg))[j]
            = [value |-> 0, pad |-> [chain |-> x, place |-> ASCON_AEAD_RATE + j]]
      <4>1. TagPads(After(npub, ad, msg))[j]
              = [value |-> 0, pad |-> [chain |-> After(npub, ad, msg).chain,
                                       place |-> ASCON_AEAD_RATE + j]]
        BY <3>1 DEF TagPads
      <4> QED
        BY <3>3, <4>1
    <3>5. y.value = (0 + 1) % ByteValues
      BY <3>2, <3>4 DEF Change
    <3>6. y.value # 0
      <4>1. 0 \in 0..(ByteValues - 1)
        BY AeadSizes
      <4> QED
        BY <3>5, <4>1, ChangeShows
    <3> HIDE DEF y
    <3>7. ~TagAt(d, l, npub, ad, msg, j)
      BY <1>3, <3>1, <3>4, <3>6 DEF TagAt
    <3>8. Refused
      BY <1>1, <1>3, <2>1, <2>2, <3>7, DeliveredTag DEF Refused
    <3> QED
      BY <2>3, <3>8
  <2>4. CASE ~Counted(i)
    <3>1. \A j \in 1..TAG_BYTES : TagAt(d, l, npub, ad, msg, j)
      <4>1. ~(i <= l + TAG_BYTES)
        BY <2>4 DEF Counted
      <4>2. \A j \in 1..TAG_BYTES : l + j \in 1..clen /\ l + j # i
        BY <1>2, <4>1
      <4> QED
        BY <1>3, <4>2 DEF TagAt
    <3>2. Accepted
      BY <1>1, <1>3, <2>1, <2>2, <3>1, DeliveredIntact DEF Accepted
    <3> QED
      BY <2>4, <3>2
  <2> QED
    BY <2>3, <2>4
<1> QED
  BY <1>4, <1>5

(* Whatever is delivered is accepted if it is what was sent, and refused otherwise. *)
LEMMA DeliveryRight ==
    ASSUME AeadInv, AeadDecrypt
    PROVE  /\ aead_fate' = "intact" => Accepted
           /\ aead_fate' \notin {"none", "intact"} => Refused
           /\ UNCHANGED <<aead_sent, cipher, clen>>
<1>1. clen > 0 /\ clen \in Nat
  BY DEF AeadDecrypt, AeadInv
<1> DEFINE Sent(S, npub, ad, msg, l) ==
              /\ npub = aead_sent.nonce /\ ad = aead_sent.ad /\ msg = aead_sent.msg
              /\ l = Len(msg) /\ clen = l + CRYPTO_ABYTES
              /\ \A i \in 1..l : msg[i] \in 0..(ByteValues - 1)
              /\ cipher \in Seq(S) /\ Len(cipher) = clen /\ AsSent(npub, ad, msg, cipher, l)
              /\ \A i \in 1..TAG_BYTES : TagAt(cipher, l, npub, ad, msg, i)
<1>0. PICK S : \E npub \in NonceValues, ad \in Seq(Nat), msg \in Seq(Nat), l \in Nat :
                  Sent(S, npub, ad, msg, l)
  BY <1>1, SentFacts
<1>2. PICK npub \in NonceValues, ad \in Seq(Nat), msg \in Seq(Nat), l \in Nat :
          Sent(S, npub, ad, msg, l)
  BY <1>0
<1>3. Len(cipher) = l + CRYPTO_ABYTES /\ 1 \in 1..TAG_BYTES
  BY <1>2, AeadSizes
<1>4. \A i \in 1..l : cipher[i].value \in Nat
  BY <1>2, SentValues
<1>5. TagAt(cipher, l, npub, ad, msg, 1)
  BY <1>2, <1>3
<1>6. CASE AeadDeliver("intact", npub, ad, cipher)
  <2>1. ascon_aead_decrypt(npub, ad, cipher) /\ aead_fate' = "intact"
    BY <1>6 DEF AeadDeliver
  <2>2. Accepted
    BY <1>2, <1>3, <2>1, DeliveredIntact DEF Accepted
  <2> QED
    BY <2>1, <2>2 DEF ascon_aead_decrypt
<1>7. ASSUME NEW i \in 1..clen,
             AeadDeliver(IF Counted(i) THEN "changed" ELSE "intact", npub, ad,
                         [cipher EXCEPT ![i] = Change(@)])
      PROVE  /\ aead_fate' = "intact" => Accepted
             /\ aead_fate' \notin {"none", "intact"} => Refused
             /\ UNCHANGED <<aead_sent, cipher, clen>>
  <2>1. /\ ascon_aead_decrypt(npub, ad, [cipher EXCEPT ![i] = Change(@)])
        /\ aead_fate' = IF Counted(i) THEN "changed" ELSE "intact"
    BY <1>7 DEF AeadDeliver
  <2>2. IF Counted(i) THEN Refused ELSE Accepted
    BY <1>2, <2>1, ByteChanged
  <2>3. UNCHANGED <<aead_sent, cipher, clen>>
    BY <2>1 DEF ascon_aead_decrypt
  <2> QED
    BY <2>1, <2>2, <2>3
<1>8. ASSUME NEW k \in 0..(clen - 1), AeadDeliver("cut", npub, ad, SubSeq(cipher, 1, k))
      PROVE  aead_fate' = "cut" /\ Refused /\ UNCHANGED <<aead_sent, cipher, clen>>
  <2>1. ascon_aead_decrypt(npub, ad, SubSeq(cipher, 1, k)) /\ aead_fate' = "cut"
    BY <1>8 DEF AeadDeliver
  <2>2. k \in Nat /\ k < Len(cipher)
    BY <1>1, <1>2
  <2>3. Refused
    BY <1>2, <1>3, <2>1, <2>2, DeliveredCut DEF Refused
  <2> QED
    BY <2>1, <2>3 DEF ascon_aead_decrypt
<1>9. ASSUME NEW how, NEW n2 \in NonceValues, NEW ad2 \in Seq(Nat), npub # n2 \/ ad # ad2,
             AeadDeliver(how, n2, ad2, cipher)
      PROVE  aead_fate' = how /\ Refused /\ UNCHANGED <<aead_sent, cipher, clen>>
  <2>1. ascon_aead_decrypt(n2, ad2, cipher) /\ aead_fate' = how
    BY <1>9 DEF AeadDeliver
  <2>2. cipher \in Seq(S) /\ l = Len(msg)
    BY <1>2
  <2>3. npub # n2 \/ ad # ad2 \/ \E i \in 1..l : ChangedAt(npub, ad, msg, cipher, i)
    BY <1>9
  <2>4. Refused
    BY <1>3, <1>4, <1>5, <2>1, <2>2, <2>3, DeliveredOther DEF Refused
  <2> QED
    BY <2>1, <2>4 DEF ascon_aead_decrypt
<1>10. CASE \E i \in 1..clen :
               AeadDeliver(IF Counted(i) THEN "changed" ELSE "intact", npub, ad,
                           [cipher EXCEPT ![i] = Change(@)])
  BY <1>7, <1>10
<1>11. CASE \E k \in 0..(clen - 1) : AeadDeliver("cut", npub, ad, SubSeq(cipher, 1, k))
  BY <1>8, <1>11
<1>12. CASE \E a \in AeadAssociated \ {ad} : AeadDeliver("ad", npub, a, cipher)
  BY <1>9, <1>12, AeadData
<1>13. CASE \E n \in AeadNonces \ {npub} : AeadDeliver("nonce", n, ad, cipher)
  BY <1>9, <1>13, AeadData
<1>14. \/ AeadDeliver("intact", npub, ad, cipher)
       \/ \E i \in 1..clen :
             AeadDeliver(IF Counted(i) THEN "changed" ELSE "intact", npub, ad,
                         [cipher EXCEPT ![i] = Change(@)])
       \/ \E k \in 0..(clen - 1) : AeadDeliver("cut", npub, ad, SubSeq(cipher, 1, k))
       \/ \E a \in AeadAssociated \ {ad} : AeadDeliver("ad", npub, a, cipher)
       \/ \E n \in AeadNonces \ {npub} : AeadDeliver("nonce", n, ad, cipher)
  BY <1>2 DEF AeadDecrypt
<1> QED
  BY <1>6, <1>10, <1>11, <1>12, <1>13, <1>14

-----------------------------------------------------------------------------
LEMMA AeadInvInit == AeadInit => AeadInv
BY DEF AeadInit, AeadInv, AcceptedIffIntact

LEMMA AeadInvNext ==
    ASSUME AeadInv, [AeadNext]_aeadVars
    PROVE  AeadInv'
<1>1. CASE UNCHANGED aeadVars
  BY <1>1 DEF aeadVars, AeadInv, SentAead, AcceptedIffIntact
<1>2. CASE AeadEncrypt
  <2>1. PICK n \in AeadNonces, m \in AeadMessages, a \in AeadAssociated :
            ascon_aead_encrypt(n, m, a)
    BY <1>2 DEF AeadEncrypt
  <2>2. m \in Seq(Nat)
    BY AeadData
  <2>3. clen' = Len(m) + CRYPTO_ABYTES /\ clen' \in Nat /\ clen' > 0
    BY <2>1, <2>2, AeadSizes DEF ascon_aead_encrypt, CiphertextLength
  <2>4. SentAead'
    BY <2>1, <2>3 DEF SentAead, ascon_aead_encrypt
  <2>5. aead_fate = "none" /\ aead_fate' = "none"
    BY <1>2, <2>1 DEF AeadEncrypt, AeadInv, ascon_aead_encrypt
  <2>6. AcceptedIffIntact'
    BY <2>5 DEF AcceptedIffIntact
  <2> QED
    BY <2>3, <2>4, <2>6 DEF AeadInv
<1>3. CASE AeadDecrypt
  <2>1. /\ aead_fate' = "intact" => Accepted
        /\ aead_fate' \notin {"none", "intact"} => Refused
        /\ UNCHANGED <<aead_sent, cipher, clen>>
    BY <1>3, DeliveryRight
  <2>2. AcceptedIffIntact'
    BY <2>1 DEF AcceptedIffIntact, Accepted, Refused
  <2>3. SentAead' <=> SentAead
    BY <2>1 DEF SentAead
  <2>4. clen > 0
    BY <1>3 DEF AeadDecrypt
  <2> QED
    BY <2>1, <2>2, <2>3, <2>4 DEF AeadInv
<1> QED
  BY <1>1, <1>2, <1>3 DEF AeadNext

LEMMA AeadInvAuthentic == AeadInv => AeadAuthentic
<1> SUFFICES ASSUME AeadInv PROVE AeadAuthentic
  OBVIOUS
<1>1. ASSUME clen > 0, NEW n \in AeadNonces, NEW m \in AeadMessages, NEW a \in AeadAssociated,
             After(n, a, m) = After(aead_sent.nonce, aead_sent.ad, aead_sent.msg)
      PROVE  n = aead_sent.nonce /\ a = aead_sent.ad /\ m = aead_sent.msg
  <2>1. SentAead
    BY <1>1 DEF AeadInv
  <2>2. PICK n2 \in NonceValues, a2 \in Seq(Nat), m2 \in Seq(Nat) :
            n2 = aead_sent.nonce /\ a2 = aead_sent.ad /\ m2 = aead_sent.msg
    BY <2>1, AeadData DEF SentAead
  <2>3. n \in NonceValues /\ a \in Seq(Nat) /\ m \in Seq(Nat)
    BY AeadData
  <2>4. After(n, a, m).chain = After(n2, a2, m2).chain
    BY <1>1, <2>2
  <2>5. n = n2 /\ a = a2 /\ m = m2
    BY <2>3, <2>4, AfterUndone
  <2> QED
    BY <2>2, <2>5
<1>2. TagsTellMessagesApart
  BY <1>1 DEF TagsTellMessagesApart
<1> QED
  BY <1>2 DEF AeadAuthentic, AeadInv

(***************************************************************************)
(* Ascon's cipher, for messages, associated data and nonces of any number  *)
(* and length: what arrives as it was sent is accepted and is what was     *)
(* encrypted; what arrives changed in any byte of text or tag, shorter,    *)
(* with other associated data or under another nonce is refused; and two   *)
(* messages never leave the same state for their tags                      *)
(* (ascon_encrypt.c:53, 58, 75, ascon_decrypt.c:17, 101).                  *)
(***************************************************************************)
THEOREM AsconIsAuthentic == AeadSpec => []AeadAuthentic
<1>1. AeadSpec => []AeadInv
  BY AeadInvInit, AeadInvNext, PTL DEF AeadSpec
<1> QED
  BY <1>1, AeadInvAuthentic, PTL
=============================================================================
