--------------------------- MODULE MultDiv_proofs ---------------------------
(***************************************************************************)
(* The multiplier/divider keeps its registers within their widths, comes   *)
(* to rest after every instruction, and implements ExecAbs: products,      *)
(* quotients, remainders and the results of the Kyber instructions are     *)
(* those of IsaRef, for every program of legal instructions.  Ranges and   *)
(* Kyber sums, differences and products hold for every width and modulus   *)
(* WordsAssumption admits; what else a theorem assumes it says.            *)
(***************************************************************************)
EXTENDS MultDiv, KyberArith, IsaRef, TLAPS

-----------------------------------------------------------------------------
(***************************************************************************)
(* The Kyber datapath computes modular arithmetic, for every modulus and   *)
(* every lane and half width that WordsAssumption admits.                  *)
(***************************************************************************)
Coeff == 0..(Q - 1)

(* Division with remainder: the facts the leaves below use of \div and %.  *)
LEMMA DivMod ==
    ASSUME NEW d \in Nat, d > 0, NEW n \in Int
    PROVE  /\ n = (n \div d) * d + (n % d)
           /\ n \div d \in Int
           /\ n % d \in 0..(d - 1)
  BY SMT

LEMMA DivModNat ==
    ASSUME NEW d \in Nat, d > 0, NEW n \in Nat
    PROVE  /\ n = (n \div d) * d + (n % d)
           /\ n \div d \in Nat
           /\ n % d \in 0..(d - 1)
  BY SMT

LEMMA DivModUnique ==
    ASSUME NEW d \in Nat, d > 0, NEW q \in Int, NEW r \in 0..(d - 1)
    PROVE  (q * d + r) \div d = q /\ (q * d + r) % d = r
  BY SMT

LEMMA Constants ==
    /\ Half \in Nat /\ Lane \in Nat /\ Q \in Nat
    /\ 2 <= Q /\ Q <= Lane /\ 4 * Lane <= Half
    /\ BarrettBase \in Nat /\ BarrettBase = Lane * Lane
    /\ Q * Q <= BarrettBase
    /\ BarrettM \in Nat
    /\ BarrettBase = BarrettM * Q + (BarrettBase % Q)
    /\ BarrettBase % Q \in Coeff
<1>1. /\ Half \in Nat /\ Lane \in Nat /\ Q \in Nat
      /\ 2 <= Q /\ Q <= Lane /\ 4 * Lane <= Half
  BY WordsAssumption
<1>2. BarrettBase \in Nat /\ BarrettBase = Lane * Lane
  BY <1>1 DEF BarrettBase
<1>3. Q * Q <= Lane * Lane
  BY <1>1, SMT
<1>4. /\ BarrettBase = BarrettM * Q + (BarrettBase % Q)
      /\ BarrettM \in Int
      /\ BarrettBase % Q \in 0..(Q - 1)
  BY <1>1, <1>2, DivMod DEF BarrettM
<1>5. BarrettM \in Nat
  BY <1>1, <1>2, <1>4, SMT DEF BarrettM
<1> QED
  BY <1>1, <1>2, <1>3, <1>4, <1>5 DEF Coeff

(***************************************************************************)
(* The hardware's shift-and-add chain is a multiplication by 5039 for the  *)
(* product of any two coefficients: the 26 bits it takes of the ALU sum    *)
(* are enough.                                                             *)
(***************************************************************************)
THEOREM ShiftAddChainExact ==
    ASSUME 5 * (Q * Q) <= 4 * BarrettBase,
           NEW x \in Nat, x < Q * Q
    PROVE  ShiftAddChain(x) = 5039 * x
<1>1. Q \in Nat /\ Q * Q \in Nat /\ BarrettBase \in Nat
  BY Constants, SMT
<1>2. 4 * x + x = 5 * x /\ 5 * x \in 0..(4 * BarrettBase - 1)
  BY <1>1, SMT
<1>3. (5 * x) % (4 * BarrettBase) = 5 * x
  BY <1>1, <1>2, SMT
<1>4. ShiftAddChain(x) = (5 * x) * 1024 - 64 * x - 16 * x - x
  BY <1>2, <1>3, SMT DEF ShiftAddChain
<1> QED
  BY <1>4, SMT

(***************************************************************************)
(* Multiplying lane by lane and shifting in two steps is a multiplication  *)
(* by 5039 and one shift by 24.                                            *)
(***************************************************************************)
LEMMA BarrettQuotient ==
    ASSUME NEW x \in Nat
    PROVE  /\ ShiftRight24Of5039(x) \in Nat
           /\ \E r \in 0..(BarrettBase - 1) :
                 BarrettM * x = ShiftRight24Of5039(x) * BarrettBase + r
<1> DEFINE h == x \div Lane
           l == x % Lane
           u == (BarrettM * l) \div Lane
           s == (BarrettM * l) % Lane
           n == BarrettM * h + u
           v == n \div Lane
           w == n % Lane
<1>1. x = h * Lane + l /\ h \in Nat /\ l \in Nat
  BY Constants, SMT
<1>2. BarrettM * l \in Nat /\ BarrettM * h \in Nat
  BY <1>1, Constants, SMT
<1> HIDE DEF h, l
<1>3. BarrettM * l = u * Lane + s /\ u \in Nat /\ s \in 0..(Lane - 1)
  BY <1>2, Constants, SMT
<1>4. n \in Nat
  BY <1>2, <1>3
<1> HIDE DEF u, s, n
<1>5. n = v * Lane + w /\ v \in Nat /\ w \in 0..(Lane - 1)
  BY <1>4, Constants, DivModNat, SMT
<1> HIDE DEF v, w
<1>6. BarrettM * x = v * BarrettBase + (w * Lane + s)
  <2>1. BarrettM * x = (BarrettM * h) * Lane + BarrettM * l
    BY <1>1, Constants, SMT
  <2>2. BarrettM * x = n * Lane + s
    BY <2>1, <1>2, <1>3, Constants, SMT DEF n
  <2>3. (v * Lane + w) * Lane = v * (Lane * Lane) + w * Lane
    BY <1>5, Constants, SMT
  <2> QED
    BY <2>2, <2>3, <1>3, <1>5, Constants, SMT
<1>7. w * Lane + s \in 0..(BarrettBase - 1)
  <2>1. w * Lane <= (Lane - 1) * Lane /\ w * Lane \in Nat
    BY <1>5, Constants, SMT
  <2> QED
    BY <2>1, <1>3, Constants, SMT
<1>8. ShiftRight24Of5039(x) = v
  BY DEF ShiftRight24Of5039, h, l, u, n, v
<1> QED
  BY <1>5, <1>6, <1>7, <1>8

(***************************************************************************)
(* With the hardware's constants, ShiftRight24Of5039 is the shift-and-add  *)
(* chain followed by one shift by 24, for the product of two coefficients. *)
(***************************************************************************)
THEOREM ShiftRight24Exact ==
    ASSUME BarrettM = 5039, 5 * (Q * Q) <= 4 * BarrettBase,
           NEW x \in Nat, x < Q * Q
    PROVE  ShiftRight24Of5039(x) = ShiftAddChain(x) \div BarrettBase
<1>1. PICK r \in 0..(BarrettBase - 1) :
         BarrettM * x = ShiftRight24Of5039(x) * BarrettBase + r
  BY BarrettQuotient
<1>2. ShiftAddChain(x) = ShiftRight24Of5039(x) * BarrettBase + r
  BY <1>1, ShiftAddChainExact
<1>3. ShiftRight24Of5039(x) \in Int /\ BarrettBase \in Nat /\ BarrettBase > 0
  BY BarrettQuotient, Constants, SMT
<1> QED
  BY <1>2, <1>3, DivModUnique

(***************************************************************************)
(* The quotient estimate t of a Barrett reduction is at most one too small *)
(* for every x up to 2^24: 2^24 = 5039 * Q + e with e < Q, so that         *)
(* t * Q <= x, and x * e < Q * 2^24, so that x < (t + 2) * Q.              *)
(***************************************************************************)
LEMMA BarrettEstimate ==
    ASSUME NEW x \in 0..BarrettBase
    PROVE  LET t == ShiftRight24Of5039(x)
           IN  t \in Nat /\ x - t * Q \in 0..(2 * Q - 1)
<1> DEFINE t == ShiftRight24Of5039(x)
           e == BarrettBase % Q
           K == BarrettBase
           M == BarrettM
<1>1. /\ K \in Nat /\ M \in Nat /\ Q \in Nat /\ e \in 0..(Q - 1)
      /\ K = M * Q + e /\ Q >= 2 /\ K > 0 /\ x \in Nat /\ x <= K
  BY Constants, SMT DEF Coeff
<1>2. t \in Nat
  BY <1>1, BarrettQuotient
<1>3. PICK r \in 0..(K - 1) : M * x = t * K + r
  BY <1>1, BarrettQuotient
<1> HIDE DEF t, e, K, M
<1>4. K * x = (t * K + r) * Q + e * x
  <2>1. K * x = (M * Q) * x + e * x
    BY <1>1, SMT
  <2>2. (M * Q) * x = (M * x) * Q
    BY <1>1, SMT
  <2> QED
    BY <2>1, <2>2, <1>3
<1>5. K * x = K * (t * Q) + (r * Q + e * x)
  BY <1>1, <1>2, <1>4, SMT
<1>6. r * Q + e * x \in Nat
  BY <1>1, SMT
<1>7. r * Q + e * x < K * (2 * Q)
  <2>1. r * Q < K * Q
    BY <1>1, SMT
  <2>2. e * x <= Q * K
    BY <1>1, SMT
  <2> QED
    BY <2>1, <2>2, <1>1, SMT
<1>8. t * Q <= x
  BY <1>1, <1>2, <1>5, <1>6, SMT
<1>9. x < t * Q + 2 * Q
  BY <1>1, <1>2, <1>5, <1>7, SMT
<1> QED
  BY <1>1, <1>2, <1>8, <1>9, SMT DEF t

(* One conditional subtraction reduces a value below 2 * Q.                *)
LEMMA SubtractQCorrect ==
    ASSUME NEW r \in 0..(2 * Q - 1)
    PROVE  SubtractQ(r) = r % Q /\ SubtractQ(r) \in Coeff /\ Lane13(r) = r
<1> DEFINE s == r + 2 * Lane - Q
<1>1. /\ Lane \in Nat /\ Q \in Nat /\ 2 <= Q /\ Q <= Lane
      /\ r \in Nat /\ r < 2 * Q
  BY Constants
<1>2. Lane13(r) = r
  BY <1>1, SMT DEF Lane13
<1>3. CASE r < Q
  <2>1. LaneCarry(s) = 1
    <3>1. s = 1 * Lane + (r + Lane - Q) /\ r + Lane - Q \in 0..(Lane - 1)
      BY <1>1, <1>3
    <3>2. s \div Lane = 1
      BY <1>1, <3>1, DivModUnique
    <3> QED
      BY <3>2, SMT DEF LaneCarry
  <2>2. SubtractQ(r) = r
    BY <1>1, <1>3, <2>1, SMT DEF SubtractQ, Lane12
  <2> QED
    BY <1>1, <1>2, <1>3, <2>2, SMT DEF Coeff
<1>4. CASE r >= Q
  <2>1. s = 2 * Lane + (r - Q) /\ r - Q \in 0..(Lane - 1)
    BY <1>1, <1>4
  <2>2. s \div Lane = 2 /\ s % Lane = r - Q
    BY <1>1, <2>1, DivModUnique
  <2>3. SubtractQ(r) = r - Q
    BY <2>2, SMT DEF SubtractQ, LaneCarry, Lane12
  <2>4. r % Q = r - Q
    BY <1>1, <1>4, SMT
  <2> QED
    BY <1>1, <1>2, <1>4, <2>3, <2>4, SMT DEF Coeff
<1> QED
  BY <1>1, <1>3, <1>4

(* Words made of two halves, and the halves of a word.                     *)
LEMMA Halves ==
    ASSUME NEW h \in Int, NEW l \in 0..(Half - 1)
    PROVE  Join(h, l) \in Int /\ Lo(Join(h, l)) = l /\ Hi(Join(h, l)) = h
  BY Constants, DivModUnique, SMT DEF Join, Lo, Hi

LEMMA WordHalves ==
    ASSUME NEW w, IsWord(w)
    PROVE  /\ w \in Nat /\ Lo(w) \in 0..(Half - 1) /\ Hi(w) \in 0..(Half - 1)
           /\ w = Join(Hi(w), Lo(w))
  BY Constants, DivModNat, SMT DEF IsWord, Lo, Hi, Join

(***************************************************************************)
(* KYBER_MUL reduces the product of two coefficients completely.           *)
(***************************************************************************)
THEOREM KyberMulCorrect ==
    ASSUME NEW a, NEW b, Lo(a) \in Coeff, Lo(b) \in Coeff
    PROVE  LET x == Lo(a) * Lo(b)
           IN  BarrettAdjust(x, TimesQ(ShiftRight24Of5039(x))) = MulModRef(a, b)
<1> DEFINE x == Lo(a) * Lo(b)
           t == ShiftRight24Of5039(x)
           d == x - t * Q
<1>1. x \in 0..BarrettBase
  <2>1. x <= Q * Q /\ x \in Nat
    BY Constants, SMT DEF Coeff
  <2> QED
    BY <2>1, Constants, SMT
<1>2. t \in Nat /\ d \in 0..(2 * Q - 1)
  BY <1>1, BarrettEstimate
<1> HIDE DEF x, t
<1>3. t < Half
  <2>1. t * Q <= Lane * Lane
    BY <1>1, <1>2, Constants, SMT
  <2>2. x < Q * Q
    BY Constants, SMT DEF x, Coeff
  <2>3. t * Q < Q * Q
    BY <2>2, <1>1, <1>2, Constants, SMT
  <2> QED
    BY <2>3, <1>2, Constants, SMT
<1>4. TimesQ(t) = t * Q
  BY <1>2, <1>3, Constants, SMT DEF TimesQ, Lo
<1>5. d % Q = x % Q
  <2> DEFINE k == d \div Q
             m == d % Q
  <2>1. d = k * Q + m /\ k \in Nat /\ m \in 0..(Q - 1)
    BY <1>2, Constants, DivModNat
  <2> HIDE DEF k, m
  <2> DEFINE q == t + k
  <2>2. x = q * Q + m
    BY <2>1, <1>1, <1>2, Constants, SMT
  <2>3. q \in Int /\ Q \in Nat /\ Q > 0
    BY <2>1, <1>2, Constants
  <2> HIDE DEF q
  <2>4. (q * Q + m) % Q = m
    BY <2>1, <2>3, DivModUnique
  <2> QED
    BY <2>2, <2>4 DEF m
<1>6. d \in 0..(Half - 1) /\ d = Join(0, d)
  BY <1>2, Constants, SMT DEF Join
<1>7. Lo(d) = d /\ Hi(d) = 0
  BY <1>6, Halves, SMT
<1>8. Lane12(0) = 0
  BY Constants, SMT DEF Lane12
<1>9. SubtractQ(d) = d % Q /\ SubtractQ(d) \in Coeff /\ Lane13(d) = d
  BY <1>2, SubtractQCorrect
<1>10. BarrettAdjust(x, TimesQ(t)) = d % Q
  <2>1. BarrettAdjust(x, TimesQ(t)) = Join(0, SubtractQ(d))
    BY <1>4, <1>7, <1>8, <1>9 DEF BarrettAdjust
  <2> QED
    BY <2>1, <1>9, Constants, SMT DEF Join, Coeff
<1> QED
  BY <1>5, <1>10 DEF MulModRef, x, t

(***************************************************************************)
(* KYBER_ADD adds both coefficients modulo Q: the lanes do not disturb     *)
(* each other.                                                             *)
(***************************************************************************)
LEMMA AddMod ==
    ASSUME NEW x \in Coeff, NEW y \in Coeff
    PROVE  /\ x + y \in 0..(2 * Q - 1) /\ x + y \in 0..(Half - 1)
           /\ Lane12(x) = x
  BY Constants, SMT DEF Coeff, Lane12

THEOREM KyberAddCorrect ==
    ASSUME NEW a, NEW b, IsWord(a), IsWord(b),
           Lo(a) \in Coeff, Hi(a) \in Coeff, Lo(b) \in Coeff, Hi(b) \in Coeff
    PROVE  KyberAdd(a, b) = AddRef(a, b)
<1> DEFINE low  == Lo(a) + Lo(b)
           high == Hi(a) + Hi(b)
           sum  == a + Join(Lane12(Hi(b)), Lane12(Lo(b)))
<1>1. /\ low \in 0..(2 * Q - 1) /\ low \in 0..(Half - 1)
      /\ high \in 0..(2 * Q - 1) /\ high \in 0..(Half - 1)
      /\ Lane12(Lo(b)) = Lo(b) /\ Lane12(Hi(b)) = Hi(b)
  BY AddMod
<1>2. a = Join(Hi(a), Lo(a))
  BY WordHalves
<1>3. sum = Join(high, low)
  BY <1>1, <1>2, Constants, SMT DEF Join, Coeff
<1>4. Lo(sum) = low /\ Hi(sum) = high
  BY <1>1, <1>3, Halves
<1>5. /\ SubtractQ(Lane13(Lo(sum))) = low % Q
      /\ SubtractQ(Lane13(Hi(sum))) = high % Q
  BY <1>1, <1>4, SubtractQCorrect
<1> QED
  BY <1>5 DEF KyberAdd, AddRef

(***************************************************************************)
(* KYBER_SUB subtracts both coefficients modulo Q: the guard bit keeps the *)
(* borrow of the lower lane out of the upper one.                          *)
(***************************************************************************)
LEMMA BorrowCorrect ==
    ASSUME NEW x \in Coeff, NEW y \in Coeff
    PROVE  LET r == x - y + Lane
           IN  /\ r \in 0..(Half - 1) /\ Lane13(r) = r
               /\ AddQIf(LaneCarry(r) = 0, r) = (x - y) % Q
<1> DEFINE r == x - y + Lane
<1>1. /\ Lane \in Nat /\ Q \in Nat /\ 2 <= Q /\ Q <= Lane /\ 4 * Lane <= Half
      /\ Half \in Nat /\ x \in 0..(Q - 1) /\ y \in 0..(Q - 1)
  BY Constants DEF Coeff
<1>2. r \in 0..(Half - 1) /\ Lane13(r) = r
  BY <1>1, SMT DEF Lane13
<1>3. CASE x >= y
  <2>1. r = 1 * Lane + (x - y) /\ x - y \in 0..(Lane - 1)
    BY <1>1, <1>3
  <2>2. r \div Lane = 1 /\ r % Lane = x - y
    BY <1>1, <2>1, DivModUnique
  <2>3. LaneCarry(r) = 1
    BY <2>2, SMT DEF LaneCarry
  <2>4. (x - y) % Q = x - y
    BY <1>1, <1>3, SMT
  <2> QED
    BY <1>2, <2>2, <2>3, <2>4 DEF AddQIf, Lane12
<1>4. CASE x < y
  <2>1. r = 0 * Lane + r /\ r \in 0..(Lane - 1)
    BY <1>1, <1>4
  <2>2. r \div Lane = 0
    BY <1>1, <2>1, DivModUnique
  <2>3. LaneCarry(r) = 0
    BY <2>2, SMT DEF LaneCarry
  <2>4. r + Q = 1 * Lane + (x - y + Q) /\ x - y + Q \in 0..(Lane - 1)
    BY <1>1, <1>4
  <2>5. Lane12(r + Q) = x - y + Q
    BY <1>1, <2>4, DivModUnique DEF Lane12
  <2>6. x - y = (-1) * Q + (x - y + Q) /\ x - y + Q \in 0..(Q - 1)
    BY <1>1, <1>4
  <2>7. (x - y) % Q = x - y + Q
    BY <1>1, <2>6, DivModUnique
  <2> QED
    BY <1>2, <2>3, <2>5, <2>7 DEF AddQIf
<1> QED
  BY <1>1, <1>3, <1>4

THEOREM KyberSubCorrect ==
    ASSUME NEW a, NEW b, IsWord(a), IsWord(b),
           Lo(a) \in Coeff, Hi(a) \in Coeff, Lo(b) \in Coeff, Hi(b) \in Coeff
    PROVE  KyberSub(a, b) = SubRef(a, b)
<1>0. PICK g \in Nat : g = Half \div 2 /\ 2 * g = Half
  BY WordsAssumption, SMT
<1> DEFINE lowA  == g + (Lo(a) % g)
           lowB  == g + (Lane - 1 - Lane12(Lo(b)))
           sum   == Join(Hi(a), lowA) + Join(Lane - 1 - Lane12(Hi(b)), lowB) + 1
           low   == Lo(a) - Lo(b) + Lane
           high  == Hi(a) - Hi(b) + Lane
           Fit(r) == AddQIf(LaneCarry(r) = 0, r)
<1>1. /\ Lane \in Nat /\ Q \in Nat /\ 2 <= Q /\ Q <= Lane /\ 4 * Lane <= Half
      /\ Half \in Nat /\ Lo(a) \in 0..(Q - 1) /\ Hi(a) \in 0..(Q - 1)
      /\ Lo(b) \in 0..(Q - 1) /\ Hi(b) \in 0..(Q - 1)
  BY Constants DEF Coeff
<1>3. Lane12(Lo(b)) = Lo(b) /\ Lane12(Hi(b)) = Hi(b)
  BY AddMod
<1>4. sum = Join(high, low)
  <2>1. lowA = g + Lo(a) /\ lowB = g + (Lane - 1 - Lo(b))
    <3>1. Lo(a) % g = Lo(a)
      BY <1>1, <1>0, SMT
    <3> QED
      BY <3>1, <1>3
  <2> HIDE DEF lowA, lowB
  <2>2. lowA + lowB + 1 = Half + low
    <3>1. Lo(a) \in Int /\ Lo(b) \in Int /\ Lane \in Int
      BY <1>1
    <3>2. g + g = Half
      BY <1>0
    <3> QED
      BY <2>1, <3>1, <3>2, SMT
  <2>3. Join(Hi(a), lowA) + Join(Lane - 1 - Hi(b), lowB) + 1
           = (Hi(a) + (Lane - 1 - Hi(b))) * Half + (lowA + lowB + 1)
    BY <2>1, <1>1, <1>0, SMT DEF Join
  <2> QED
    BY <2>2, <2>3, <1>1, <1>3, SMT DEF Join
<1>5. /\ low \in 0..(Half - 1) /\ Lane13(low) = low /\ Fit(low) = (Lo(a) - Lo(b)) % Q
      /\ high \in 0..(Half - 1) /\ Lane13(high) = high /\ Fit(high) = (Hi(a) - Hi(b)) % Q
  BY BorrowCorrect
<1>6. Lo(sum) = low /\ Hi(sum) = high
  BY <1>4, <1>5, Halves
<1>7. KyberSub(a, b) = Join(Fit(Lane13(Hi(sum))), Fit(Lane13(Lo(sum))))
  BY <1>0 DEF KyberSub
<1> QED
  BY <1>5, <1>6, <1>7 DEF SubRef

-----------------------------------------------------------------------------
(* Words and their ranges. *)
LEMMA WFacts ==
    /\ W \in Nat /\ W >= 64
    /\ Half \in Nat /\ Half >= 8 /\ Half <= W
    /\ W \div 2 \in Nat /\ W \div 2 >= 32 /\ W \div 2 < W
<1>1. Half \in Nat /\ Half >= 8
  BY Constants
<1>2. W \in Nat /\ W = Half * Half
  BY <1>1 DEF W
<1>3. W >= 8 * Half
  BY <1>1, <1>2, SMT
<1> QED
  BY <1>1, <1>2, <1>3, SMT

LEMMA WEven == W = 2 * (W \div 2) /\ W % 2 = 0
<1>1. Half \in Nat /\ Half % 2 = 0 /\ W = Half * Half
  BY Constants, WordsAssumption DEF W
<1>2. Half = 2 * (Half \div 2) /\ Half \div 2 \in Nat
  BY <1>1, SMT
<1>3. W = 2 * ((Half \div 2) * Half) /\ (Half \div 2) * Half \in Nat
  BY <1>1, <1>2, SMT
<1> QED
  BY <1>3, SMT

LEMMA WordRange ==
    ASSUME NEW w
    PROVE  /\ IsWord(w) <=> w \in 0..(W - 1)
           /\ IsWord34(w) <=> w \in 0..(4 * W - 1)
<1>1. Half \in Nat /\ Half >= 8 /\ W = Half * Half
  BY WFacts DEF W
<1>2. ASSUME w \in Nat, NEW n \in Nat
      PROVE  w \div Half < n <=> w < n * Half
  BY <1>1, <1>2, DivModNat, SMT
<1>3. w \in Nat => (Hi(w) < Half <=> w < Half * Half)
  BY <1>1, <1>2 DEF Hi
<1>4. w \in Nat => (Hi(w) < 4 * Half <=> w < (4 * Half) * Half)
  <2>1. 4 * Half \in Nat
    BY <1>1
  <2> QED
    BY <2>1, <1>2 DEF Hi
<1>5. (4 * Half) * Half = 4 * W
  BY <1>1, SMT
<1>6. Half * Half \in Nat
  BY <1>1, SMT
<1> QED
  BY <1>1, <1>3, <1>4, <1>5, <1>6, SMT DEF IsWord, IsWord34

LEMMA HalfWords ==
    ASSUME NEW w \in Nat
    PROVE  /\ Lo(w) \in 0..(Half - 1) /\ Hi(w) \in Nat /\ Hi(w) <= w
           /\ w < W => Hi(w) \in 0..(Half - 1)
<1>1. Half \in Nat /\ Half >= 8
  BY WFacts
<1>2. Lo(w) \in 0..(Half - 1) /\ Hi(w) \in Nat /\ w = Hi(w) * Half + Lo(w)
  BY <1>1, DivModNat DEF Lo, Hi
<1>3. Hi(w) <= w
  BY <1>1, <1>2, SMT
<1>4. w < W => Hi(w) < Half
  BY WordRange, WFacts DEF IsWord
<1> QED
  BY <1>1, <1>2, <1>3, <1>4, SMT

LEMMA JoinWord ==
    ASSUME NEW h \in 0..(Half - 1), NEW l \in 0..(Half - 1)
    PROVE  Join(h, l) \in 0..(W - 1)
<1>1. Half \in Nat /\ Half >= 8 /\ W = Half * Half
  BY WFacts DEF W
<1>2. h * Half <= (Half - 1) * Half /\ h * Half \in Nat
  BY <1>1, SMT
<1> QED
  BY <1>1, <1>2, SMT DEF Join

LEMMA HalfProduct ==
    ASSUME NEW h \in 0..(Half - 1), NEW l \in 0..Half
    PROVE  h * l \in 0..(W - 1)
<1>1. Half \in Nat /\ Half >= 8 /\ W = Half * Half
  BY WFacts DEF W
<1> QED
  BY <1>1, SMT

LEMMA CoeffWord == Coeff \subseteq 0..(W - 1)
  BY Constants, WFacts DEF Coeff

LEMMA Residue ==
    ASSUME NEW x \in Int
    PROVE  /\ x % W \in 0..(W - 1) /\ x % (4 * W) \in 0..(4 * W - 1)
           /\ x % Half \in 0..(Half - 1) /\ x % Q \in Coeff
           /\ Lane12(x) \in 0..(Half - 1)
<1>1. /\ W \in Nat /\ W > 0 /\ 4 * W \in Nat /\ 4 * W > 0
      /\ Half \in Nat /\ Half > 0 /\ Q \in Nat /\ Q > 0
      /\ Lane \in Nat /\ Lane > 0 /\ Lane < Half
  BY WFacts, Constants
<1>2. x % Lane \in 0..(Half - 1)
  BY <1>1, DivMod
<1> QED
  BY <1>1, <1>2, DivMod DEF Coeff, Lane12

-----------------------------------------------------------------------------
(* TypeOK with ranges instead of widths, and the operands it speaks of.    *)
LEMMA RegisterRanges ==
    ASSUME TypeOK
    PROVE  /\ imd0 \in 0..(4 * W - 1) /\ imd1 \in 0..(W - 1)
           /\ op_numerator_q \in 0..(W - 1) /\ op_quotient_q \in 0..(W - 1)
           /\ one_shift \in 1..(W - 1)
           /\ Lo(imd0) \in 0..(Half - 1) /\ Lo(Hi(imd0)) \in 0..(Half - 1)
           /\ Hi(imd0) \in Nat /\ Hi(imd0) <= imd0
<1>1. /\ imd0 \in 0..(4 * W - 1) /\ imd1 \in 0..(W - 1)
      /\ op_numerator_q \in 0..(W - 1) /\ op_quotient_q \in 0..(W - 1)
      /\ one_shift \in 0..(W - 1) /\ one_shift > 0
  BY WordRange DEF TypeOK
<1>2. one_shift \in 1..(W - 1)
  BY <1>1, WFacts
<1>3. imd0 \in Nat
  BY <1>1, WFacts
<1> QED
  BY <1>1, <1>2, <1>3, HalfWords

LEMMA Operands ==
    ASSUME TypeOK, instr # NoInstr
    PROVE  /\ LegalInstr(instr)
           /\ instr.sa \in BOOLEAN /\ instr.sb \in BOOLEAN
           /\ instr.a \in 0..(W - 1) /\ instr.b \in 0..(W - 1)
           /\ Lo(instr.a) \in 0..(Half - 1) /\ Lo(instr.b) \in 0..(Half - 1)
           /\ SignedHi(instr.a, instr.sa) \in Int
           /\ SignedHi(instr.b, instr.sb) \in Int
<1>1. LegalInstr(instr)
  BY DEF TypeOK
<1>2. /\ instr.a \in 0..(W - 1) /\ instr.b \in 0..(W - 1)
      /\ instr.sa \in BOOLEAN /\ instr.sb \in BOOLEAN
  BY <1>1, WordRange DEF LegalInstr
<1>3. instr.a \in Nat /\ instr.b \in Nat
  BY <1>2, WFacts
<1>4. /\ Lo(instr.a) \in 0..(Half - 1) /\ Hi(instr.a) \in Nat
      /\ Lo(instr.b) \in 0..(Half - 1) /\ Hi(instr.b) \in Nat
  BY <1>3, HalfWords
<1>5. SignedHi(instr.a, instr.sa) \in Int /\ SignedHi(instr.b, instr.sb) \in Int
  BY <1>4, WFacts, SMT DEF SignedHi
<1> QED
  BY <1>1, <1>2, <1>4, <1>5

(* The accumulator fits its 34 bits, and 32 bits once MUL has its result.  *)
LEMMA MacTypes ==
    ASSUME TypeOK, instr # NoInstr
    PROVE  /\ MacALBL \in 0..(W - 1)
           /\ MacALBH \in 0..(4 * W - 1)
           /\ MacAHBL \in 0..(4 * W - 1)
           /\ instr.op = "MULL" => MacAHBL \in 0..(W - 1)
           /\ MacAHBH \in 0..(4 * W - 1)
<1>1. W \in Nat /\ W > 0 /\ Half \in Nat /\ Half > 0
  BY WFacts
<1>2. 0..(W - 1) \subseteq 0..(4 * W - 1)
  BY <1>1
<1>3. MacALBL \in 0..(W - 1)
  <2>1. \A h \in 0..(Half - 1) : \A l \in 0..(Half - 1) : h * l \in 0..(W - 1)
    BY <1>1, HalfProduct, SMT
  <2> QED
    BY <2>1, Operands DEF MacALBL
<1>4. MacALBH \in 0..(4 * W - 1)
  <2> DEFINE m == Lo(instr.a) * SignedHi(instr.b, instr.sb) + Lo(Hi(imd0))
             mac == m % (4 * W)
  <2>1. m \in Int
    BY <1>1, Operands, RegisterRanges, SMT
  <2> HIDE DEF m
  <2>2. mac \in 0..(4 * W - 1)
    BY <2>1, Residue
  <2>3. Lo(mac) \in 0..(Half - 1)
    BY <2>2, <1>1, HalfWords, SMT
  <2>4. Join(Lo(mac), Lo(imd0)) \in 0..(4 * W - 1)
    BY <2>3, <1>2, RegisterRanges, JoinWord
  <2> QED
    BY <2>2, <2>4 DEF MacALBH, m
<1>5. MacAHBL \in 0..(4 * W - 1) /\ (instr.op = "MULL" => MacAHBL \in 0..(W - 1))
  <2> DEFINE m == SignedHi(instr.a, instr.sa) * Lo(instr.b)
  <2>1. m \in Int
    BY <1>1, Operands, SMT
  <2> HIDE DEF m
  <2>2. m + Lo(Hi(imd0)) \in Int /\ m + imd0 \in Int
    BY <2>1, <1>1, RegisterRanges
  <2>3. Lo(m + Lo(Hi(imd0))) \in 0..(Half - 1)
    BY <2>2, Residue DEF Lo
  <2>4. Join(Lo(m + Lo(Hi(imd0))), Lo(imd0)) \in 0..(W - 1)
    BY <2>3, RegisterRanges, JoinWord
  <2>5. (m + imd0) % (4 * W) \in 0..(4 * W - 1)
    BY <2>2, Residue
  <2> QED
    BY <2>4, <2>5, <1>2 DEF MacAHBL, m
<1>6. MacAHBH \in 0..(4 * W - 1)
  <2> DEFINE fill == IF (instr.sa \/ instr.sb) /\ imd0 >= 2 * W
                     THEN 4 * W - 4 * Half ELSE 0
             p == SignedHi(instr.a, instr.sa) * SignedHi(instr.b, instr.sb)
  <2>1. fill \in Int /\ p \in Int
    BY <1>1, Operands, SMT
  <2> HIDE DEF fill, p
  <2>2. p + (Hi(imd0) + fill) \in Int
    BY <2>1, RegisterRanges
  <2>3. (p + (Hi(imd0) + fill)) % (4 * W) \in 0..(4 * W - 1)
    BY <2>2, Residue
  <2> QED
    BY <2>3 DEF MacAHBH, fill, p
<1> QED
  BY <1>3, <1>4, <1>5, <1>6

(* One step of the division stays within the word. *)
LEMMA DivTypes ==
    ASSUME TypeOK, QuotientRoom
    PROVE  /\ Remainder \in 0..(W - 1)
           /\ next_remainder \in 0..(W - 1)
           /\ next_shift \in 1..(W - 1)
           /\ one_shift > 1 => 2 * next_shift <= one_shift
           /\ one_shift > 1 /\ next_shift # 1 => next_shift >= 2
           /\ next_quotient \in Nat /\ next_quotient <= op_quotient_q + one_shift
           /\ md_state_q \in {"MD_COMP", "MD_LAST"} => next_quotient \in 0..(W - 1)
<1>1. /\ W \in Nat /\ W >= 64 /\ imd0 \in Nat /\ imd1 \in Nat
      /\ op_quotient_q \in Nat /\ one_shift \in Nat /\ one_shift > 0
      /\ W \div 2 \in 1..(W - 1) /\ one_shift < W
  BY WFacts, RegisterRanges, SMT
<1>2. Remainder \in 0..(W - 1) /\ Difference \in 0..(W - 1)
  BY <1>1, Residue, SMT DEF Remainder, Difference, Denominator
<1>3. next_remainder \in 0..(W - 1)
  BY <1>2 DEF next_remainder
<1>4. /\ next_shift \in 1..(W - 1)
      /\ one_shift > 1 => 2 * next_shift <= one_shift
      /\ one_shift > 1 /\ next_shift # 1 => next_shift >= 2
  BY <1>1, SMT DEF next_shift
<1>5. next_quotient \in Nat /\ next_quotient <= op_quotient_q + one_shift
  BY <1>1, SMT DEF next_quotient
<1>6. md_state_q \in {"MD_COMP", "MD_LAST"} => next_quotient \in 0..(W - 1)
  BY <1>1, <1>5, SMT DEF QuotientRoom
<1> QED
  BY <1>2, <1>3, <1>4, <1>5, <1>6

(***************************************************************************)
(* The Kyber datapath on legal operands: sums, differences and products    *)
(* are the residues of the instruction set, and every result is a word.    *)
(***************************************************************************)
LEMMA LegalCoeffs ==
    ASSUME TypeOK, instr # NoInstr
    PROVE  /\ instr.op \in {"KYBER_ADD", "KYBER_SUB", "KYBER_MUL"} =>
                 /\ IsWord(instr.a) /\ IsWord(instr.b)
                 /\ Lo(instr.a) \in Coeff /\ Hi(instr.a) \in Coeff
                 /\ Lo(instr.b) \in Coeff /\ Hi(instr.b) \in Coeff
           /\ instr.op = "KYBER_COMPRESS" =>
                 instr.a \in Coeff /\ instr.b \in {2, 16, 32, 1024, 2048}
                 /\ 2 * instr.b <= BarrettBase
<1>1. LegalInstr(instr) /\ instr.a \in Nat /\ instr.b \in Nat
  BY Operands, WFacts
<1>2. /\ Lo(instr.a) \in Nat /\ Hi(instr.a) \in Nat
      /\ Lo(instr.b) \in Nat /\ Hi(instr.b) \in Nat
  BY <1>1, HalfWords, WFacts
<1>3. Q \in Nat /\ Q >= 2
  BY Constants
<1> QED
  BY <1>1, <1>2, <1>3, SMT DEF LegalInstr, Coeffs, Coeff

LEMMA PairWord ==
    ASSUME NEW h \in Int, NEW l \in Int
    PROVE  /\ Join(h % Q, l % Q) \in 0..(W - 1)
           /\ Join(Lane12(h), Lane12(l)) \in 0..(W - 1)
<1>1. Coeff \subseteq 0..(Half - 1)
  BY Constants, SMT DEF Coeff
<1>2. h % Q \in 0..(Half - 1) /\ l % Q \in 0..(Half - 1)
  BY <1>1, Residue
<1>3. Lane12(h) \in 0..(Half - 1) /\ Lane12(l) \in 0..(Half - 1)
  BY Residue
<1> QED
  BY <1>2, <1>3, JoinWord

LEMMA AddSubWord ==
    ASSUME TypeOK, instr # NoInstr, instr.op \in {"KYBER_ADD", "KYBER_SUB"}
    PROVE  KyberAluResult = Ref(instr) /\ KyberAluResult \in 0..(W - 1)
<1>1. /\ IsWord(instr.a) /\ IsWord(instr.b)
      /\ Lo(instr.a) \in Coeff /\ Hi(instr.a) \in Coeff
      /\ Lo(instr.b) \in Coeff /\ Hi(instr.b) \in Coeff
  BY LegalCoeffs
<1>2. /\ KyberAdd(instr.a, instr.b) = AddRef(instr.a, instr.b)
      /\ KyberSub(instr.a, instr.b) = SubRef(instr.a, instr.b)
  BY <1>1, KyberAddCorrect, KyberSubCorrect
<1>3. /\ Lo(instr.a) \in Int /\ Hi(instr.a) \in Int
      /\ Lo(instr.b) \in Int /\ Hi(instr.b) \in Int
  BY <1>1, Constants DEF Coeff
<1>4. /\ AddRef(instr.a, instr.b) \in 0..(W - 1)
      /\ SubRef(instr.a, instr.b) \in 0..(W - 1)
  <2>1. /\ Hi(instr.a) + Hi(instr.b) \in Int /\ Lo(instr.a) + Lo(instr.b) \in Int
        /\ Hi(instr.a) - Hi(instr.b) \in Int /\ Lo(instr.a) - Lo(instr.b) \in Int
    BY <1>3
  <2> QED
    BY <2>1, PairWord DEF AddRef, SubRef
<1>5. CASE instr.op = "KYBER_ADD"
  BY <1>2, <1>4, <1>5 DEF KyberAluResult, Ref
<1>6. CASE instr.op = "KYBER_SUB"
  BY <1>2, <1>4, <1>6 DEF KyberAluResult, Ref
<1> QED
  BY <1>5, <1>6

LEMMA CbdWord ==
    ASSUME NEW a \in Nat, NEW eta \in {2, 3}
    PROVE  KyberCbd(a, eta) \in 0..(W - 1)
<1>1. \A i \in 0..12 : Bit(a, i) \in Int
  <2>1. ASSUME NEW i \in 0..12 PROVE 2^i \in Int
    BY <2>1
  <2>2. ASSUME NEW n \in Int PROVE (a \div n) % 2 \in Int
    BY <2>2, SMT
  <2> QED
    BY <2>1, <2>2 DEF Bit
<1>2. CbdDiff(a, eta, 0) \in Int /\ CbdDiff(a, eta, 2 * eta) \in Int
  BY <1>1, SMT DEF CbdDiff
<1> DEFINE l == CbdDiff(a, eta, 0)
           h == CbdDiff(a, eta, 2 * eta)
<1>3. Join(AddQIf(h < 0, h), AddQIf(l < 0, l)) \in 0..(W - 1)
  <2> HIDE DEF l, h
  <2>1. l \in Int /\ h \in Int /\ l + Q \in Int /\ h + Q \in Int
    BY <1>2, Constants DEF l, h
  <2> QED
    BY <2>1, PairWord DEF AddQIf
<1> QED
  BY <1>3 DEF KyberCbd

LEMMA KyberAluWord ==
    ASSUME TypeOK, instr # NoInstr, instr.op \in KyberAluOps
    PROVE  KyberAluResult \in 0..(W - 1)
<1>1. instr.a \in Nat
  BY Operands, WFacts
<1>2. KyberCbd(instr.a, 2) \in 0..(W - 1) /\ KyberCbd(instr.a, 3) \in 0..(W - 1)
  BY <1>1, CbdWord
<1>3. CASE instr.op = "KYBER_CBD2"
  BY <1>2, <1>3 DEF KyberAluResult
<1>4. CASE instr.op = "KYBER_CBD3"
  BY <1>2, <1>4 DEF KyberAluResult
<1> QED
  BY <1>3, <1>4, AddSubWord DEF KyberAluOps

(* The registers of a compression, and of a Barrett reduction. *)
LEMMA CompressWords ==
    ASSUME TypeOK, instr # NoInstr, instr.op = "KYBER_COMPRESS"
    PROVE  /\ CompressFracProduct(instr.a) \in 0..(W - 1)
           /\ CompressIntProduct(instr.a) \in 0..(W - 1)
           /\ CompressRound(imd0, imd1, instr.b) \in 0..(W - 1)
<1>1. CompressFracProduct(instr.a) \in 0..(W - 1)
  <2>1. CompressFrac \in 0..Half /\ Lo(instr.a) \in 0..(Half - 1)
    BY CompressFracAssumption, WFacts, Operands, SMT
  <2> QED
    BY <2>1, HalfProduct DEF CompressFracProduct
<1>2. CompressIntProduct(instr.a) \in 0..(W - 1)
  <2>1. /\ instr.a \in Nat /\ instr.a < Q /\ Q * Q <= BarrettBase
        /\ Q \in Nat /\ Q >= 2 /\ BarrettBase \in Nat /\ BarrettM \in Nat
        /\ BarrettM * Q <= BarrettBase
    BY LegalCoeffs, Constants, SMT DEF Coeff
  <2>2. instr.a % BarrettBase = instr.a
    BY <2>1, SMT
  <2>3. BarrettM * instr.a \in Nat /\ BarrettM * instr.a <= BarrettM * Q
    BY <2>1, SMT
  <2>4. BarrettBase < W
    BY Constants, SMT DEF W
  <2> QED
    BY <2>1, <2>2, <2>3, <2>4, WFacts, SMT DEF CompressIntProduct
<1>3. CompressRound(imd0, imd1, instr.b) \in 0..(W - 1)
  <2> DEFINE n == instr.b
             base == BarrettBase
             step == base \div (2 * n)
             sum == (Hi(imd0) + imd1) % base
             shifted == sum \div step
             r == Lane12((shifted \div 2) + (shifted % 2))
  <2>1. n \in Nat /\ n > 0 /\ base \in Nat /\ base > 0 /\ 2 * n <= base
    BY LegalCoeffs, Constants, SMT
  <2>2. Hi(imd0) + imd1 \in Int
    BY RegisterRanges
  <2> HIDE DEF n, base
  <2>3. step \in Nat /\ step > 0
    BY <2>1, SMT
  <2>4. sum \in Nat
    BY <2>1, <2>2, SMT
  <2> HIDE DEF step, sum
  <2>5. shifted \in Nat
    BY <2>3, <2>4, DivModNat
  <2> HIDE DEF shifted
  <2>6. r \in 0..(Half - 1)
    <3>1. (shifted \div 2) + (shifted % 2) \in Int
      BY <2>5, SMT
    <3> QED
      BY <3>1, Residue
  <2> HIDE DEF r
  <2>7. r % n \in 0..(W - 1)
    BY <2>1, <2>6, WFacts, SMT
  <2> QED
    BY <2>7 DEF CompressRound, n, base, step, sum, shifted, r
<1> QED
  BY <1>1, <1>2, <1>3

LEMMA BarrettWords ==
    ASSUME TypeOK, KyberMulPipeline, instr # NoInstr, instr.op = "KYBER_MUL"
    PROVE  /\ mult_state_q = "KYBER_BARRETT_MULT_M" =>
                 ShiftRight24Of5039(imd0) \in 0..(W - 1)
           /\ TimesQ(imd1) \in 0..(W - 1)
           /\ mult_state_q = "KYBER_BARRETT_SUB_ADJUST" =>
                 /\ BarrettAdjust(imd0, imd1) = Ref(instr)
                 /\ BarrettAdjust(imd0, imd1) \in 0..(W - 1)
                 /\ imd0 - imd1 \in 0..(2 * Q - 1)
<1> DEFINE x == Lo(instr.a) * Lo(instr.b)
           t == ShiftRight24Of5039(x)
<1>1. Lo(instr.a) \in Coeff /\ Lo(instr.b) \in Coeff
  BY LegalCoeffs
<1>2. x \in Nat /\ x < Q * Q /\ x <= BarrettBase
  BY <1>1, Constants, SMT DEF Coeff
<1>3. t \in Nat /\ x - t * Q \in 0..(2 * Q - 1)
  <2>1. x \in 0..BarrettBase
    BY <1>2, Constants
  <2> QED
    BY <2>1, BarrettEstimate
<1>4. BarrettAdjust(x, TimesQ(t)) = MulModRef(instr.a, instr.b)
  BY <1>1, KyberMulCorrect
<1>5. MulModRef(instr.a, instr.b) \in 0..(W - 1)
  <2> HIDE DEF x
  <2>1. x % Q \in Coeff
    <3>1. x \in Int
      BY <1>2
    <3> QED
      BY <3>1, Residue
  <2> QED
    BY <2>1, CoeffWord DEF MulModRef, x
<1>6. Ref(instr) = MulModRef(instr.a, instr.b)
  BY DEF Ref
<1> HIDE DEF x, t
<1>7. t < Q
  <2>1. t * Q < Q * Q
    BY <1>2, <1>3, Constants, SMT
  <2> QED
    BY <2>1, <1>3, Constants, SMT
<1>8. t \in 0..(W - 1) /\ TimesQ(t) = t * Q
  BY <1>3, <1>7, Constants, WFacts, SMT DEF TimesQ, Lo
<1>9. TimesQ(imd1) \in 0..(W - 1)
  <2>1. imd1 \in Nat
    BY RegisterRanges, WFacts
  <2>2. Lo(imd1) \in 0..(Half - 1) /\ Q \in 0..Half
    BY <2>1, HalfWords, Constants, SMT
  <2> QED
    BY <2>2, HalfProduct DEF TimesQ
<1> QED
  BY <1>3, <1>4, <1>5, <1>6, <1>8, <1>9 DEF KyberMulPipeline, x, t

LEMMA AbsWord ==
    ASSUME NEW w \in 0..(W - 1), NEW s \in BOOLEAN
    PROVE  Abs32(w, s) \in 0..(W - 1)
<1>1. -w \in Int
  BY WFacts
<1>2. (-w) % W \in 0..(W - 1)
  BY <1>1, Residue
<1> QED
  BY <1>2 DEF Abs32

LEMMA WordOfAccumulator ==
    ASSUME NEW x \in 0..(4 * W - 1)
    PROVE  x % W \in 0..(W - 1)
<1>1. x \in Int
  BY WFacts
<1> QED
  BY <1>1, Residue

-----------------------------------------------------------------------------
(* The initial state. *)
LEMMA InitIInv == Init => IInv
<1> SUFFICES ASSUME Init PROVE IInv
  OBVIOUS
<1>1. 0 \in 0..(W - 1) /\ 1 \in 0..(W - 1) /\ 0 \in 0..(4 * W - 1)
  BY WFacts
<1>2. IsWord(0) /\ IsWord(1) /\ IsWord34(0)
  BY <1>1, WordRange
<1>3. TypeOK
  <2>1. /\ instr \in Instrs \cup {NoInstr} /\ (instr # NoInstr => LegalInstr(instr))
        /\ data_ind_timing \in BOOLEAN /\ div_by_zero_q \in BOOLEAN
        /\ mult_state_q \in MultStates /\ md_state_q \in MdStates
    BY DEF Init, MultStates, MdStates
  <2>2. /\ IsWord34(imd0) /\ IsWord(imd1) /\ IsWord(op_numerator_q)
        /\ IsWord(op_quotient_q) /\ IsWord(one_shift) /\ IsWord(rf_wdata)
    BY <1>2 DEF Init
  <2>3. one_shift > 0 /\ cycles \in Nat /\ issued \in 0..MaxInstr
    BY MaxInstrAssumption DEF Init
  <2> QED
    BY <2>1, <2>2, <2>3 DEF TypeOK
<1>4. RestingStates /\ KyberMulPipeline /\ QuotientRoom
  BY DEF Init, RestingStates, KyberMulPipeline, QuotientRoom
<1> QED
  BY <1>3, <1>4 DEF IInv

(* What the executing cycles of the multiplier have in common. *)
LEMMA MultCycleType ==
    ASSUME TypeOK, NEW ops \in SUBSET Ops,
           NEW from \in MultStates, NEW to \in MultStates,
           MultCycle(ops, from, to),
           imd0' \in 0..(4 * W - 1), imd1' \in 0..(W - 1),
           Continue \/ (instr' = NoInstr /\ rf_wdata' \in 0..(W - 1))
    PROVE  TypeOK'
<1>1. IsWord34(imd0') /\ IsWord(imd1')
  BY WordRange
<1>2. instr' \in Instrs \cup {NoInstr} /\ (instr' # NoInstr => LegalInstr(instr'))
  BY DEF Continue, TypeOK
<1>3. IsWord(rf_wdata')
  BY WordRange DEF Continue, TypeOK
<1> QED
  BY <1>1, <1>2, <1>3 DEF MultCycle, TypeOK, divRegs

LEMMA DivCycleType ==
    ASSUME TypeOK, NEW from \in MdStates, NEW to \in MdStates,
           DivCycle(from, to),
           imd0' \in 0..(4 * W - 1), imd1' \in 0..(W - 1),
           op_numerator_q' \in 0..(W - 1), op_quotient_q' \in 0..(W - 1),
           one_shift' \in 1..(W - 1), div_by_zero_q' \in BOOLEAN,
           Continue \/ (instr' = NoInstr /\ rf_wdata' \in 0..(W - 1))
    PROVE  TypeOK'
<1>1. /\ IsWord34(imd0') /\ IsWord(imd1') /\ IsWord(op_numerator_q')
      /\ IsWord(op_quotient_q')
  BY WordRange
<1>2. IsWord(one_shift') /\ one_shift' > 0
  <2>1. one_shift' \in 0..(W - 1) /\ one_shift' > 0
    BY WFacts
  <2> QED
    BY <2>1, WordRange
<1>3. instr' \in Instrs \cup {NoInstr} /\ (instr' # NoInstr => LegalInstr(instr'))
  BY DEF Continue, TypeOK
<1>4. IsWord(rf_wdata')
  BY WordRange DEF Continue, TypeOK
<1> QED
  BY <1>1, <1>2, <1>3, <1>4 DEF DivCycle, TypeOK

(***************************************************************************)
(* Every step keeps the registers within their widths.                     *)
(***************************************************************************)
LEMMA TypeOKStep == IInv /\ [Next]_vars => TypeOK'
<1> SUFFICES ASSUME IInv, [Next]_vars PROVE TypeOK'
  OBVIOUS
<1>1. TypeOK /\ KyberMulPipeline /\ QuotientRoom
  BY DEF IInv
<1>2. /\ W \in Nat /\ W >= 64
      /\ 0..(W - 1) \subseteq 0..(4 * W - 1)
      /\ W \div 2 \in 1..(W - 1) /\ W \div 2 \in 0..(W - 1)
      /\ 4 * W - 1 \in 0..(4 * W - 1)
  BY WFacts, SMT
<1>3. /\ imd0 \in 0..(4 * W - 1) /\ imd1 \in 0..(W - 1)
      /\ op_numerator_q \in 0..(W - 1) /\ op_quotient_q \in 0..(W - 1)
      /\ one_shift \in 1..(W - 1)
  BY <1>1, RegisterRanges
<1>4. div_by_zero_q \in BOOLEAN /\ data_ind_timing \in BOOLEAN
  BY <1>1 DEF TypeOK
<1>5. instr.op \in Ops => instr # NoInstr
  BY DEF NoInstr, Ops, MulOps, DivOps, KyberAluOps, KyberMacOps
<1>6. /\ MulOps \in SUBSET Ops /\ {"MULL"} \in SUBSET Ops /\ {"MULH"} \in SUBSET Ops
      /\ KyberAluOps \in SUBSET Ops /\ {"KYBER_MUL"} \in SUBSET Ops
      /\ {"KYBER_COMPRESS"} \in SUBSET Ops /\ DivOps \in SUBSET Ops
      /\ KyberMacOps \in SUBSET Ops
  BY DEF Ops, MulOps, KyberAluOps, DivOps, KyberMacOps
<1>7. CASE Issue
  <2>1. LegalInstr(instr') /\ instr' \in Instrs
    BY <1>7 DEF Issue, Accept
  <2>2. issued' \in 0..MaxInstr
    BY <1>1, <1>7, MaxInstrAssumption DEF Issue, Accept, TypeOK
  <2> QED
    BY <1>1, <1>7, <2>1, <2>2 DEF Issue, Accept, TypeOK, divRegs
<1>8. CASE Held
  <2>1. instr # NoInstr
    BY <1>5, <1>6, <1>8 DEF Held
  <2>2. imd0' \in 0..(4 * W - 1) /\ imd1' \in 0..(W - 1)
    BY <1>1, <1>2, <1>3, <1>8, <2>1, MacTypes, CompressWords DEF Held, KyberMacOps
  <2>3. IsWord34(imd0') /\ IsWord(imd1')
    BY <2>2, WordRange
  <2> QED
    BY <1>1, <1>8, <2>3 DEF Held, TypeOK, divRegs
<1>9. CASE MultStep
  <2>1. ASSUME NEW ops \in SUBSET Ops, NEW from, NEW to, MultCycle(ops, from, to)
        PROVE  instr # NoInstr
    BY <1>5, <2>1 DEF MultCycle
  <2>2. CASE MulALBL
    BY <1>1, <1>2, <1>3, <1>6, <2>1, <2>2, MacTypes, MultCycleType
       DEF MulALBL, MultStates
  <2>3. CASE MulALBH
    BY <1>1, <1>2, <1>3, <1>6, <2>1, <2>3, MacTypes, MultCycleType
       DEF MulALBH, MultStates
  <2>4. CASE MullAHBL
    <3>1. instr.op = "MULL"
      BY <2>4 DEF MullAHBL, MultCycle
    <3> QED
      BY <1>1, <1>2, <1>3, <1>6, <2>1, <2>4, <3>1, MacTypes, MultCycleType
         DEF MullAHBL, MultStates, Done
  <2>5. CASE MulhAHBL
    BY <1>1, <1>2, <1>3, <1>6, <2>1, <2>5, MacTypes, MultCycleType
       DEF MulhAHBL, MultStates
  <2>6. CASE MulhAHBH
    <3>1. instr # NoInstr
      BY <1>6, <2>1, <2>6 DEF MulhAHBH
    <3>2. MacAHBH % W \in 0..(W - 1)
      BY <1>1, <3>1, MacTypes, WordOfAccumulator
    <3> QED
      BY <1>1, <1>2, <1>3, <1>6, <2>6, <3>1, <3>2, MacTypes, MultCycleType
         DEF MulhAHBH, MultStates, Done
  <2>7. CASE KyberAlu
    <3>1. instr.op \in KyberAluOps
      BY <2>7 DEF KyberAlu, MultCycle
    <3> QED
      BY <1>1, <1>2, <1>3, <1>6, <2>1, <2>7, <3>1, KyberAluWord, MultCycleType
         DEF KyberAlu, MultStates, Done
  <2>8. CASE KyberMulALBL
    BY <1>1, <1>2, <1>3, <1>6, <2>1, <2>8, MacTypes, MultCycleType
       DEF KyberMulALBL, MultStates
  <2>9. CASE KyberMultM
    <3>1. instr.op = "KYBER_MUL" /\ mult_state_q = "KYBER_BARRETT_MULT_M"
      BY <2>9 DEF KyberMultM, MultCycle
    <3> QED
      BY <1>1, <1>2, <1>3, <1>6, <2>1, <2>9, <3>1, BarrettWords, MultCycleType
         DEF KyberMultM, MultStates
  <2>10. CASE KyberMultQ
    <3>1. instr.op = "KYBER_MUL"
      BY <2>10 DEF KyberMultQ, MultCycle
    <3> QED
      BY <1>1, <1>2, <1>3, <1>6, <2>1, <2>10, <3>1, BarrettWords, MultCycleType
         DEF KyberMultQ, MultStates
  <2>11. CASE KyberSubAdjust
    <3>1. instr.op = "KYBER_MUL" /\ mult_state_q = "KYBER_BARRETT_SUB_ADJUST"
      BY <2>11 DEF KyberSubAdjust, MultCycle
    <3> QED
      BY <1>1, <1>2, <1>3, <1>6, <2>1, <2>11, <3>1, BarrettWords, MultCycleType
         DEF KyberSubAdjust, MultStates, Done
  <2>12. CASE CompressALBL
    <3>1. instr.op = "KYBER_COMPRESS"
      BY <2>12 DEF CompressALBL, MultCycle
    <3> QED
      BY <1>1, <1>2, <1>3, <1>6, <2>1, <2>12, <3>1, CompressWords, MultCycleType
         DEF CompressALBL, MultStates
  <2>13. CASE CompressSum
    <3>1. instr.op = "KYBER_COMPRESS"
      BY <2>13 DEF CompressSum, MultCycle
    <3> QED
      BY <1>1, <1>2, <1>3, <1>6, <2>1, <2>13, <3>1, CompressWords, MultCycleType
         DEF CompressSum, MultStates, Done
  <2> QED
    BY <1>9, <2>2, <2>3, <2>4, <2>5, <2>6, <2>7, <2>8, <2>9, <2>10, <2>11, <2>12,
       <2>13 DEF MultStep
<1>10. CASE DivStep
  <2>1. ASSUME NEW from, NEW to, DivCycle(from, to)
        PROVE  instr # NoInstr
    BY <1>5, <1>6, <2>1 DEF DivCycle
  <2>2. CASE DivIdle
    <3>1. instr # NoInstr
      BY <2>1, <2>2 DEF DivIdle
    <3>2. imd0' \in 0..(4 * W - 1) /\ div_by_zero_q' \in BOOLEAN
      BY <1>1, <1>2, <1>4, <2>2, <3>1, Operands DEF DivIdle
    <3> QED
      BY <1>1, <1>2, <1>3, <2>2, <3>2, DivCycleType DEF DivIdle, MdStates
  <2>3. CASE DivAbsA
    <3>1. op_numerator_q' \in 0..(W - 1)
      BY <1>1, <2>1, <2>3, Operands, AbsWord DEF DivAbsA
    <3>2. 0 \in 0..(W - 1)
      BY <1>2
    <3> QED
      BY <1>1, <1>2, <1>3, <1>4, <2>3, <3>1, <3>2, DivCycleType
         DEF DivAbsA, MdStates
  <2>4. CASE DivAbsB
    <3>1. imd1' \in 0..(W - 1)
      BY <1>1, <2>1, <2>4, Operands, AbsWord DEF DivAbsB
    <3>2. imd0' \in 0..(4 * W - 1)
      BY <1>2, <2>4, SMT DEF DivAbsB
    <3> QED
      BY <1>1, <1>2, <1>3, <1>4, <2>4, <3>1, <3>2, DivCycleType
         DEF DivAbsB, MdStates
  <2>5. CASE DivComp
    <3>1. md_state_q = "MD_COMP"
      BY <2>5 DEF DivComp, DivCycle
    <3>2. /\ next_remainder \in 0..(W - 1) /\ next_shift \in 1..(W - 1)
          /\ next_quotient \in 0..(W - 1)
      BY <1>1, <3>1, DivTypes
    <3>3. imd0' \in 0..(4 * W - 1)
      <4>1. op_numerator_q \in Nat /\ next_shift \in Nat /\ next_shift > 0
        BY <1>2, <1>3, <3>2
      <4>2. (op_numerator_q \div next_shift) % 2 \in 0..1
        BY <4>1, DivModNat, SMT
      <4>3. imd0' = 2 * next_remainder + ((op_numerator_q \div next_shift) % 2)
        BY <2>5 DEF DivComp
      <4> QED
        BY <1>2, <3>2, <4>2, <4>3, SMT
    <3> QED
      BY <1>1, <1>2, <1>3, <1>4, <2>5, <3>2, <3>3, DivCycleType
         DEF DivComp, MdStates
  <2>6. CASE DivLast
    <3>1. md_state_q = "MD_LAST"
      BY <2>6 DEF DivLast, DivCycle
    <3>2. /\ next_remainder \in 0..(W - 1) /\ next_shift \in 1..(W - 1)
          /\ next_quotient \in 0..(W - 1)
      BY <1>1, <3>1, DivTypes
    <3> QED
      BY <1>1, <1>2, <1>3, <1>4, <2>6, <3>2, DivCycleType DEF DivLast, MdStates
  <2>7. CASE DivChangeSign
    <3>1. Remainder \in 0..(W - 1) /\ next_shift \in 1..(W - 1)
      BY <1>1, DivTypes
    <3>2. (-Remainder) % W \in 0..(W - 1)
      BY <1>2, <3>1, Residue, SMT
    <3> QED
      BY <1>1, <1>2, <1>3, <1>4, <2>7, <3>1, <3>2, DivCycleType
         DEF DivChangeSign, MdStates
  <2>8. CASE DivFinish
    <3>1. imd0 % W \in 0..(W - 1) /\ next_shift \in 1..(W - 1)
      BY <1>1, <1>3, DivTypes, WordOfAccumulator
    <3> QED
      BY <1>1, <1>2, <1>3, <1>4, <2>8, <3>1, DivCycleType
         DEF DivFinish, MdStates, Done
  <2> QED
    BY <1>10, <2>2, <2>3, <2>4, <2>5, <2>6, <2>7, <2>8 DEF DivStep
<1>11. CASE UNCHANGED vars
  BY <1>1, <1>11 DEF vars, divRegs, TypeOK
<1> QED
  BY <1>7, <1>8, <1>9, <1>10, <1>11 DEF Next

(***************************************************************************)
(* An instruction leaves both state machines as it found them.             *)
(***************************************************************************)
LEMMA RestingStep == IInv /\ [Next]_vars => RestingStates'
<1> SUFFICES ASSUME IInv, [Next]_vars PROVE RestingStates'
  OBVIOUS
<1>1. RestingStates
  BY DEF IInv
<1> USE DEF Ops, MulOps, DivOps, KyberAluOps, KyberMacOps, NoInstr
<1>2. CASE Issue
  BY <1>1, <1>2 DEF Issue, Accept, RestingStates
<1>3. CASE Held
  BY <1>1, <1>3 DEF Held, RestingStates
<1>4. CASE MultStep
  <2>1. ASSUME NEW ops \in SUBSET (MulOps \cup KyberAluOps \cup KyberMacOps),
               NEW from, NEW to, MultCycle(ops, from, to)
        PROVE  /\ md_state_q' = "MD_IDLE" /\ mult_state_q' = to
               /\ instr.op \in ops
    BY <1>1, <2>1 DEF MultCycle, RestingStates
  <2>2. ASSUME NEW ops \in SUBSET (MulOps \cup KyberMacOps),
               NEW from, NEW to, MultCycle(ops, from, to), Continue
        PROVE  RestingStates'
    BY <2>1, <2>2 DEF RestingStates, Continue
  <2>3. ASSUME NEW ops \in SUBSET (MulOps \cup KyberAluOps \cup KyberMacOps),
               NEW from, MultCycle(ops, from, "ALBL")
        PROVE  RestingStates'
    BY <2>1, <2>3 DEF RestingStates
  <2> QED
    BY <1>4, <2>2, <2>3
       DEF MultStep, MulALBL, MulALBH, MullAHBL, MulhAHBL, MulhAHBH, KyberAlu,
           KyberMulALBL, KyberMultM, KyberMultQ, KyberSubAdjust, CompressALBL,
           CompressSum
<1>5. CASE DivStep
  <2>1. ASSUME NEW from, NEW to, DivCycle(from, to)
        PROVE  mult_state_q' = "ALBL" /\ md_state_q' = to /\ instr.op \in DivOps
    BY <1>1, <2>1 DEF DivCycle, RestingStates
  <2>2. ASSUME NEW from, NEW to, DivCycle(from, to), Continue
        PROVE  RestingStates'
    BY <2>1, <2>2 DEF RestingStates, Continue
  <2>3. CASE DivFinish
    BY <2>1, <2>3 DEF DivFinish, RestingStates
  <2> QED
    BY <1>5, <2>2, <2>3
       DEF DivStep, DivIdle, DivAbsA, DivAbsB, DivComp, DivLast, DivChangeSign
<1>6. CASE UNCHANGED vars
  BY <1>1, <1>6 DEF vars, RestingStates
<1> QED
  BY <1>2, <1>3, <1>4, <1>5, <1>6 DEF Next

(***************************************************************************)
(* A Kyber multiplication in flight is not disturbed: its product stays in *)
(* imd0 while imd1 goes through the quotient estimate and its multiple.    *)
(***************************************************************************)
LEMMA PipelineStep == IInv /\ [Next]_vars => KyberMulPipeline'
<1> SUFFICES ASSUME IInv, [Next]_vars PROVE KyberMulPipeline'
  OBVIOUS
<1>1. KyberMulPipeline /\ RestingStates
  BY DEF IInv
<1> DEFINE Barrett == {"KYBER_BARRETT_MULT_M", "KYBER_BARRETT_MULT_Q",
                       "KYBER_BARRETT_SUB_ADJUST"}
<1>2. ASSUME mult_state_q' \notin Barrett PROVE KyberMulPipeline'
  BY <1>2 DEF KyberMulPipeline
<1>3. CASE Issue
  <2>1. mult_state_q' = "ALBL"
    BY <1>1, <1>3 DEF Issue, Accept, RestingStates, NoInstr, MulOps, KyberMacOps
  <2> QED
    BY <1>2, <2>1
<1>4. CASE Held
  BY <1>2, <1>4 DEF Held
<1>5. CASE MultStep
  <2>1. CASE KyberMulALBL
    BY <2>1 DEF KyberMulALBL, MultCycle, Continue, KyberMulPipeline, MacALBL
  <2>2. CASE KyberMultM
    BY <1>1, <2>2 DEF KyberMultM, MultCycle, Continue, KyberMulPipeline
  <2>3. CASE KyberMultQ
    BY <1>1, <2>3 DEF KyberMultQ, MultCycle, Continue, KyberMulPipeline
  <2> QED
    BY <1>2, <1>5, <2>1, <2>2, <2>3
       DEF MultStep, MultCycle, MulALBL, MulALBH, MullAHBL, MulhAHBL, MulhAHBH,
           KyberAlu, KyberSubAdjust, CompressALBL, CompressSum
<1>6. CASE DivStep
  <2>1. mult_state_q' = mult_state_q /\ instr.op \in DivOps
    BY <1>6 DEF DivStep, DivCycle, DivIdle, DivAbsA, DivAbsB, DivComp, DivLast,
                DivChangeSign, DivFinish
  <2>2. mult_state_q = "ALBL"
    BY <1>1, <2>1 DEF RestingStates, MulOps, DivOps, KyberMacOps
  <2> QED
    BY <1>2, <2>1, <2>2
<1>7. CASE UNCHANGED vars
  BY <1>1, <1>7 DEF vars, KyberMulPipeline
<1> QED
  BY <1>3, <1>4, <1>5, <1>6, <1>7 DEF Next

(* The quotient never outgrows a word: the bit weight halves each cycle.   *)
LEMMA RoomStep == IInv /\ [Next]_vars => QuotientRoom'
<1> SUFFICES ASSUME IInv, [Next]_vars PROVE QuotientRoom'
  OBVIOUS
<1>1. TypeOK /\ QuotientRoom /\ RestingStates
  BY DEF IInv
<1>2. ASSUME md_state_q' \notin {"MD_ABS_B", "MD_COMP", "MD_LAST"}
      PROVE  QuotientRoom'
  BY <1>2 DEF QuotientRoom
<1>3. ASSUME UNCHANGED <<md_state_q, op_quotient_q, one_shift>> PROVE QuotientRoom'
  BY <1>1, <1>3 DEF QuotientRoom
<1>4. CASE Issue
  BY <1>3, <1>4 DEF Issue, Accept, divRegs
<1>5. CASE Held
  BY <1>3, <1>5 DEF Held, divRegs
<1>6. CASE MultStep
  BY <1>3, <1>6
     DEF MultStep, MultCycle, MulALBL, MulALBH, MullAHBL, MulhAHBL, MulhAHBH,
         KyberAlu, KyberMulALBL, KyberMultM, KyberMultQ, KyberSubAdjust,
         CompressALBL, CompressSum, divRegs
<1>7. CASE DivAbsB
  <2>1. op_quotient_q' = 0 /\ one_shift' = W \div 2 /\ md_state_q' = "MD_COMP"
    BY <1>1, <1>7 DEF DivAbsB, DivCycle, QuotientRoom
  <2>2. W \div 2 >= 32 /\ 0 + 2 * (W \div 2) <= W
    BY WFacts, SMT
  <2> QED
    BY <2>1, <2>2, WFacts DEF QuotientRoom
<1>8. CASE DivComp
  <2>1. md_state_q = "MD_COMP" /\ one_shift >= 2 /\ op_quotient_q + 2 * one_shift <= W
    BY <1>1, <1>8 DEF DivComp, DivCycle, QuotientRoom
  <2>2. /\ W \in Nat /\ one_shift \in Nat /\ op_quotient_q \in Nat
        /\ next_shift \in Nat /\ 2 * next_shift <= one_shift
        /\ next_quotient \in Nat /\ next_quotient <= op_quotient_q + one_shift
        /\ next_shift # 1 => next_shift >= 2
    BY <1>1, <2>1, DivTypes, RegisterRanges, WFacts
  <2>3. next_quotient + 2 * next_shift <= W
    BY <2>1, <2>2
  <2> QED
    BY <1>8, <2>2, <2>3 DEF DivComp, DivCycle, QuotientRoom
<1>9. CASE DivAbsA
  BY <1>9 DEF DivAbsA, DivCycle, QuotientRoom
<1>10. CASE DivLast
  BY <1>2, <1>10 DEF DivLast, DivCycle
<1>11. CASE DivIdle \/ DivChangeSign \/ DivFinish
  BY <1>2, <1>11 DEF DivCycle, DivIdle, DivChangeSign, DivFinish
<1>12. CASE UNCHANGED vars
  BY <1>3, <1>12 DEF vars, divRegs
<1> QED
  BY <1>4, <1>5, <1>6, <1>7, <1>8, <1>9, <1>10, <1>11, <1>12 DEF Next, DivStep

-----------------------------------------------------------------------------
(* IInv holds initially and is kept by every step: it is an invariant.     *)
THEOREM Invariance == Safety => []IInv
<1>1. IInv /\ [Next]_vars => IInv'
  BY TypeOKStep, RestingStep, PipelineStep, RoomStep DEF IInv
<1> QED
  BY <1>1, InitIInv, PTL DEF Safety

(***************************************************************************)
(* The registers of the unit keep to their widths.                         *)
(***************************************************************************)
THEOREM TypeCorrect == Spec => []TypeOK
<1>1. IInv => TypeOK
  BY DEF IInv
<1> QED
  BY <1>1, Invariance, PTL DEF Spec

(***************************************************************************)
(* Every instruction starts from resting state machines, and only the one  *)
(* it needs moves.                                                         *)
(***************************************************************************)
THEOREM Resting == Spec => []RestingStates
<1>1. IInv => RestingStates
  BY DEF IInv
<1> QED
  BY <1>1, Invariance, PTL DEF Spec

(***************************************************************************)
(* Before its last step a Barrett reduction is off by at most one modulus. *)
(***************************************************************************)
LEMMA BarrettMultiply ==
    ASSUME IInv, mult_state_q = "KYBER_BARRETT_SUB_ADJUST"
    PROVE  /\ instr # NoInstr /\ instr.op = "KYBER_MUL"
           /\ BarrettAdjust(imd0, imd1) = Ref(instr)
           /\ imd0 - imd1 \in 0..(2 * Q - 1)
<1>1. TypeOK /\ KyberMulPipeline
  BY DEF IInv
<1>2. instr.op = "KYBER_MUL" /\ instr # NoInstr
  BY <1>1 DEF KyberMulPipeline, NoInstr
<1> QED
  BY <1>1, <1>2, BarrettWords

THEOREM BarrettBounded == Spec => []BarrettBound
<1>1. IInv => BarrettBound
  BY BarrettMultiply DEF BarrettBound
<1> QED
  BY <1>1, Invariance, PTL DEF Spec

-----------------------------------------------------------------------------
(***************************************************************************)
(* The division.  The counter counts the bits of a word, so the theorems   *)
(* about it are for words whose number of values is a power of two: their  *)
(* half is in a set closed under halving down to one.                      *)
(***************************************************************************)
Halving(shifts) ==
    /\ shifts \subseteq Nat \ {0}
    /\ W \div 2 \in shifts
    /\ \A p \in shifts : p = 1 \/ (p % 2 = 0 /\ p \div 2 \in shifts)

(***************************************************************************)
(* DivisionLoop with the quotient so far named: its bits from one_shift    *)
(* down are still clear, so it is 2 * one_shift * m.                       *)
(***************************************************************************)
LoopAt(m) ==
    /\ op_quotient_q = 2 * one_shift * m
    /\ op_numerator_q \div one_shift = 2 * m * imd1 + imd0
    /\ imd1 # 0 => imd0 < 2 * imd1

LoopInv(shifts) ==
    md_state_q \in {"MD_COMP", "MD_LAST"} =>
        /\ one_shift \in shifts
        /\ md_state_q = "MD_LAST" <=> one_shift = 1
        /\ \E m \in Nat : LoopAt(m)

(* The adder's sign tells whether a subtraction fits, while the remainder is a word. *)
LEMMA Comparison ==
    ASSUME TypeOK, imd0 < W
    PROVE  /\ Remainder = imd0
           /\ is_greater_equal <=> imd0 >= imd1
           /\ imd0 >= imd1 => Difference = imd0 - imd1
<1>1. /\ W \in Nat /\ W >= 64 /\ W = 2 * (W \div 2) /\ W \div 2 \in Nat
      /\ imd0 \in Nat /\ imd1 \in Nat /\ imd1 < W
  BY WEven, WFacts, RegisterRanges
<1> DEFINE w == W
           r == imd0
           d == imd1
           half == W \div 2
<1>2. w \in Nat /\ w >= 64 /\ w = 2 * half /\ half \in Nat /\ r \in Nat /\ d \in Nat
      /\ r < w /\ d < w
  BY <1>1
<1>3. Remainder = r % w /\ Difference = (Remainder - d) % w
  BY DEF Remainder, Difference, Denominator
<1>4. is_greater_equal <=> (IF (Remainder >= half) = (d >= half)
                            THEN ~(Difference >= half) ELSE Remainder >= half)
  BY DEF is_greater_equal, Neg, Denominator
<1> HIDE DEF w, r, d, half
<1>5. Remainder = r
  BY <1>2, <1>3, SMT
<1>6. r >= d => (r - d) % w = r - d
  BY <1>2, SMT
<1>7. r < d => (r - d) % w = r - d + w
  BY <1>2, SMT
<1>8. Difference = IF r >= d THEN r - d ELSE r - d + w
  BY <1>2, <1>3, <1>5, <1>6, <1>7, SMT
<1>9. is_greater_equal <=> r >= d
  BY <1>2, <1>4, <1>5, <1>8, SMT
<1> QED
  BY <1>5, <1>8, <1>9 DEF r, d

(* One bit of the quotient, and the remainder it leaves. *)
LEMMA QuotientBit ==
    ASSUME TypeOK, QuotientRoom, md_state_q \in {"MD_COMP", "MD_LAST"},
           NEW m \in Nat, LoopAt(m)
    PROVE  \E bit \in {0, 1} :
              /\ next_quotient = one_shift * (2 * m + bit)
              /\ op_numerator_q \div one_shift = (2 * m + bit) * imd1 + next_remainder
              /\ imd1 # 0 => next_remainder < imd1
              /\ imd1 = 0 => bit = 1
              /\ next_remainder \in Nat
<1> DEFINE s == one_shift
           q == op_quotient_q
           n == op_numerator_q
           r == imd0
           d == imd1
<1>1. /\ s \in Nat /\ s > 0 /\ q \in Nat /\ n \in Nat /\ r \in Nat /\ d \in Nat
      /\ n < W /\ W \in Nat
  BY RegisterRanges, WFacts
<1>2. /\ q = 2 * s * m /\ n \div s = 2 * m * d + r /\ (d # 0 => r < 2 * d)
  BY DEF LoopAt
<1> HIDE DEF s, q, n, r, d
<1>3. n \div s \in Nat /\ n \div s <= n
  BY <1>1, SMT
<1>4. 2 * m * d \in Nat
  BY <1>1, SMT
<1>5. r < W
  BY <1>1, <1>2, <1>3, <1>4, SMT
<1>6. /\ Remainder = r
      /\ is_greater_equal <=> r >= d
      /\ r >= d => Difference = r - d
  BY <1>5, Comparison DEF r, d
<1>7. (q \div s) % 2 = 0
  <2>1. q = (2 * m) * s + 0 /\ 2 * m \in Int /\ 0 \in 0..(s - 1)
    BY <1>1, <1>2, SMT
  <2>2. q \div s = 2 * m
    BY <1>1, <2>1, DivModUnique
  <2> QED
    BY <2>2, SMT
<1>8. CASE r >= d
  <2>1. next_quotient = q + s /\ next_remainder = r - d
    BY <1>6, <1>7, <1>8 DEF next_quotient, next_remainder, q, s
  <2>2. q + s = s * (2 * m + 1) /\ n \div s = (2 * m + 1) * d + (r - d)
    BY <1>1, <1>2, SMT
  <2>3. (d # 0 => r - d < d) /\ r - d \in Nat
    BY <1>1, <1>2, <1>8, SMT
  <2>4. 1 \in {0, 1}
    OBVIOUS
  <2> QED
    BY <2>1, <2>2, <2>3, <2>4 DEF s, n, d
<1>9. CASE ~(r >= d)
  <2>1. next_quotient = q /\ next_remainder = r
    BY <1>6, <1>9 DEF next_quotient, next_remainder, q, s
  <2>2. q = s * (2 * m + 0) /\ n \div s = (2 * m + 0) * d + r
    BY <1>1, <1>2, SMT
  <2>3. (d # 0 => r < d) /\ d # 0
    BY <1>1, <1>9, SMT
  <2>4. 0 \in {0, 1}
    OBVIOUS
  <2> QED
    BY <1>1, <2>1, <2>2, <2>3, <2>4 DEF s, n, d
<1> QED
  BY <1>8, <1>9

LEMMA LoopStarts ==
    ASSUME NEW shifts, Halving(shifts), IInv, DivAbsB
    PROVE  LoopInv(shifts)'
<1>1. /\ one_shift' = W \div 2 /\ op_quotient_q' = 0 /\ op_numerator_q' = op_numerator_q
      /\ imd0' = (IF Neg(op_numerator_q) THEN 1 ELSE 0) /\ md_state_q' = "MD_COMP"
  BY DEF DivAbsB, DivCycle, IInv, QuotientRoom
<1>2. TypeOK
  BY DEF IInv
<1>3. imd1' \in Nat
  <2>1. TypeOK'
    BY TypeOKStep DEF Next, DivStep
  <2> QED
    BY <2>1 DEF TypeOK, IsWord
<1> DEFINE n == op_numerator_q
           half == W \div 2
           d == imd1'
<1>4. n \in Nat /\ half \in Nat /\ half >= 32 /\ n < 2 * half
  <2>1. W % 2 = 0
    BY WEven
  <2>2. n \in 0..(W - 1) /\ W \in Nat
    BY <1>2, RegisterRanges, WFacts
  <2> QED
    BY <2>1, <2>2, WFacts, SMT
<1>5. n \div half = IF n >= half THEN 1 ELSE 0
  <2> HIDE DEF n, half
  <2>1. CASE n >= half
    <3>1. n = 1 * half + (n - half) /\ n - half \in 0..(half - 1)
      BY <1>4, <2>1, SMT
    <3>2. n \div half = 1
      BY <1>4, <3>1, DivModUnique
    <3> QED
      BY <2>1, <3>2
  <2>2. CASE ~(n >= half)
    <3>1. n = 0 * half + n /\ n \in 0..(half - 1)
      BY <1>4, <2>2, SMT
    <3>2. n \div half = 0
      BY <1>4, <3>1, DivModUnique
    <3> QED
      BY <2>2, <3>2
  <2> QED
    BY <2>1, <2>2
<1>6. imd0' = n \div half /\ imd0' \in {0, 1}
  BY <1>1, <1>5 DEF Neg
<1>7. LoopAt(0)'
  <2>1. op_quotient_q' = 2 * one_shift' * 0
    BY <1>1, <1>4
  <2>2. op_numerator_q' \div one_shift' = 2 * 0 * d + imd0'
    BY <1>1, <1>3, <1>6
  <2>3. d # 0 => imd0' < 2 * d
    BY <1>3, <1>6
  <2> QED
    BY <2>1, <2>2, <2>3 DEF LoopAt
<1>8. \E m \in Nat : LoopAt(m)'
  BY <1>7
<1>9. one_shift' \in shifts /\ one_shift' # 1
  BY <1>1, <1>4 DEF Halving
<1> QED
  BY <1>1, <1>8, <1>9 DEF LoopInv

LEMMA LoopContinues ==
    ASSUME NEW shifts, Halving(shifts), IInv, LoopInv(shifts), DivComp
    PROVE  LoopInv(shifts)'
<1>1. /\ md_state_q = "MD_COMP" /\ TypeOK /\ QuotientRoom
      /\ op_quotient_q' = next_quotient /\ one_shift' = next_shift
      /\ imd0' = 2 * next_remainder + ((op_numerator_q \div next_shift) % 2)
      /\ imd1' = imd1 /\ op_numerator_q' = op_numerator_q
      /\ md_state_q' = (IF next_shift = 1 THEN "MD_LAST" ELSE "MD_COMP")
  BY DEF DivComp, DivCycle, IInv
<1>2. one_shift \in shifts /\ one_shift # 1
  BY <1>1 DEF LoopInv
<1>3. PICK m \in Nat : LoopAt(m)
  BY <1>1 DEF LoopInv
<1>4. PICK bit \in {0, 1} :
              /\ next_quotient = one_shift * (2 * m + bit)
              /\ op_numerator_q \div one_shift = (2 * m + bit) * imd1 + next_remainder
              /\ imd1 # 0 => next_remainder < imd1
              /\ next_remainder \in Nat
  BY <1>1, <1>3, QuotientBit
<1> DEFINE s == one_shift
           t == next_shift
           n == op_numerator_q
           d == imd1
           r == next_remainder
           k == 2 * m + bit
           b == (n \div t) % 2
<1>5. s \in Nat /\ s > 1 /\ s % 2 = 0 /\ t = s \div 2 /\ t \in shifts
  BY <1>2 DEF Halving, next_shift
<1>6. n \in Nat /\ d \in Nat /\ k \in Nat /\ r \in Nat
  BY <1>1, <1>4, RegisterRanges, WFacts
<1>7. /\ next_quotient = s * k /\ n \div s = k * d + r /\ (d # 0 => r < d)
  BY <1>4
<1> HIDE DEF s, t, n, d, r, k, b
<1>8. s = 2 * t /\ t \in Nat /\ t > 0
  BY <1>5, SMT
<1>9. n \div t = 2 * (n \div s) + b /\ b \in {0, 1}
  <2> DEFINE y == n \div t
             x == n \div s
             u == n % s
  <2>1. n = x * s + u /\ x \in Nat /\ u \in 0..(s - 1)
    BY <1>5, <1>6, DivModNat
  <2> HIDE DEF x, u
  <2>2. CASE u < t
    <3>1. n = (2 * x) * t + u /\ 2 * x \in Int /\ u \in 0..(t - 1)
      BY <1>6, <1>8, <2>1, <2>2, SMT
    <3>2. n \div t = 2 * x
      BY <1>8, <3>1, DivModUnique
    <3> QED
      BY <2>1, <3>2, SMT DEF b, x
  <2>3. CASE ~(u < t)
    <3>1. n = (2 * x + 1) * t + (u - t) /\ 2 * x + 1 \in Int /\ u - t \in 0..(t - 1)
      BY <1>6, <1>8, <2>1, <2>3, SMT
    <3>2. n \div t = 2 * x + 1
      BY <1>8, <3>1, DivModUnique
    <3> QED
      BY <2>1, <3>2, SMT DEF b, x
  <2> QED
    BY <2>2, <2>3
<1>10. LoopAt(k)'
  <2>1. next_quotient = 2 * t * k
    BY <1>6, <1>7, <1>8, SMT
  <2>2. n \div t = 2 * k * d + (2 * r + b)
    <3>1. 2 * (k * d + r) = 2 * k * d + 2 * r
      BY <1>6, SMT
    <3>2. 2 * k * d \in Int
      BY <1>6, SMT
    <3> QED
      BY <1>6, <1>7, <1>9, <3>1, <3>2, SMT
  <2>3. d # 0 => 2 * r + b < 2 * d
    BY <1>6, <1>7, <1>9, SMT
  <2>4. imd0' = 2 * r + b /\ op_quotient_q' = next_quotient /\ one_shift' = t
        /\ op_numerator_q' = n /\ imd1' = d
    BY <1>1 DEF r, b, n, t, d
  <2>5. k' = k
    OBVIOUS
  <2> QED
    BY <2>1, <2>2, <2>3, <2>4 DEF LoopAt
<1>11. \E z \in Nat : LoopAt(z)'
  BY <1>6, <1>10
<1>12. one_shift' \in shifts /\ (md_state_q' = "MD_LAST" <=> one_shift' = 1)
  BY <1>1, <1>5 DEF t
<1> QED
  BY <1>11, <1>12 DEF LoopInv

(* No other step of a division, and no other instruction, touches the loop. *)
LEMMA LoopStep ==
    ASSUME NEW shifts, Halving(shifts), IInv, LoopInv(shifts), [Next]_vars
    PROVE  LoopInv(shifts)'
<1>1. RestingStates
  BY DEF IInv
<1>2. ASSUME md_state_q' \notin {"MD_COMP", "MD_LAST"} PROVE LoopInv(shifts)'
  BY <1>2 DEF LoopInv
<1>3. CASE Issue
  <2>1. md_state_q' = "MD_IDLE"
    BY <1>1, <1>3 DEF Issue, Accept, RestingStates, NoInstr, DivOps
  <2> QED
    BY <1>2, <2>1
<1>4. CASE Held \/ MultStep
  <2>1. md_state_q' = md_state_q /\ instr.op \notin DivOps
    BY <1>4 DEF Held, MultStep, MultCycle, MulALBL, MulALBH, MullAHBL, MulhAHBL,
                MulhAHBH, KyberAlu, KyberMulALBL, KyberMultM, KyberMultQ,
                KyberSubAdjust, CompressALBL, CompressSum, MulOps, DivOps,
                KyberAluOps, KyberMacOps
  <2>2. md_state_q' = "MD_IDLE"
    BY <1>1, <2>1 DEF RestingStates
  <2> QED
    BY <1>2, <2>2
<1>5. CASE DivStep
  <2>1. CASE DivIdle \/ DivAbsA \/ DivLast \/ DivChangeSign \/ DivFinish
    BY <1>2, <2>1 DEF DivCycle, DivIdle, DivAbsA, DivLast, DivChangeSign, DivFinish
  <2> QED
    BY <1>5, <2>1, LoopStarts, LoopContinues DEF DivStep
<1>6. CASE UNCHANGED vars
  BY <1>6 DEF vars, divRegs, LoopInv, LoopAt
<1> QED
  BY <1>3, <1>4, <1>5, <1>6 DEF Next

(***************************************************************************)
(* The restoring division is one, for every operand of every width that    *)
(* is a power of two: the bits of the numerator consumed so far equal      *)
(* quotient times divisor plus remainder (ibex_multdiv_fast.sv:484-510).   *)
(***************************************************************************)
THEOREM DivisionRestores ==
    ASSUME NEW shifts, Halving(shifts)
    PROVE  Safety => []DivisionLoop
<1>1. Init => LoopInv(shifts)
  BY DEF Init, LoopInv
<1>2. IInv /\ LoopInv(shifts) /\ [Next]_vars => LoopInv(shifts)'
  BY LoopStep
<1>3. IInv /\ LoopInv(shifts) => DivisionLoop
  <2> SUFFICES ASSUME IInv, LoopInv(shifts), md_state_q \in {"MD_COMP", "MD_LAST"}
               PROVE  /\ op_numerator_q \div one_shift =
                             2 * (op_quotient_q \div (2 * one_shift)) * imd1 + imd0
                      /\ imd1 # 0 => imd0 < 2 * imd1
                      /\ md_state_q = "MD_LAST" => one_shift = 1
    BY DEF DivisionLoop
  <2>1. PICK m \in Nat : LoopAt(m)
    BY DEF LoopInv
  <2>2. one_shift \in Nat /\ one_shift > 0
    BY RegisterRanges, WFacts DEF IInv
  <2> DEFINE d == 2 * one_shift
  <2>3. d \in Nat /\ d > 0 /\ 0 \in 0..(d - 1)
    BY <2>2
  <2>4. op_quotient_q = m * d + 0
    BY <2>1, <2>2, SMT DEF LoopAt
  <2>5. op_quotient_q \div d = m
    <3> HIDE DEF d
    <3> QED
      BY <2>3, <2>4, DivModUnique
  <2> QED
    BY <2>1, <2>5 DEF LoopAt, LoopInv
<1> QED
  BY <1>1, <1>2, <1>3, Invariance, PTL DEF Safety

(* All registers together, whatever the unit and the instruction. *)
THEOREM UnitInvariant ==
    ASSUME NEW shifts, Halving(shifts)
    PROVE  Safety => []UnitInv
<1>1. IInv /\ DivisionLoop => UnitInv
  BY DEF UnitInv
<1> QED
  BY <1>1, Invariance, DivisionRestores, PTL

-----------------------------------------------------------------------------
(***************************************************************************)
(* What a division computes is followed from state to state: the absolute  *)
(* values, the quotient bits of a division by zero, the magnitude of the   *)
(* result before its sign is known, and the result.                        *)
(***************************************************************************)
N == Abs32(instr.a, instr.sa)
D == Abs32(instr.b, instr.sb)

Magnitude == IF instr.op = "DIV"
             THEN IF instr.b = 0 THEN W - 1 ELSE N \div D
             ELSE IF instr.b = 0 THEN N ELSE N % D

ZeroFlag == md_state_q # "MD_IDLE" /\ instr.op = "DIV" => (div_by_zero_q <=> instr.b = 0)

Numerator == md_state_q \in {"MD_ABS_B", "MD_COMP", "MD_LAST"} => op_numerator_q = N

Divisor == md_state_q \in {"MD_COMP", "MD_LAST"} =>
              imd1 = D /\ (D = 0 => op_quotient_q = W - 2 * one_shift)

Computed == /\ md_state_q = "MD_CHANGE_SIGN" => imd0 = Magnitude
            /\ md_state_q = "MD_FINISH" => imd0 % W = Ref(instr)

DivInv == ZeroFlag /\ Numerator /\ Divisor /\ Computed

LEMMA AbsSigned ==
    ASSUME NEW w \in 0..(W - 1), NEW s \in BOOLEAN
    PROVE  /\ Abs32(w, s) \in 0..(W - 1)
           /\ Signed(w, s) = IF s /\ Neg(w) THEN -Abs32(w, s) ELSE Abs32(w, s)
           /\ s /\ Neg(w) => Abs32(w, s) > 0 /\ Abs32(w, s) = W - w
           /\ Abs32(w, s) = 0 <=> w = 0
           /\ ~(s /\ Neg(w)) => Abs32(w, s) = w
<1>1. W \in Nat /\ W \div 2 \in Nat /\ W \div 2 >= 32 /\ W \div 2 < W
  BY WFacts
<1>2. CASE s /\ Neg(w)
  <2>1. w >= W \div 2
    BY <1>2 DEF Neg
  <2>2. (-w) % W = W - w
    <3>1. -w = (-1) * W + (W - w) /\ -1 \in Int /\ W - w \in 0..(W - 1) /\ W > 0
      BY <1>1, <2>1, SMT
    <3> DEFINE r == W - w
    <3>2. -w = (-1) * W + r /\ r \in 0..(W - 1)
      BY <3>1
    <3> HIDE DEF r
    <3>3. ((-1) * W + r) % W = r
      BY <1>1, <3>1, <3>2, DivModUnique
    <3> QED
      BY <3>2, <3>3 DEF r
  <2>3. Abs32(w, s) = W - w /\ Signed(w, s) = w - W
    BY <1>2, <2>2 DEF Abs32, Signed
  <2>4. W - w \in 1..(W - 1) /\ w # 0 /\ w - W = -(W - w)
    BY <1>1, <2>1
  <2> DEFINE neg == s /\ Neg(w)
             abs == Abs32(w, s)
             signed == Signed(w, s)
  <2>5. neg /\ abs = W - w /\ signed = w - W
    BY <1>2, <2>3
  <2> HIDE DEF neg, abs, signed
  <2>6. /\ abs \in 0..(W - 1) /\ abs > 0 /\ w # 0 /\ abs # 0
        /\ signed = -abs
    BY <1>1, <2>4, <2>5
  <2>7. signed = IF neg THEN -abs ELSE abs
    BY <2>5, <2>6
  <2> QED
    BY <2>5, <2>6, <2>7 DEF neg, abs, signed
<1>3. CASE ~(s /\ Neg(w))
  <2>1. Abs32(w, s) = w /\ Signed(w, s) = w
    BY <1>3 DEF Abs32, Signed
  <2> QED
    BY <1>1, <1>3, <2>1
<1> QED
  BY <1>2, <1>3

LEMMA Truncated ==
    ASSUME NEW n \in Nat, NEW d \in Nat, d > 0, NEW x \in Int, NEW y \in Int,
           x = n \/ (x = -n /\ n > 0), y = d \/ y = -d
    PROVE  TruncDiv(x, y) = IF (x < 0) = (y < 0) THEN n \div d ELSE -(n \div d)
<1>1. (IF x < 0 THEN -x ELSE x) = n /\ (IF y < 0 THEN -y ELSE y) = d
  OBVIOUS
<1> QED
  BY <1>1 DEF TruncDiv

(* The operands of a division, by magnitude and sign. *)
LEMMA Dividing ==
    ASSUME TypeOK, instr.op \in DivOps
    PROVE  /\ instr # NoInstr /\ instr.sa \in BOOLEAN /\ instr.sb = instr.sa
           /\ N \in 0..(W - 1) /\ D \in 0..(W - 1)
           /\ D = 0 <=> instr.b = 0
<1>1. instr # NoInstr
  BY DEF NoInstr, DivOps
<1>2. /\ LegalInstr(instr) /\ instr.sa \in BOOLEAN /\ instr.sb \in BOOLEAN
      /\ instr.a \in 0..(W - 1) /\ instr.b \in 0..(W - 1)
  BY <1>1, Operands
<1>3. instr.sb = instr.sa
  BY <1>2 DEF LegalInstr
<1> QED
  BY <1>1, <1>2, <1>3, AbsSigned DEF N, D

(* The sign the last step gives the magnitude makes it the result. *)
LEMMA SignCorrect ==
    ASSUME TypeOK, ZeroFlag, md_state_q = "MD_CHANGE_SIGN", instr.op \in DivOps,
           imd0 = Magnitude
    PROVE  (IF (IF instr.op = "DIV" THEN div_change_sign ELSE rem_change_sign)
            THEN (-Remainder) % W ELSE imd0) % W = Ref(instr)
<1> DEFINE negA == instr.sa /\ Neg(instr.a)
           negB == instr.sb /\ Neg(instr.b)
           x == Signed(instr.a, instr.sa)
           y == Signed(instr.b, instr.sb)
           n == N
           d == D
<1>1. W \in Nat /\ W >= 64
  BY WFacts
<1>2. /\ n \in 0..(W - 1) /\ d \in 0..(W - 1) /\ (d = 0 <=> instr.b = 0)
      /\ instr.a \in 0..(W - 1) /\ instr.sb = instr.sa
      /\ negA \in BOOLEAN /\ negB \in BOOLEAN
      /\ x = IF negA THEN -n ELSE n
      /\ y = IF negB THEN -d ELSE d
      /\ (negA => n > 0 /\ n = W - instr.a) /\ (~negA => n = instr.a)
      /\ (negB => d > 0)
  <2>1. /\ instr # NoInstr /\ instr.sa \in BOOLEAN /\ instr.sb = instr.sa
        /\ n \in 0..(W - 1) /\ d \in 0..(W - 1) /\ (d = 0 <=> instr.b = 0)
    BY Dividing
  <2>2. instr.a \in 0..(W - 1) /\ instr.b \in 0..(W - 1) /\ instr.sb \in BOOLEAN
    BY <2>1, Operands
  <2>3. negA \in BOOLEAN /\ negB \in BOOLEAN
    BY <2>1, <2>2
  <2> QED
    BY <2>1, <2>2, <2>3, AbsSigned DEF N, D
<1>3. /\ div_change_sign <=> (negA # negB /\ ~div_by_zero_q)
      /\ rem_change_sign <=> negA
  BY DEF div_change_sign, rem_change_sign
<1>4. imd0 \in 0..(W - 1) => Remainder = imd0 /\ imd0 % W = imd0
  BY <1>1, SMT DEF Remainder
<1> HIDE DEF negA, negB, x, y, n, d
<1>5. ASSUME NEW r \in 0..(W - 1)
      PROVE  ((-r) % W) % W = (-r) % W
  <2>1. (-r) % W \in 0..(W - 1)
    BY <1>1, DivMod
  <2> QED
    BY <1>1, <2>1, SMT
<1>6. CASE instr.op = "DIV" /\ instr.b = 0
  <2>1. imd0 = W - 1 /\ ~div_change_sign
    BY <1>3, <1>6 DEF Magnitude, ZeroFlag
  <2>2. Ref(instr) = W - 1
    BY <1>6 DEF Ref, DivRef
  <2> QED
    BY <1>1, <1>4, <1>6, <2>1, <2>2
<1>7. CASE instr.op = "REM" /\ instr.b = 0
  <2>1. imd0 = n
    BY <1>7 DEF Magnitude, n
  <2>2. Remainder = n /\ imd0 % W = n
    BY <1>2, <1>4, <2>1
  <2>3. Ref(instr) = instr.a
    BY <1>7 DEF Ref, RemRef
  <2>4. negA => (-n) % W = instr.a
    <3> SUFFICES ASSUME negA PROVE (-n) % W = instr.a
      OBVIOUS
    <3>1. -n = (-1) * W + instr.a /\ -1 \in Int /\ W > 0
      BY <1>1, <1>2
    <3> QED
      BY <1>1, <1>2, <3>1, DivModUnique
  <2>5. CASE negA
    BY <1>2, <1>3, <1>5, <1>7, <2>2, <2>3, <2>4, <2>5
  <2>6. CASE ~negA
    BY <1>2, <1>3, <1>7, <2>2, <2>3, <2>6
  <2> QED
    BY <2>5, <2>6
<1>8. CASE instr.b # 0
  <2> DEFINE q == n \div d
             r == n % d
  <2>1. d \in Nat /\ d > 0 /\ n \in Nat /\ n < W
    BY <1>1, <1>2, <1>8
  <2>2. n = q * d + r /\ q \in Nat /\ r \in 0..(d - 1)
    BY <2>1, DivModNat
  <2>3. q \in 0..(W - 1) /\ r \in 0..(W - 1)
    <3>1. q <= n
      BY <2>1, <2>2, SMT
    <3>2. r <= n
      BY <2>1, <2>2, SMT
    <3> HIDE DEF q, r
    <3> QED
      BY <1>1, <2>1, <2>2, <3>1, <3>2
  <2>4. TruncDiv(x, y) = IF negA = negB THEN q ELSE -q
    <3>1. x \in Int /\ y \in Int /\ (x < 0 <=> negA) /\ (y < 0 <=> negB)
          /\ (x = n \/ (x = -n /\ n > 0)) /\ (y = d \/ y = -d)
      BY <1>2, <2>1
    <3>2. TruncDiv(x, y) = IF (x < 0) = (y < 0) THEN n \div d ELSE -(n \div d)
      BY <2>1, <3>1, Truncated
    <3>3. ((x < 0) = (y < 0)) <=> (negA = negB)
      BY <1>2, <3>1
    <3> QED
      BY <3>2, <3>3
  <2>5. CASE instr.op = "DIV"
    <3>1. imd0 = q
      BY <1>8, <2>5 DEF Magnitude, n, d
    <3>2. Ref(instr) = TruncDiv(x, y) % W
      BY <1>2, <1>8, <2>5 DEF Ref, DivRef, x, y
    <3>3. Remainder = q /\ imd0 % W = q /\ q % W = q
      BY <1>1, <1>4, <2>3, <3>1
    <3>4. div_change_sign <=> negA # negB
      BY <1>3, <1>8, <2>5 DEF ZeroFlag
    <3> HIDE DEF q
    <3>5. ((-q) % W) % W = (-q) % W
      BY <1>5, <2>3
    <3> QED
      BY <2>4, <2>5, <3>2, <3>3, <3>4, <3>5
  <2>6. CASE instr.op = "REM"
    <3>1. imd0 = r
      BY <1>8, <2>6 DEF Magnitude, n, d
    <3>2. Ref(instr) = (x - y * TruncDiv(x, y)) % W
      BY <1>2, <1>8, <2>6 DEF Ref, RemRef, x, y
    <3>3. Remainder = r /\ imd0 % W = r /\ r % W = r
      BY <1>1, <1>4, <2>3, <3>1
    <3> HIDE DEF q, r
    <3>4. x - y * TruncDiv(x, y) = IF negA THEN -r ELSE r
      <4>1. CASE negA /\ negB
        <5>1. x = -n /\ y = -d /\ TruncDiv(x, y) = q
          BY <1>2, <2>4, <4>1
        <5> QED
          BY <2>1, <2>2, <4>1, <5>1, SMT
      <4>2. CASE negA /\ ~negB
        <5>1. x = -n /\ y = d /\ TruncDiv(x, y) = -q
          BY <1>2, <2>4, <4>2
        <5> QED
          BY <2>1, <2>2, <4>2, <5>1, SMT
      <4>3. CASE ~negA /\ negB
        <5>1. x = n /\ y = -d /\ TruncDiv(x, y) = -q
          BY <1>2, <2>4, <4>3
        <5> QED
          BY <2>1, <2>2, <4>3, <5>1, SMT
      <4>4. CASE ~negA /\ ~negB
        <5>1. x = n /\ y = d /\ TruncDiv(x, y) = q
          BY <1>2, <2>4, <4>4
        <5> QED
          BY <2>1, <2>2, <4>4, <5>1, SMT
      <4> QED
        BY <4>1, <4>2, <4>3, <4>4
    <3>5. ((-r) % W) % W = (-r) % W
      BY <1>5, <2>3
    <3> QED
      BY <1>3, <2>6, <3>2, <3>3, <3>4, <3>5
  <2> QED
    BY <2>5, <2>6 DEF DivOps
<1> QED
  BY <1>6, <1>7, <1>8 DEF DivOps

(* The last quotient bit leaves the magnitude of the result. *)
LEMMA LastBit ==
    ASSUME NEW shifts, TypeOK, QuotientRoom, LoopInv(shifts), Numerator, Divisor,
           md_state_q = "MD_LAST", instr.op \in DivOps
    PROVE  (IF instr.op = "DIV" THEN next_quotient ELSE next_remainder) = Magnitude
<1>1. one_shift = 1 /\ op_numerator_q = N /\ imd1 = D
      /\ (D = 0 => op_quotient_q = W - 2)
  BY WFacts DEF LoopInv, Numerator, Divisor
<1>2. PICK m \in Nat : LoopAt(m)
  BY DEF LoopInv
<1>3. PICK bit \in {0, 1} :
              /\ next_quotient = one_shift * (2 * m + bit)
              /\ op_numerator_q \div one_shift = (2 * m + bit) * imd1 + next_remainder
              /\ imd1 # 0 => next_remainder < imd1
              /\ imd1 = 0 => bit = 1
              /\ next_remainder \in Nat
  BY <1>2, QuotientBit
<1>4. N \in 0..(W - 1) /\ D \in 0..(W - 1) /\ (D = 0 <=> instr.b = 0) /\ W \in Nat
  BY Dividing, WFacts
<1> DEFINE n == N
           d == D
           q == 2 * m + bit
           r == next_remainder
<1>5. /\ q \in Nat /\ r \in Nat /\ n \in Nat /\ d \in Nat
      /\ next_quotient = q /\ n = q * d + r /\ (d # 0 => r < d)
  <2>1. n \div 1 = n
    BY <1>4, SMT
  <2> QED
    BY <1>1, <1>3, <1>4, <2>1
<1>6. CASE instr.b = 0
  <2>1. op_quotient_q = 2 * m /\ bit = 1 /\ d = 0
    BY <1>1, <1>2, <1>3, <1>4, <1>6 DEF LoopAt
  <2>2. q = W - 1 /\ r = n
    BY <1>1, <1>4, <1>5, <2>1
  <2> QED
    BY <1>5, <1>6, <2>2 DEF Magnitude
<1>7. CASE instr.b # 0
  <2>1. d > 0 /\ r \in 0..(d - 1)
    BY <1>4, <1>5, <1>7
  <2> HIDE DEF q, r, n, d
  <2>2. n \div d = q /\ n % d = r
    BY <1>5, <2>1, DivModUnique
  <2> QED
    BY <1>5, <1>7, <2>2 DEF Magnitude, n, d, r
<1> QED
  BY <1>6, <1>7

LEMMA DivInvStep ==
    ASSUME NEW shifts, Halving(shifts), IInv, LoopInv(shifts), DivInv, [Next]_vars
    PROVE  DivInv'
<1>1. TypeOK /\ RestingStates /\ QuotientRoom
  BY DEF IInv
<1>2. ASSUME md_state_q' = "MD_IDLE" PROVE DivInv'
  BY <1>2 DEF DivInv, ZeroFlag, Numerator, Divisor, Computed
<1>3. CASE Issue
  <2>1. md_state_q' = "MD_IDLE"
    BY <1>1, <1>3 DEF Issue, Accept, RestingStates, NoInstr, DivOps
  <2> QED
    BY <1>2, <2>1
<1>4. CASE Held \/ MultStep
  <2>1. md_state_q' = md_state_q /\ instr.op \notin DivOps
    BY <1>4 DEF Held, MultStep, MultCycle, MulALBL, MulALBH, MullAHBL, MulhAHBL,
                MulhAHBH, KyberAlu, KyberMulALBL, KyberMultM, KyberMultQ,
                KyberSubAdjust, CompressALBL, CompressSum, MulOps, DivOps,
                KyberAluOps, KyberMacOps
  <2>2. md_state_q' = "MD_IDLE"
    BY <1>1, <2>1 DEF RestingStates
  <2> QED
    BY <1>2, <2>2
<1>5. CASE DivIdle
  <2>1. /\ instr' = instr /\ instr.op \in DivOps
        /\ instr.op = "DIV" => (div_by_zero_q' <=> instr.b = 0)
        /\ md_state_q' = (IF SkipDivision THEN "MD_FINISH" ELSE "MD_ABS_A")
        /\ imd0' = (IF instr.op = "DIV" THEN 4 * W - 1 ELSE instr.a)
    BY <1>5 DEF DivIdle, DivCycle, Continue
  <2>2. SkipDivision => imd0' % W = Ref(instr)
    <3> SUFFICES ASSUME instr.b = 0 PROVE imd0' % W = Ref(instr)
      BY DEF SkipDivision
    <3>1. W \in Nat /\ W > 0 /\ instr.a \in 0..(W - 1)
      BY <1>1, <2>1, Dividing, Operands, WFacts
    <3>2. CASE instr.op = "DIV"
      <4>1. 4 * W - 1 = 3 * W + (W - 1) /\ 3 \in Int /\ W - 1 \in 0..(W - 1)
        BY <3>1
      <4> DEFINE r == W - 1
      <4>2. r \in 0..(W - 1) /\ imd0' = 3 * W + r
        BY <2>1, <3>2, <4>1
      <4> HIDE DEF r
      <4>3. (3 * W + r) % W = r
        BY <3>1, <4>2, DivModUnique
      <4> QED
        BY <3>2, <4>2, <4>3 DEF r, Ref, DivRef
    <3>3. CASE instr.op = "REM"
      <4>1. instr.a % W = instr.a
        BY <3>1, SMT
      <4> QED
        BY <2>1, <3>3, <4>1 DEF Ref, RemRef
    <3> QED
      BY <2>1, <3>2, <3>3 DEF DivOps
  <2> QED
    BY <2>1, <2>2 DEF DivInv, ZeroFlag, Numerator, Divisor, Computed
<1>6. CASE DivAbsA
  <2>1. /\ instr' = instr /\ div_by_zero_q' = div_by_zero_q /\ md_state_q = "MD_ABS_A"
        /\ op_numerator_q' = N /\ md_state_q' = "MD_ABS_B"
    BY <1>6 DEF DivAbsA, DivCycle, Continue, N
  <2> QED
    BY <2>1 DEF DivInv, ZeroFlag, Numerator, Divisor, Computed, N
<1>7. CASE DivAbsB
  <2>1. /\ instr' = instr /\ div_by_zero_q' = div_by_zero_q /\ md_state_q = "MD_ABS_B"
        /\ op_numerator_q' = op_numerator_q /\ md_state_q' = "MD_COMP"
        /\ imd1' = D /\ op_quotient_q' = 0 /\ one_shift' = W \div 2
    BY <1>1, <1>7 DEF DivAbsB, DivCycle, Continue, D, QuotientRoom
  <2>2. op_quotient_q' = W - 2 * one_shift'
    BY <2>1, WEven
  <2> QED
    BY <2>1, <2>2 DEF DivInv, ZeroFlag, Numerator, Divisor, Computed, N, D
<1>8. CASE DivComp
  <2>1. /\ instr' = instr /\ div_by_zero_q' = div_by_zero_q /\ md_state_q = "MD_COMP"
        /\ op_numerator_q' = op_numerator_q /\ md_state_q' \in {"MD_COMP", "MD_LAST"}
        /\ imd1' = imd1 /\ op_quotient_q' = next_quotient /\ one_shift' = next_shift
    BY <1>8 DEF DivComp, DivCycle, Continue
  <2>2. imd1 = D /\ (D = 0 => op_quotient_q = W - 2 * one_shift)
    BY <2>1 DEF DivInv, Divisor
  <2>3. D = 0 => next_quotient = W - 2 * next_shift
    <3> SUFFICES ASSUME D = 0 PROVE next_quotient = W - 2 * next_shift
      OBVIOUS
    <3>1. PICK m \in Nat : LoopAt(m)
      BY <2>1 DEF LoopInv
    <3>2. next_quotient = one_shift * (2 * m + 1)
      BY <1>1, <2>1, <2>2, <3>1, QuotientBit
    <3>3. one_shift \in Nat /\ one_shift # 1 /\ one_shift % 2 = 0 /\ W \in Nat
      BY <2>1, WFacts DEF LoopInv, Halving
    <3>4. next_shift = one_shift \div 2
      BY <3>3 DEF next_shift
    <3>5. one_shift = 2 * next_shift
      BY <3>3, <3>4, SMT
    <3>6. op_quotient_q = 2 * one_shift * m
      BY <3>1 DEF LoopAt
    <3>7. next_quotient = op_quotient_q + one_shift
      BY <3>2, <3>3, <3>6, SMT
    <3> QED
      BY <2>2, <3>3, <3>5, <3>7
  <2> QED
    BY <2>1, <2>2, <2>3 DEF DivInv, ZeroFlag, Numerator, Divisor, Computed, N, D
<1>9. CASE DivLast
  <2>1. /\ instr' = instr /\ div_by_zero_q' = div_by_zero_q /\ md_state_q = "MD_LAST"
        /\ instr.op \in DivOps /\ md_state_q' = "MD_CHANGE_SIGN"
        /\ imd0' = (IF instr.op = "DIV" THEN next_quotient ELSE next_remainder)
    BY <1>9 DEF DivLast, DivCycle, Continue
  <2>2. imd0' = Magnitude
    BY <1>1, <2>1, LastBit DEF DivInv
  <2> QED
    BY <2>1, <2>2 DEF DivInv, ZeroFlag, Numerator, Divisor, Computed, Magnitude, N, D
<1>10. CASE DivChangeSign
  <2>1. /\ instr' = instr /\ div_by_zero_q' = div_by_zero_q
        /\ md_state_q = "MD_CHANGE_SIGN"
        /\ instr.op \in DivOps /\ md_state_q' = "MD_FINISH"
        /\ imd0' = (IF (IF instr.op = "DIV" THEN div_change_sign ELSE rem_change_sign)
                    THEN (-Remainder) % W ELSE imd0)
    BY <1>10 DEF DivChangeSign, DivCycle, Continue
  <2>2. imd0' % W = Ref(instr)
    BY <1>1, <2>1, SignCorrect DEF DivInv, Computed
  <2> QED
    BY <2>1, <2>2 DEF DivInv, ZeroFlag, Numerator, Divisor, Computed
<1>11. CASE DivFinish
  BY <1>2, <1>11 DEF DivFinish, DivCycle
<1>12. CASE UNCHANGED vars
  BY <1>12 DEF vars, divRegs, DivInv, ZeroFlag, Numerator, Divisor, Computed,
               Magnitude, N, D
<1> QED
  BY <1>3, <1>4, <1>5, <1>6, <1>7, <1>8, <1>9, <1>10, <1>11, <1>12 DEF Next, DivStep

(***************************************************************************)
(* DIV, DIVU, REM and REMU write back the quotient and the remainder the   *)
(* instruction set defines, those of a division by zero and of the         *)
(* overflow -W/2 / -1 included, in either timing mode, for words of any    *)
(* power of two (ibex_multdiv_fast.sv:417-539).                            *)
(***************************************************************************)
DivResults ==
    [][instr.op \in DivOps /\ instr' = NoInstr => rf_wdata' = Ref(instr)]_vars

THEOREM DivResultsCorrect ==
    ASSUME NEW shifts, Halving(shifts)
    PROVE  Spec => DivResults
<1> DEFINE P == instr.op \in DivOps /\ instr' = NoInstr => rf_wdata' = Ref(instr)
<1>1. Init => LoopInv(shifts) /\ DivInv
  BY DEF Init, LoopInv, DivInv, ZeroFlag, Numerator, Divisor, Computed
<1>2. IInv /\ LoopInv(shifts) /\ DivInv /\ [Next]_vars => LoopInv(shifts)' /\ DivInv'
  BY LoopStep, DivInvStep
<1>3. ASSUME DivInv, Next PROVE P
  <2> SUFFICES ASSUME instr.op \in DivOps, instr' = NoInstr
               PROVE  rf_wdata' = Ref(instr)
    OBVIOUS
  <2>1. instr # NoInstr
    BY DEF NoInstr, DivOps
  <2>2. DivFinish
    BY <1>3, <2>1 DEF Next, Issue, Accept, Held, MultStep, MultCycle, MulALBL, MulALBH,
         MullAHBL, MulhAHBL, MulhAHBH, KyberAlu, KyberMulALBL, KyberMultM, KyberMultQ,
         KyberSubAdjust, CompressALBL, CompressSum, MulOps, DivOps, KyberAluOps,
         KyberMacOps, DivStep, DivIdle, DivAbsA, DivAbsB, DivComp, DivLast,
         DivChangeSign, Continue
  <2> QED
    BY <1>3, <2>2 DEF DivFinish, DivCycle, Done, DivInv, Computed
<1>4. DivInv /\ [Next]_vars => [P]_vars
  BY <1>3
<1> QED
  BY <1>1, <1>2, <1>4, Invariance, PTL DEF Spec, Safety, DivResults

-----------------------------------------------------------------------------
(***************************************************************************)
(* The products.  Both operands are an upper half, signed or not, and a    *)
(* lower one; the cross products and the carry of the lowest product are   *)
(* CrossALBH and Cross, and the registers hold them as far as the          *)
(* multiplication has come.  MUL keeps their lower halves only.            *)
(***************************************************************************)
LowProduct == Lo(instr.a) * Lo(instr.b)

CrossALBH == Lo(instr.a) * SignedHi(instr.b, instr.sb) + Hi(LowProduct)

Cross == SignedHi(instr.a, instr.sa) * Lo(instr.b) + CrossALBH

MulPipeline ==
    /\ mult_state_q = "ALBH" => instr.op \in MulOps /\ imd0 = LowProduct
    /\ mult_state_q = "AHBL" =>
          /\ instr.op \in MulOps
          /\ imd0 = IF instr.op = "MULL" THEN Join(Lo(CrossALBH), Lo(LowProduct))
                    ELSE CrossALBH % (4 * W)
    /\ mult_state_q = "AHBH" => instr.op = "MULH" /\ imd0 = Cross % (4 * W)

CompressPipeline ==
    mult_state_q = "KYBER_COMPRESS" =>
        /\ instr.op = "KYBER_COMPRESS"
        /\ imd0 = CompressFracProduct(instr.a)
        /\ imd1 = CompressIntProduct(instr.a)

(* The operands as numbers, put together from their halves. *)
LEMMA SignedHalves ==
    ASSUME NEW w \in 0..(W - 1), NEW s \in BOOLEAN
    PROVE  /\ Lo(w) \in 0..(Half - 1)
           /\ SignedHi(w, s) \in (-Half)..(Half - 1)
           /\ ~s => SignedHi(w, s) >= 0
           /\ Signed(w, s) = SignedHi(w, s) * Half + Lo(w)
<1>1. Half \in Nat /\ Half >= 8 /\ W \in Nat /\ W = Half * Half
  BY WFacts DEF W
<1>2. /\ w \in Nat /\ Lo(w) \in 0..(Half - 1) /\ Hi(w) \in 0..(Half - 1)
  BY <1>1, HalfWords
<1>3. w = Hi(w) * Half + Lo(w)
  BY <1>1, <1>2, DivModNat DEF Lo, Hi
<1> DEFINE h == Half
           hi == Hi(w)
           lo == Lo(w)
<1>4. (hi - h) * h + lo = hi * h + lo - h * h
  <2>1. h \in Int /\ hi \in Int /\ lo \in Int
    BY <1>1, <1>2
  <2> HIDE DEF h, hi, lo
  <2> QED
    BY <2>1, SMT
<1>5. /\ h \in Nat /\ h >= 8 /\ hi \in 0..(h - 1) /\ lo \in 0..(h - 1) /\ W = h * h
      /\ h * h \in Int /\ hi * h \in Int /\ w = hi * h + lo
  BY <1>1, <1>2, <1>3, SMT
<1>6. SignedHi(w, s) = (IF s /\ Neg(w) THEN hi - h ELSE hi)
  BY DEF SignedHi
<1>7. Signed(w, s) = IF s /\ Neg(w) THEN w - W ELSE w
  BY DEF Signed
<1> DEFINE u == SignedHi(w, s)
           v == Signed(w, s)
<1> HIDE DEF h, hi, lo, u, v
<1>8. CASE s /\ Neg(w)
  <2>1. u = hi - h /\ v = w - W
    BY <1>6, <1>7, <1>8 DEF u, v
  <2>2. u \in (-h)..(h - 1) /\ v = u * h + lo
    BY <1>4, <1>5, <2>1
  <2> QED
    BY <1>5, <1>8, <2>2 DEF u, v, h, lo
<1>9. CASE ~(s /\ Neg(w))
  <2>1. u = hi /\ v = w
    BY <1>6, <1>7, <1>9 DEF u, v
  <2>2. u \in (-h)..(h - 1) /\ u >= 0 /\ v = u * h + lo
    BY <1>5, <2>1
  <2> QED
    BY <1>5, <2>1, <2>2 DEF u, v, h, lo
<1> QED
  BY <1>8, <1>9

(* The ranges of the partial products. *)
LEMMA CrossRange ==
    ASSUME TypeOK, instr # NoInstr
    PROVE  /\ LowProduct \in 0..(W - 1)
           /\ Hi(LowProduct) \in 0..(Half - 1) /\ Lo(LowProduct) \in 0..(Half - 1)
           /\ LowProduct = Hi(LowProduct) * Half + Lo(LowProduct)
           /\ CrossALBH \in Int /\ Cross \in Int
           /\ -2 * W <= Cross /\ Cross < 2 * W
           /\ ~instr.sa /\ ~instr.sb => Cross >= 0
<1> DEFINE h == Half
           al == Lo(instr.a)
           bl == Lo(instr.b)
           ah == SignedHi(instr.a, instr.sa)
           bh == SignedHi(instr.b, instr.sb)
<1>1. h \in Nat /\ h >= 8 /\ W \in Nat /\ W = h * h
  BY WFacts DEF W
<1>2. /\ instr.a \in 0..(W - 1) /\ instr.b \in 0..(W - 1)
      /\ instr.sa \in BOOLEAN /\ instr.sb \in BOOLEAN
  BY Operands
<1>3. /\ al \in 0..(h - 1) /\ bl \in 0..(h - 1)
      /\ ah \in (-h)..(h - 1) /\ bh \in (-h)..(h - 1)
      /\ ~instr.sa => ah >= 0
      /\ ~instr.sb => bh >= 0
  BY <1>2, SignedHalves
<1>4. LowProduct \in 0..(W - 1)
  <2>1. al \in 0..(Half - 1) /\ bl \in 0..Half
    BY <1>1, <1>3
  <2> QED
    BY <2>1, HalfProduct DEF LowProduct
<1>5. LowProduct \in Nat /\ LowProduct < W
  BY <1>1, <1>4
<1>6. /\ Hi(LowProduct) \in 0..(h - 1) /\ Lo(LowProduct) \in 0..(h - 1)
      /\ LowProduct = Hi(LowProduct) * h + Lo(LowProduct)
  <2>1. LowProduct = (LowProduct \div h) * h + (LowProduct % h)
    BY <1>1, <1>5, DivModNat
  <2> QED
    BY <1>1, <1>5, <2>1, HalfWords DEF Hi, Lo
<1> DEFINE c == Hi(LowProduct)
<1>7. CrossALBH = al * bh + c /\ Cross = ah * bl + (al * bh + c)
  BY DEF CrossALBH, Cross
<1>8. ASSUME NEW l \in 0..(h - 1), NEW u \in (-h)..(h - 1)
      PROVE  /\ l * u \in Int /\ u * l = l * u
             /\ -(h * h) <= l * u
             /\ l * u <= h * h - h - l
             /\ u >= 0 => l * u >= 0
  <2>1. h \in Int /\ l \in Int /\ u \in Int /\ 0 <= l /\ l <= h - 1 /\ -h <= u /\ u <= h - 1
    BY <1>1
  <2> HIDE DEF h
  <2>2. l * u \in Int /\ u * l = l * u /\ l * h \in Int
    BY <2>1, SMT
  <2>3. l * (h - 1 - u) >= 0 /\ l * (h - 1 - u) = l * h - l - l * u
    BY <2>1, SMT
  <2>4. (h - 1 - l) * h >= 0 /\ (h - 1 - l) * h = h * h - h - l * h
    BY <2>1, SMT
  <2>5. l * (u + h) >= 0 /\ l * (u + h) = l * u + l * h
    BY <2>1, SMT
  <2>6. u >= 0 => l * u >= 0
    BY <2>1, SMT
  <2>7. h * h \in Int
    BY <2>1, SMT
  <2> QED
    BY <2>1, <2>2, <2>3, <2>4, <2>5, <2>6, <2>7
<1>9. /\ al * bh \in Int /\ ah * bl = bl * ah /\ bl * ah \in Int
      /\ -W <= al * bh /\ -W <= bl * ah
      /\ al * bh <= W - h /\ bl * ah <= W - h
      /\ bh >= 0 => al * bh >= 0
      /\ ah >= 0 => bl * ah >= 0
  <2>1. /\ al * bh \in Int /\ -(h * h) <= al * bh /\ al * bh <= h * h - h - al
        /\ bh >= 0 => al * bh >= 0
    BY <1>3, <1>8
  <2>2. /\ bl * ah \in Int /\ ah * bl = bl * ah
        /\ -(h * h) <= bl * ah /\ bl * ah <= h * h - h - bl
        /\ ah >= 0 => bl * ah >= 0
    BY <1>3, <1>8
  <2> DEFINE p == al * bh
             q == bl * ah
             w == h * h
  <2>3. w = W
    BY <1>1
  <2> HIDE DEF w
  <2> HIDE DEF p, q
  <2>4. p \in Int /\ -W <= p /\ p <= W - h - al /\ q \in Int /\ -W <= q /\ q <= W - h - bl
    BY <2>1, <2>2, <2>3 DEF p, q, w
  <2>5. p <= W - h /\ q <= W - h
    <3> HIDE DEF al, bl, h
    <3> QED
      BY <1>1, <1>3, <2>4
  <2> QED
    BY <2>1, <2>2, <2>4, <2>5 DEF p, q
<1> DEFINE p == al * bh
           q == bl * ah
<1>10. /\ p \in Int /\ q \in Int /\ c \in 0..(h - 1)
       /\ -W <= p /\ -W <= q /\ p <= W - h /\ q <= W - h
       /\ bh >= 0 => p >= 0
       /\ ah >= 0 => q >= 0
       /\ CrossALBH = p + c /\ Cross = q + (p + c)
  BY <1>6, <1>7, <1>9
<1>11. ~instr.sa /\ ~instr.sb => p >= 0 /\ q >= 0
  BY <1>3, <1>10
<1> HIDE DEF p, q, c, h, al, bl, ah, bh
<1>12. /\ CrossALBH \in Int /\ Cross \in Int
       /\ -2 * W <= Cross /\ Cross < 2 * W
       /\ p >= 0 /\ q >= 0 => Cross >= 0
  BY <1>1, <1>10
<1> QED
  BY <1>4, <1>6, <1>11, <1>12 DEF h

(* Long multiplication, and the place of each part of it in the product. *)
LEMMA LongMultiplication ==
    ASSUME NEW h \in Int, NEW ah \in Int, NEW al \in Int, NEW bh \in Int, NEW bl \in Int
    PROVE  (ah * h + al) * (bh * h + bl)
               = (ah * bh) * (h * h) + (ah * bl + al * bh) * h + al * bl
<1>1. (ah * h + al) * (bh * h + bl)
          = (ah * h) * (bh * h) + (ah * h) * bl + al * (bh * h) + al * bl
  BY SMT
<1>2. (ah * h) * (bh * h) = (ah * bh) * (h * h)
  BY SMT
<1>3. (ah * h) * bl + al * (bh * h) = (ah * bl + al * bh) * h
  BY SMT
<1> QED
  BY <1>1, <1>2, <1>3, SMT

LEMMA ProductParts ==
    ASSUME TypeOK, instr # NoInstr
    PROVE  /\ SignedHi(instr.a, instr.sa) * SignedHi(instr.b, instr.sb) \in Int
           /\ Signed(instr.a, instr.sa) * Signed(instr.b, instr.sb)
               = (SignedHi(instr.a, instr.sa) * SignedHi(instr.b, instr.sb)) * W
                 + Cross * Half + Lo(LowProduct)
<1> DEFINE h == Half
           al == Lo(instr.a)
           bl == Lo(instr.b)
           ah == SignedHi(instr.a, instr.sa)
           bh == SignedHi(instr.b, instr.sb)
           c == Hi(LowProduct)
           l == Lo(LowProduct)
           a == Signed(instr.a, instr.sa)
           b == Signed(instr.b, instr.sb)
<1>1. h \in Int /\ W = h * h
  BY WFacts DEF W
<1>2. /\ instr.a \in 0..(W - 1) /\ instr.b \in 0..(W - 1)
      /\ instr.sa \in BOOLEAN /\ instr.sb \in BOOLEAN
  BY Operands
<1>3. /\ al \in Int /\ bl \in Int /\ ah \in Int /\ bh \in Int
      /\ a = ah * h + al /\ b = bh * h + bl
  BY <1>1, <1>2, SignedHalves
<1>4. c \in Int /\ l \in Int /\ LowProduct = c * h + l /\ LowProduct = al * bl
  BY CrossRange DEF LowProduct
<1>5. Cross = ah * bl + (al * bh + c)
  BY DEF Cross, CrossALBH
<1> HIDE DEF h, al, bl, ah, bh, c, l, a, b
<1>6. a * b = (ah * bh) * (h * h) + (ah * bl + al * bh) * h + al * bl
  BY <1>1, <1>3, LongMultiplication
<1> DEFINE s == ah * bl + al * bh
<1>7. s \in Int /\ Cross = s + c /\ ah * bh \in Int
  BY <1>3, <1>4, <1>5, SMT
<1> DEFINE high == (ah * bh) * W
<1>8. high \in Int
  BY <1>1, <1>7, SMT
<1>9. a * b = high + s * h + (c * h + l)
  BY <1>1, <1>4, <1>6
<1> HIDE DEF s, high
<1>10. s * h + (c * h + l) = Cross * h + l
  BY <1>1, <1>4, <1>7, SMT
<1>11. s * h \in Int /\ c * h \in Int /\ Cross * h \in Int
  BY <1>1, <1>4, <1>7, SMT
<1>12. a * b = high + Cross * h + l
  BY <1>4, <1>8, <1>9, <1>10, <1>11
<1> QED
  BY <1>7, <1>12 DEF high, h, l, a, b, ah, bh

(* A multiple of the divisor passes through a division with remainder. *)
LEMMA DivModSum ==
    ASSUME NEW d \in Nat, d > 0, NEW q \in Int, NEW x \in Int
    PROVE  (q * d + x) \div d = q + (x \div d) /\ (q * d + x) % d = x % d
<1> DEFINE p == x \div d
           r == x % d
<1>1. p \in Int /\ r \in 0..(d - 1) /\ x = p * d + r
  BY DivMod
<1> HIDE DEF p, r
<1>2. q * d + x = (q + p) * d + r /\ q + p \in Int
  BY <1>1, SMT
<1>3. ((q + p) * d + r) \div d = q + p /\ ((q + p) * d + r) % d = r
  BY <1>1, <1>2, DivModUnique
<1> QED
  BY <1>2, <1>3 DEF p, r

(* Cutting a sum to a lower half forgets the upper halves of its terms. *)
LEMMA LowerHalf ==
    ASSUME NEW x \in Int, NEW y \in Int
    PROVE  /\ Lo(x) \in 0..(Half - 1)
           /\ Lo(x % (4 * W)) = Lo(x)
           /\ Lo(x + Lo(y)) = Lo(x + y)
<1> DEFINE h == Half
           n == 4 * h
           m == 4 * W
           q == x \div m
           r == x % m
           p == y \div h
           l == y % h
<1>1. h \in Nat /\ h > 0 /\ n \in Nat /\ m \in Nat /\ m > 0 /\ m = n * h
  <2>1. h \in Nat /\ h >= 8 /\ W = h * h /\ W \in Nat
    BY WFacts DEF W
  <2>2. 4 * (h * h) = n * h
    BY <2>1, SMT
  <2> QED
    BY <2>1, <2>2
<1>2. q \in Int /\ r \in 0..(m - 1) /\ x = q * m + r
  <2> HIDE DEF m
  <2> QED
    BY <1>1, DivMod
<1>3. p \in Int /\ l \in 0..(h - 1) /\ y = p * h + l
  <2> HIDE DEF h
  <2> QED
    BY <1>1, DivMod
<1>4. x % h \in 0..(h - 1)
  <2> HIDE DEF h
  <2> QED
    BY <1>1, DivMod
<1> HIDE DEF h, n, m, q, r, p, l
<1>5. x % h = r % h
  <2>1. x = (q * n) * h + r /\ q * n \in Int /\ r \in Int
    BY <1>1, <1>2, SMT
  <2>2. ((q * n) * h + r) % h = r % h
    BY <1>1, <2>1, DivModSum
  <2> QED
    BY <2>1, <2>2
<1>6. (x + y) % h = (x + l) % h
  <2>1. x + y = p * h + (x + l) /\ x + l \in Int
    BY <1>1, <1>3, SMT
  <2>2. (p * h + (x + l)) % h = (x + l) % h
    BY <1>1, <1>3, <2>1, DivModSum
  <2> QED
    BY <2>1, <2>2
<1> QED
  BY <1>4, <1>5, <1>6 DEF Lo, h, m, r, l

(* The last step of MUL leaves the lower word of the product. *)
LEMMA MullResult ==
    ASSUME TypeOK, instr # NoInstr, instr.op = "MULL",
           imd0 = Join(Lo(CrossALBH), Lo(LowProduct))
    PROVE  MacAHBL = Ref(instr)
<1> DEFINE h == Half
           l == Lo(LowProduct)
           x == Cross
           hh == SignedHi(instr.a, instr.sa) * SignedHi(instr.b, instr.sb)
           q == x \div h
           r == x % h
<1>1. h \in Nat /\ h > 0 /\ W = h * h /\ W \in Nat /\ W > 0
  BY WFacts DEF W
<1>2. /\ CrossALBH \in Int /\ x \in Int /\ l \in 0..(h - 1)
      /\ Cross = SignedHi(instr.a, instr.sa) * Lo(instr.b) + CrossALBH
  BY CrossRange DEF Cross
<1>3. ~instr.sa /\ ~instr.sb
  BY Operands DEF LegalInstr, DivOps
<1>4. Signed(instr.a, instr.sa) = instr.a /\ Signed(instr.b, instr.sb) = instr.b
  BY <1>3 DEF Signed
<1>5. hh \in Int /\ instr.a * instr.b = hh * W + x * h + l
  BY <1>4, ProductParts
<1>6. Hi(imd0) = Lo(CrossALBH) /\ Lo(imd0) = l /\ Lo(CrossALBH) \in 0..(h - 1)
  <2>1. Lo(CrossALBH) \in 0..(h - 1)
    BY <1>2, LowerHalf
  <2>2. Lo(CrossALBH) \in Int
    BY <1>1, <2>1
  <2> QED
    BY <1>2, <2>1, <2>2, Halves
<1>7. Lo(Hi(imd0)) = Lo(CrossALBH)
  <2>1. Lo(CrossALBH) % h = Lo(CrossALBH)
    <3> DEFINE n == Lo(CrossALBH)
    <3>1. n \in 0..(h - 1)
      BY <1>6
    <3> HIDE DEF n, h
    <3>2. n % h = n
      BY <1>1, <3>1, SMT
    <3> QED
      BY <3>2 DEF n
  <2> QED
    BY <1>6, <2>1 DEF Lo
<1>8. Lo(SignedHi(instr.a, instr.sa) * Lo(instr.b) + Lo(Hi(imd0))) = Lo(x)
  <2> DEFINE p == SignedHi(instr.a, instr.sa) * Lo(instr.b)
  <2>1. p \in Int
    <3>1. SignedHi(instr.a, instr.sa) \in Int /\ Lo(instr.b) \in Int
      BY <1>1, Operands
    <3> QED
      BY <3>1, SMT
  <2>2. Lo(p + Lo(CrossALBH)) = Lo(p + CrossALBH)
    <3> HIDE DEF p
    <3> QED
      BY <1>2, <2>1, LowerHalf
  <2> QED
    BY <1>2, <1>7, <2>2
<1>9. MacAHBL = r * h + l
  BY <1>6, <1>8 DEF MacAHBL, Join, Lo
<1>10. q \in Int /\ r \in 0..(h - 1) /\ x = q * h + r
  BY <1>1, <1>2, DivMod
<1>11. Ref(instr) = (instr.a * instr.b) % W
  BY DEF Ref, MulLow
<1> DEFINE k == hh + q
           s == r * h + l
<1>12. k \in Int /\ s \in 0..(W - 1)
  <2>1. s \in 0..(W - 1)
    BY <1>2, <1>10, JoinWord DEF Join
  <2> QED
    BY <1>5, <1>10, <2>1
<1>13. hh * W + x * h + l = k * W + s
  <2> HIDE DEF h, hh, q, r, l, x
  <2>1. hh \in Int /\ W \in Int /\ h \in Int /\ q \in Int /\ r \in Int /\ l \in Int
    BY <1>1, <1>2, <1>5, <1>10
  <2>2. x * h = q * (h * h) + r * h
    BY <1>10, <2>1, SMT
  <2>3. (hh + q) * W = hh * W + q * W
    BY <2>1, SMT
  <2>4. hh * W \in Int /\ q * W \in Int /\ r * h \in Int
    BY <2>1, SMT
  <2> QED
    BY <1>1, <2>1, <2>2, <2>3, <2>4
<1> HIDE DEF k, s, h, hh, q, r, l, x
<1>14. (k * W + s) % W = s
  BY <1>1, <1>12, DivModUnique
<1> QED
  BY <1>5, <1>9, <1>11, <1>13, <1>14 DEF s

(* The last step of MULH leaves the upper word of the product: the sign    *)
(* extension of the accumulator makes up for the wrap-around of the cross  *)
(* products in 34 bits.                                                    *)
LEMMA MulhResult ==
    ASSUME TypeOK, instr # NoInstr, instr.op = "MULH", imd0 = Cross % (4 * W)
    PROVE  MacAHBH % W = Ref(instr)
<1> DEFINE h == Half
           w == W
           l == Lo(LowProduct)
           x == Cross
           hh == SignedHi(instr.a, instr.sa) * SignedHi(instr.b, instr.sb)
           q == x \div h
           r == x % h
           signed == instr.sa \/ instr.sb
           fill == IF signed /\ imd0 >= 2 * w THEN 4 * w - 4 * h ELSE 0
           ext == IF x >= 0 THEN 0 ELSE 4 * w
<1>1. h \in Nat /\ h > 0 /\ w = h * h /\ w \in Nat /\ w > 0
  BY WFacts DEF W
<1>2. /\ x \in Int /\ l \in 0..(h - 1) /\ -2 * w <= x /\ x < 2 * w
      /\ ~signed => x >= 0
  BY CrossRange
<1>3. hh \in Int /\ Signed(instr.a, instr.sa) * Signed(instr.b, instr.sb) = hh * w + x * h + l
  BY ProductParts
<1>4. Ref(instr) = ((hh * w + x * h + l) \div w) % w
  BY <1>3 DEF Ref, MulHigh
<1>5. MacAHBH = (hh + (imd0 \div h + fill)) % (4 * w)
  BY DEF MacAHBH, Hi
<1>6. imd0 = x % (4 * w)
  OBVIOUS
<1>7. q \in Int /\ r \in 0..(h - 1) /\ x = q * h + r
  <2> HIDE DEF h, x
  <2> QED
    BY <1>1, <1>2, DivMod
<1> HIDE DEF x, hh, h, w, l, q, r, signed
<1>8. imd0 = IF x >= 0 THEN x ELSE x + 4 * w
  <2> DEFINE m == 4 * w
  <2>1. m \in Nat /\ m > 0 /\ m = 4 * w
    BY <1>1
  <2> HIDE DEF m
  <2>2. CASE x >= 0
    <3>1. x \in 0..(m - 1) /\ x = 0 * m + x /\ 0 \in Int
      BY <1>1, <1>2, <2>1, <2>2
    <3>2. (0 * m + x) % m = x
      BY <2>1, <3>1, DivModUnique
    <3> QED
      BY <1>6, <2>2, <3>1, <3>2 DEF m
  <2>3. CASE x < 0
    <3> DEFINE y == x + m
    <3>1. y \in 0..(m - 1) /\ x = (-1) * m + y /\ -1 \in Int
      BY <1>1, <1>2, <2>1, <2>3
    <3> HIDE DEF y
    <3>2. ((-1) * m + y) % m = y
      BY <2>1, <3>1, DivModUnique
    <3>3. imd0 = y
      BY <1>6, <3>1, <3>2 DEF m
    <3>4. ~(x >= 0)
      BY <1>2, <2>3
    <3> QED
      BY <3>3, <3>4 DEF m, y
  <2> QED
    BY <1>2, <2>2, <2>3
<1>9. imd0 \div h + fill = q + ext
  <2>1. CASE x >= 0
    <3>1. imd0 = x /\ ~(imd0 >= 2 * w)
      BY <1>1, <1>2, <1>8, <2>1
    <3>2. fill = 0 /\ ext = 0
      BY <2>1, <3>1
    <3>3. imd0 \div h = q
      BY <3>1 DEF q
    <3> HIDE DEF fill, ext
    <3> QED
      BY <1>7, <3>2, <3>3
  <2>2. CASE ~(x >= 0)
    <3>1. imd0 = x + 4 * w /\ imd0 >= 2 * w /\ signed
      BY <1>1, <1>2, <1>8, <2>2
    <3>2. fill = 4 * w - 4 * h /\ ext = 4 * w
      BY <2>2, <3>1
    <3>3. imd0 = (4 * h) * h + x /\ 4 * h \in Int
      BY <1>1, <1>2, <3>1, SMT
    <3>4. imd0 \div h = 4 * h + q
      BY <1>1, <1>2, <3>3, DivModSum DEF q
    <3> HIDE DEF fill, ext
    <3> QED
      BY <1>1, <1>7, <3>2, <3>4
  <2> QED
    BY <2>1, <2>2
<1> DEFINE v == hh + q
<1>10. v \in Int
  BY <1>3, <1>7
<1>11. MacAHBH % w = v % w
  <2> DEFINE e == IF x >= 0 THEN 0 ELSE 4
             y == v + ext
             m == 4 * w
             p == y \div m
             s == y % m
  <2>1. ext = e * w /\ e \in Int
    BY <1>1
  <2>2. y \in Int /\ m \in Nat /\ m > 0 /\ MacAHBH = s
    <3>1. ext \in Int
      BY <1>1
    <3>2. MacAHBH = (hh + (q + ext)) % m
      BY <1>5, <1>9
    <3> HIDE DEF ext
    <3> QED
      BY <1>1, <1>3, <1>7, <3>1, <3>2
  <2> HIDE DEF ext, e, y
  <2>3. p \in Int /\ s \in Int /\ y = p * m + s
    <3> HIDE DEF m
    <3> QED
      BY <2>2, DivMod
  <2> HIDE DEF v, p, s
  <2>4. y = v + ext
    BY DEF y
  <2>5. s = (e - 4 * p) * w + v /\ e - 4 * p \in Int
    BY <1>1, <1>10, <2>1, <2>2, <2>3, <2>4, SMT
  <2>6. ((e - 4 * p) * w + v) % w = v % w
    BY <1>1, <1>10, <2>5, DivModSum
  <2> QED
    BY <2>2, <2>5, <2>6
<1>12. (hh * w + x * h + l) \div w = v
  <2> DEFINE s == r * h + l
  <2>1. s \in 0..(w - 1)
    BY <1>2, <1>7, JoinWord DEF Join, h, w
  <2>2. x * h = q * w + r * h
    BY <1>1, <1>7, SMT
  <2>3. (hh + q) * w = hh * w + q * w
    BY <1>1, <1>3, <1>7, SMT
  <2>4. hh * w \in Int /\ q * w \in Int /\ r * h \in Int
    BY <1>1, <1>3, <1>7, SMT
  <2>5. hh * w + x * h + l = v * w + s
    BY <1>1, <1>2, <2>2, <2>3, <2>4
  <2> HIDE DEF v, s
  <2>6. (v * w + s) \div w = v
    BY <1>1, <1>10, <2>1, DivModUnique
  <2> QED
    BY <2>5, <2>6
<1> QED
  BY <1>4, <1>11, <1>12 DEF w

-----------------------------------------------------------------------------
(* The centered binomial samples: adding Q to a negative difference of bit *)
(* counts is reducing it, as soon as Q exceeds the largest count.          *)
LEMMA CbdCorrect ==
    ASSUME Q > 3, NEW a \in Nat, NEW eta \in {2, 3}
    PROVE  KyberCbd(a, eta) = CbdRef(a, eta)
<1>1. Q \in Nat /\ Lane \in Nat /\ Q <= Lane
  BY Constants
<1>2. ASSUME NEW d \in (-3)..3 PROVE AddQIf(d < 0, d) = d % Q
  <2>1. CASE d < 0
    <3>1. d + Q \in 0..(Q - 1) /\ d + Q \in 0..(Lane - 1) /\ d = (-1) * Q + (d + Q)
      BY <1>1, <2>1
    <3> DEFINE y == d + Q
    <3> HIDE DEF y
    <3>2. y \in 0..(Q - 1) /\ y \in 0..(Lane - 1) /\ d = (-1) * Q + y
      BY <3>1 DEF y
    <3>3. ((-1) * Q + y) % Q = y
      BY <1>1, <3>2, DivModUnique
    <3>4. y % Lane = y
      BY <1>1, <3>2, SMT
    <3> QED
      BY <2>1, <3>2, <3>3, <3>4 DEF AddQIf, Lane12, y
  <2>2. CASE ~(d < 0)
    <3>1. d \in 0..(Q - 1) /\ d \in 0..(Lane - 1)
      BY <1>1, <2>2
    <3>2. d % Q = d /\ d % Lane = d
      BY <1>1, <3>1, SMT
    <3> QED
      BY <2>2, <3>2 DEF AddQIf, Lane12
  <2> QED
    BY <2>1, <2>2
<1>3. ASSUME NEW i \in Nat PROVE Bit(a, i) \in 0..1 /\ BitAt(a, i) = Bit(a, i)
  <2>1. 2^i \in Int
    BY <1>3
  <2>2. ASSUME NEW n \in Int PROVE (a \div n) % 2 \in 0..1
    BY SMT
  <2> QED
    BY <2>1, <2>2 DEF Bit, BitAt
<1>4. ASSUME NEW i \in Nat
      PROVE  /\ CbdDiff(a, eta, i) = Ones(a, i, eta) - Ones(a, i + eta, eta)
             /\ CbdDiff(a, eta, i) \in (-3)..3
  <2>1. CASE eta = 2
    <3>1. /\ CbdDiff(a, 2, i) = (Bit(a, i) + Bit(a, i + 1)) - (Bit(a, i + 2) + Bit(a, i + 3))
          /\ Ones(a, i, 2) = BitAt(a, i) + BitAt(a, i + 1)
          /\ Ones(a, i + 2, 2) = BitAt(a, i + 2) + BitAt(a, (i + 2) + 1)
      BY DEF CbdDiff, Ones
    <3>2. (i + 2) + 1 = i + 3
      OBVIOUS
    <3>3. /\ Bit(a, i) \in 0..1 /\ Bit(a, i + 1) \in 0..1
          /\ Bit(a, i + 2) \in 0..1 /\ Bit(a, i + 3) \in 0..1
          /\ BitAt(a, i) = Bit(a, i) /\ BitAt(a, i + 1) = Bit(a, i + 1)
          /\ BitAt(a, i + 2) = Bit(a, i + 2) /\ BitAt(a, i + 3) = Bit(a, i + 3)
      BY <1>3
    <3> QED
      BY <2>1, <3>1, <3>2, <3>3
  <2>2. CASE eta = 3
    <3>1. /\ CbdDiff(a, 3, i) = (Bit(a, i) + Bit(a, i + 1) + Bit(a, i + 2))
                                - (Bit(a, i + 3) + Bit(a, i + 4) + Bit(a, i + 5))
          /\ Ones(a, i, 3) = BitAt(a, i) + BitAt(a, i + 1) + BitAt(a, i + 2)
          /\ Ones(a, i + 3, 3) = BitAt(a, i + 3) + BitAt(a, (i + 3) + 1) + BitAt(a, (i + 3) + 2)
      BY DEF CbdDiff, Ones
    <3>2. (i + 3) + 1 = i + 4 /\ (i + 3) + 2 = i + 5
      OBVIOUS
    <3>3. /\ Bit(a, i) \in 0..1 /\ Bit(a, i + 1) \in 0..1 /\ Bit(a, i + 2) \in 0..1
          /\ Bit(a, i + 3) \in 0..1 /\ Bit(a, i + 4) \in 0..1 /\ Bit(a, i + 5) \in 0..1
          /\ BitAt(a, i) = Bit(a, i) /\ BitAt(a, i + 1) = Bit(a, i + 1)
          /\ BitAt(a, i + 2) = Bit(a, i + 2) /\ BitAt(a, i + 3) = Bit(a, i + 3)
          /\ BitAt(a, i + 4) = Bit(a, i + 4) /\ BitAt(a, i + 5) = Bit(a, i + 5)
      BY <1>3
    <3> QED
      BY <2>2, <3>1, <3>2, <3>3
  <2> QED
    BY <2>1, <2>2
<1> DEFINE low == CbdDiff(a, eta, 0)
           high == CbdDiff(a, eta, 2 * eta)
<1>5. /\ low = Ones(a, 0, eta) - Ones(a, 0 + eta, eta) /\ low \in (-3)..3
      /\ high = Ones(a, 2 * eta, eta) - Ones(a, 2 * eta + eta, eta) /\ high \in (-3)..3
  BY <1>4
<1>6. KyberCbd(a, eta) = Join(AddQIf(high < 0, high), AddQIf(low < 0, low))
  BY DEF KyberCbd
<1>7. CbdRef(a, eta) = Join(high % Q, low % Q)
  BY <1>5 DEF CbdRef
<1> HIDE DEF low, high
<1> QED
  BY <1>2, <1>5, <1>6, <1>7

(***************************************************************************)
(* The rounding of a compression is exact: the fraction 16'hB760 is close  *)
(* enough to that of 2^24/3329 for every coefficient and every number of   *)
(* bits, because 2^d * a is never a multiple of Q but for a = 0.           *)
(***************************************************************************)
CompressExact ==
    \A a \in 0..(Q - 1), levels \in {2, 16, 32, 1024, 2048} :
        2 * levels <= BarrettBase =>
        CompressRound(CompressFracProduct(a), CompressIntProduct(a), levels)
            = CompressRef(a, levels)

(* The numbers of the hardware (ibex_multdiv_fast.sv). *)
HardwareNumbers ==
    Half = 65536 /\ Lane = 4096 /\ Q = 3329 /\ CompressFrac = 46944

CompressTotal(a) == (Hi(CompressFracProduct(a)) + CompressIntProduct(a)) % BarrettBase

TotalBounds(s, a) == 65536 * s <= 330282848 * a /\ 330282848 * a < 65536 * s + 65536

TotalQuotients(s, a) ==
    /\ s \div 4194304 = (4 * a) \div 3329
    /\ s \div 524288 = (32 * a) \div 3329
    /\ s \div 262144 = (64 * a) \div 3329
    /\ s \div 8192 = (2048 * a) \div 3329
    /\ s \div 4096 = (4096 * a) \div 3329

LEMMA CompressSumBounds ==
    ASSUME HardwareNumbers, NEW a \in Coeff
    PROVE  CompressTotal(a) \in Nat /\ TotalBounds(CompressTotal(a), a)
<1>1. /\ Half = 65536 /\ Lane = 4096 /\ Q = 3329 /\ CompressFrac = 46944
  BY SMT DEF HardwareNumbers
<1> a \in 0..3328
  BY <1>1, SMT DEF Coeff
<1>2. BarrettBase = 16777216 /\ BarrettM = 5039
  BY <1>1, SMT DEF BarrettBase, BarrettM
<1>3. Lo(a) = a /\ a % BarrettBase = a
  BY <1>1, <1>2, SMT DEF Lo
<1>4. CompressFracProduct(a) = 46944 * a /\ CompressIntProduct(a) = 5039 * a
  BY <1>1, <1>2, <1>3, SMT DEF CompressFracProduct, CompressIntProduct
<1>5. Hi(CompressFracProduct(a)) = (46944 * a) \div 65536
  BY <1>1, <1>4, SMT DEF Hi
<1> DEFINE f == (46944 * a) \div 65536
           s == f + 5039 * a
<1>6. f \in Nat /\ 65536 * f <= 46944 * a /\ 46944 * a < 65536 * f + 65536
  BY SMT
<1> HIDE DEF f
<1>7. s \in Nat /\ s < 16777216
  BY <1>6, SMT
<1>8. 65536 * s <= 330282848 * a /\ 330282848 * a < 65536 * s + 65536
  BY <1>6, SMT
<1> HIDE DEF s
<1>9. s % 16777216 = s
  BY <1>7, SMT
<1> QED
  BY <1>2, <1>4, <1>5, <1>7, <1>8, <1>9, SMT DEF s, f, CompressTotal, TotalBounds

LEMMA CompressQuotient ==
    ASSUME HardwareNumbers, NEW a \in Coeff, NEW s \in Nat, TotalBounds(s, a)
    PROVE  TotalQuotients(s, a)
<1> DEFINE Numbers == {4, 32, 64, 2048, 4096}
<1> a \in 0..3328
  BY SMT DEF HardwareNumbers, Coeff
<1>1. ASSUME NEW n \in Numbers, NEW k \in Nat, n * a = 3329 * k PROVE a = 0
  <2>1. PICK c \in {1, 2, 64, 128, 1024} : n * c = 4096
    <3>1. 4 * 1024 = 4096 /\ 32 * 128 = 4096 /\ 64 * 64 = 4096 /\ 2048 * 2 = 4096 /\ 4096 * 1 = 4096
      BY SMT
    <3> QED
      BY <3>1, SMT
  <2> DEFINE p == c * k
             j == 16 * a - 13 * p
             i == a - 208 * j
  <2>2. p \in Nat /\ 4096 * a = 3329 * p
    <3>1. c \in Nat /\ n \in Nat
      BY SMT
    <3>2. (n * c) * a = c * (n * a) /\ c * (3329 * k) = 3329 * (c * k) /\ c * k \in Nat
      BY <3>1, SMT
    <3> QED
      BY <1>1, <2>1, <3>2, SMT
  <2> HIDE DEF p
  <2>3. j \in Int /\ 256 * j = p /\ 16 * a = 3329 * j
    BY <2>2, SMT
  <2> HIDE DEF j
  <2>4. i \in Int /\ 16 * i = j /\ a = 3329 * i
    BY <2>3, SMT
  <2> HIDE DEF i
  <2> QED
    BY <2>4, SMT
<1>2. ASSUME NEW n \in Numbers, NEW b \in Nat, b >= 4096, n * b = 16777216
      PROVE  s \div b = (n * a) \div 3329
  <2> DEFINE m == n * a
             k == m \div 3329
             e == b * k
  <2>1. n \in Nat /\ m \in Nat
    BY SMT
  <2>2. k \in Nat /\ 3329 * k <= m /\ m < 3329 * k + 3329
    <3> HIDE DEF m
    <3> QED
      BY <2>1, SMT
  <2>3. 3329 * k = m => a = 0
    BY <1>1, <2>2, SMT
  <2>4. a = 0 => k = 0
    <3> SUFFICES ASSUME a = 0 PROVE k = 0
      BY SMT
    <3>1. m = 0
      BY <2>1, SMT
    <3> QED
      BY <2>2, <3>1, SMT
  <2>5. b * m = 16777216 * a
    <3>1. b * (n * a) = (n * b) * a
      BY <2>1, SMT
    <3> QED
      BY <1>2, <3>1, SMT
  <2> HIDE DEF m, k
  <2>6. e \in Nat /\ b * m < 3329 * e + 3329 * b
    <3>1. b * (3329 * k + 3329 - m) > 0
      BY <1>2, <2>1, <2>2, SMT
    <3> QED
      BY <2>1, <2>2, <3>1, SMT
  <2>7. e <= s
    <3>1. CASE a = 0
      BY <2>2, <2>4, <3>1, SMT
    <3>2. CASE a > 0
      <4>1. b * (m - 3329 * k - 1) >= 0
        <5>1. m - 3329 * k - 1 >= 0
          BY <2>1, <2>2, <2>3, <3>2, SMT
        <5> QED
          BY <2>1, <2>2, <5>1, SMT
      <4>2. 3329 * e + b <= b * m
        BY <2>1, <2>2, <4>1, SMT
      <4> HIDE DEF e
      <4>3. 3329 * e + 4096 <= 16777216 * a
        BY <1>2, <2>1, <2>5, <2>6, <4>2, SMT
      <4>4. e \in Nat
        BY <2>6, SMT
      <4>5. s < e => 330282848 * a < 65536 * e
        BY <4>4, SMT DEF TotalBounds
      <4>6. 218169344 * e + 268435456 <= 1099511627776 * a
        BY <4>3, <4>4, SMT
      <4>7. s < e => 1099511600992 * a < 218169344 * e
        BY <4>4, <4>5, SMT
      <4>8. 26784 * a <= 89137152
        BY SMT
      <4>9. ~(s < e)
        BY <4>4, <4>6, <4>7, <4>8, SMT
      <4> QED
        BY <4>4, <4>9, SMT
    <3>3. a = 0 \/ a > 0
      BY SMT
    <3> HIDE DEF e
    <3> QED
      BY <3>1, <3>2, <3>3, SMT
  <2>8. s < e + b
    <3> HIDE DEF e
    <3>1. 16777216 * a < 3329 * e + 3329 * b
      BY <2>5, <2>6, SMT
    <3> QED
      BY <2>6, <3>1, SMT DEF TotalBounds
  <2>9. s \div b = k
    <3> DEFINE r == s - e
    <3>1. s = k * b + r /\ r \in 0..(b - 1)
      <4>1. b * k = k * b
        BY <2>2, SMT
      <4>2. k * b \in Nat
        BY <2>2, SMT
      <4> QED
        BY <2>6, <2>7, <2>8, <4>1, <4>2, SMT
    <3> HIDE DEF r
    <3>2. b > 0
      BY <1>2, SMT
    <3>3. (k * b + r) \div b = k
      BY <2>2, <3>1, <3>2, DivModUnique, SMT
    <3> QED
      BY <3>1, <3>3, SMT
  <2> QED
    BY <2>9, SMT DEF k, m
<1>3. /\ 4 * 4194304 = 16777216 /\ 32 * 524288 = 16777216 /\ 64 * 262144 = 16777216
      /\ 2048 * 8192 = 16777216 /\ 4096 * 4096 = 16777216
  BY SMT
<1>4. s \div 4194304 = (4 * a) \div 3329
  BY <1>2, <1>3, SMT
<1>5. s \div 524288 = (32 * a) \div 3329
  BY <1>2, <1>3, SMT
<1>6. s \div 262144 = (64 * a) \div 3329
  BY <1>2, <1>3, SMT
<1>7. s \div 8192 = (2048 * a) \div 3329
  BY <1>2, <1>3, SMT
<1>8. s \div 4096 = (4096 * a) \div 3329
  BY <1>2, <1>3, SMT
<1> QED
  BY <1>4, <1>5, <1>6, <1>7, <1>8, SMT DEF TotalQuotients

(* Rounding half of a quotient by its last bit is rounding to the nearest. *)
LEMMA RoundedHalf ==
    ASSUME NEW m \in Nat, NEW k \in Int, k = (2 * m) \div 3329
    PROVE  (k \div 2) + (k % 2) = (m + 1664) \div 3329
<1> DEFINE j == k \div 2
           b == k % 2
           r == m + 1664 - 3329 * (j + b)
<1>1. 3329 * k <= 2 * m /\ 2 * m < 3329 * k + 3329
  BY SMT
<1>2. j \in Int /\ b \in 0..1 /\ k = 2 * j + b
  BY SMT
<1> HIDE DEF j, b
<1>3. r \in 0..3328 /\ m + 1664 = (j + b) * 3329 + r
  <2>1. CASE b = 0
    BY <1>1, <1>2, <2>1, SMT
  <2>2. CASE b = 1
    BY <1>1, <1>2, <2>2, SMT
  <2> QED
    BY <1>2, <2>1, <2>2, SMT
<1> HIDE DEF r
<1>4. ((j + b) * 3329 + r) \div 3329 = j + b
  <2> DEFINE d == 3329
  <2>1. d \in Nat /\ d > 0 /\ r \in 0..(d - 1) /\ j + b \in Int
    BY <1>2, <1>3, SMT
  <2> HIDE DEF d
  <2>2. ((j + b) * d + r) \div d = j + b
    BY <2>1, DivModUnique, SMT
  <2> QED
    BY <2>2, SMT DEF d
<1> QED
  BY <1>3, <1>4, SMT DEF j, b

LEMMA CompressRounding ==
    ASSUME NEW a \in Nat, a <= 3328, NEW levels \in Nat, levels <= 2048,
           NEW k, k = (2 * levels * a) \div 3329,
           NEW n, n = (a * levels + 1664) \div 3329
    PROVE  (k \div 2) + (k % 2) = n /\ n \in 0..2048
<1> DEFINE m == a * levels
<1>1. m \in Nat /\ 2 * levels * a = 2 * m
  BY SMT
<1>2. m <= 6815744
  <2>1. (2048 - levels) * a >= 0 /\ (2048 - levels) * a = 2048 * a - m
    BY SMT
  <2> HIDE DEF m
  <2> QED
    BY <1>1, <2>1, SMT
<1>3. k = (2 * m) \div 3329 /\ n = (m + 1664) \div 3329
  BY <1>1, SMT
<1> HIDE DEF m
<1>4. k \in Int /\ n \in 0..2048
  BY <1>1, <1>2, <1>3, SMT
<1>5. (k \div 2) + (k % 2) = n
  BY <1>1, <1>3, <1>4, RoundedHalf, SMT
<1> QED
  BY <1>4, <1>5

LEMMA CompressIsExact == HardwareNumbers => CompressExact
<1> SUFFICES ASSUME HardwareNumbers,
                    NEW a \in 0..(Q - 1), NEW levels \in {2, 16, 32, 1024, 2048}
             PROVE  CompressRound(CompressFracProduct(a), CompressIntProduct(a), levels)
                        = CompressRef(a, levels)
  BY SMT DEF CompressExact
<1>1. Lane = 4096 /\ Q = 3329 /\ a \in 0..3328
  BY SMT DEF HardwareNumbers
<1>2. BarrettBase = 16777216
  BY <1>1, SMT DEF BarrettBase
<1> DEFINE s == CompressTotal(a)
           k == (2 * levels * a) \div 3329
           shifted == s \div (BarrettBase \div (2 * levels))
<1>3. s \in Nat /\ TotalBounds(s, a)
  BY CompressSumBounds, SMT DEF Coeff
<1>4. CompressRound(CompressFracProduct(a), CompressIntProduct(a), levels)
          = Lane12((shifted \div 2) + (shifted % 2)) % levels
  BY SMT DEF CompressRound, CompressTotal
<1>5. CompressRef(a, levels) = ((a * levels + 1664) \div 3329) % levels
  <2>1. 3329 \div 2 = 1664
    BY SMT
  <2> QED
    BY <1>1, <2>1, SMT DEF CompressRef
<1> HIDE DEF s
<1>6. shifted = k
  <2>1. /\ s \div 4194304 = (4 * a) \div 3329
        /\ s \div 524288 = (32 * a) \div 3329
        /\ s \div 262144 = (64 * a) \div 3329
        /\ s \div 8192 = (2048 * a) \div 3329
        /\ s \div 4096 = (4096 * a) \div 3329
    <3>1. a \in Coeff
      BY SMT DEF Coeff
    <3>2. TotalQuotients(s, a)
      BY <1>3, <3>1, CompressQuotient, SMT
    <3> QED
      BY <3>2, SMT DEF TotalQuotients
  <2>2. /\ 16777216 \div 4 = 4194304 /\ 16777216 \div 32 = 524288
        /\ 16777216 \div 64 = 262144 /\ 16777216 \div 2048 = 8192
        /\ 16777216 \div 4096 = 4096
    BY SMT
  <2>3. CASE levels = 2
    BY <1>2, <2>1, <2>2, <2>3, SMT
  <2>4. CASE levels = 16
    BY <1>2, <2>1, <2>2, <2>4, SMT
  <2>5. CASE levels = 32
    BY <1>2, <2>1, <2>2, <2>5, SMT
  <2>6. CASE levels = 1024
    BY <1>2, <2>1, <2>2, <2>6, SMT
  <2>7. CASE levels = 2048
    BY <1>2, <2>1, <2>2, <2>7, SMT
  <2> QED
    BY <2>3, <2>4, <2>5, <2>6, <2>7, SMT
<1> HIDE DEF shifted
<1> DEFINE n == (a * levels + 1664) \div 3329
<1>7. (k \div 2) + (k % 2) = n /\ n \in 0..2048
  <2>1. a \in Nat /\ a <= 3328 /\ levels \in Nat /\ levels <= 2048
    BY <1>1, SMT
  <2> QED
    BY <2>1, CompressRounding, SMT
<1> HIDE DEF k, n
<1>8. Lane12(n) = n
  <2>1. n \in 0..2048
    BY <1>7, SMT
  <2>2. n % 4096 = n
    BY <2>1, SMT
  <2> QED
    BY <1>1, <2>2, SMT DEF Lane12
<1> QED
  BY <1>4, <1>5, <1>6, <1>7, <1>8, SMT DEF n

(* The multiplier's registers follow the instruction, cycle by cycle. *)
LEMMA MulPipelineStep == IInv /\ MulPipeline /\ [Next]_vars => MulPipeline'
<1> SUFFICES ASSUME IInv, MulPipeline, [Next]_vars PROVE MulPipeline'
  OBVIOUS
<1>1. TypeOK /\ RestingStates
  BY DEF IInv
<1> DEFINE Products == {"ALBH", "AHBL", "AHBH"}
<1>2. ASSUME mult_state_q' \notin Products PROVE MulPipeline'
  BY <1>2 DEF MulPipeline
<1>3. CASE Issue
  <2>1. mult_state_q' = "ALBL"
    BY <1>1, <1>3 DEF Issue, Accept, RestingStates, NoInstr, MulOps, KyberMacOps
  <2> QED
    BY <1>2, <2>1
<1>4. CASE Held
  BY <1>2, <1>4 DEF Held
<1>5. CASE MultStep
  <2>1. CASE MulALBL
    BY <2>1 DEF MulALBL, MultCycle, Continue, MulPipeline, MacALBL, LowProduct
  <2>2. CASE MulALBH
    <3>1. /\ instr' = instr /\ instr.op \in MulOps /\ imd0 = LowProduct
          /\ mult_state_q' = "AHBL" /\ imd0' = MacALBH
      BY <2>2 DEF MulALBH, MultCycle, Continue, MulPipeline
    <3>2. instr # NoInstr
      BY <3>1 DEF NoInstr, MulOps
    <3> DEFINE c == Hi(LowProduct)
               mac == CrossALBH % (4 * W)
    <3>3. c \in 0..(Half - 1) /\ CrossALBH \in Int
      BY <1>1, <3>2, CrossRange
    <3>4. Lo(c) = c
      <4>1. Half \in Nat
        BY WFacts
      <4> HIDE DEF c
      <4>2. c % Half = c
        BY <3>3, <4>1, SMT
      <4> QED
        BY <4>2 DEF Lo
    <3>5. MacALBH = IF instr.op = "MULL" THEN Join(Lo(mac), Lo(LowProduct)) ELSE mac
      BY <3>1, <3>4 DEF MacALBH, CrossALBH
    <3>6. Lo(mac) = Lo(CrossALBH)
      BY <3>3, LowerHalf
    <3>7. imd0' = IF instr.op = "MULL" THEN Join(Lo(CrossALBH), Lo(LowProduct))
                  ELSE CrossALBH % (4 * W)
      BY <3>1, <3>5, <3>6
    <3>8. CrossALBH' = CrossALBH /\ LowProduct' = LowProduct
      BY <3>1 DEF CrossALBH, LowProduct
    <3> QED
      BY <3>1, <3>7, <3>8 DEF MulPipeline
  <2>3. CASE MulhAHBL
    <3>1. /\ instr' = instr /\ instr.op = "MULH" /\ imd0 = CrossALBH % (4 * W)
          /\ mult_state_q' = "AHBH" /\ imd0' = MacAHBL
      BY <2>3 DEF MulhAHBL, MultCycle, Continue, MulPipeline
    <3>2. instr # NoInstr
      BY <3>1 DEF NoInstr
    <3> DEFINE m == 4 * W
               x == CrossALBH
               p == SignedHi(instr.a, instr.sa) * Lo(instr.b)
               r == x % m
               q == x \div m
    <3>3. x \in Int /\ p \in Int /\ m \in Nat /\ m > 0
      <4>1. SignedHi(instr.a, instr.sa) \in Int /\ Lo(instr.b) \in Int
        BY <1>1, <3>2, Operands, WFacts
      <4> QED
        BY <1>1, <3>2, <4>1, CrossRange, WFacts, SMT
    <3>4. imd0' = (p + r) % m
      BY <3>1 DEF MacAHBL
    <3>5. Cross' = p + x
      BY <3>1 DEF Cross, CrossALBH, LowProduct
    <3> HIDE DEF m, x, p
    <3>6. q \in Int /\ r \in Int /\ x = q * m + r
      BY <3>3, DivMod
    <3> HIDE DEF q, r
    <3>7. p + x = q * m + (p + r) /\ p + r \in Int
      BY <3>3, <3>6, SMT
    <3>8. (q * m + (p + r)) % m = (p + r) % m
      BY <3>3, <3>6, <3>7, DivModSum
    <3>9. imd0' = Cross' % m
      BY <3>4, <3>5, <3>7, <3>8
    <3> QED
      BY <3>1, <3>9 DEF MulPipeline, m
  <2> QED
    BY <1>2, <1>5, <2>1, <2>2, <2>3
       DEF MultStep, MultCycle, MullAHBL, MulhAHBH, KyberAlu, KyberMulALBL,
           KyberMultM, KyberMultQ, KyberSubAdjust, CompressALBL, CompressSum
<1>6. CASE DivStep
  <2>1. mult_state_q' = mult_state_q /\ instr.op \in DivOps
    BY <1>6 DEF DivStep, DivCycle, DivIdle, DivAbsA, DivAbsB, DivComp, DivLast,
                DivChangeSign, DivFinish
  <2>2. mult_state_q = "ALBL"
    BY <1>1, <2>1 DEF RestingStates, MulOps, DivOps, KyberMacOps
  <2> QED
    BY <1>2, <2>1, <2>2
<1>7. CASE UNCHANGED vars
  BY <1>7 DEF vars, MulPipeline, Cross, CrossALBH, LowProduct
<1> QED
  BY <1>3, <1>4, <1>5, <1>6, <1>7 DEF Next

LEMMA CompressPipelineStep ==
    IInv /\ CompressPipeline /\ [Next]_vars => CompressPipeline'
<1> SUFFICES ASSUME IInv, CompressPipeline, [Next]_vars PROVE CompressPipeline'
  OBVIOUS
<1>1. RestingStates
  BY DEF IInv
<1>2. ASSUME mult_state_q' # "KYBER_COMPRESS" PROVE CompressPipeline'
  BY <1>2 DEF CompressPipeline
<1>3. CASE Issue
  <2>1. mult_state_q' = "ALBL"
    BY <1>1, <1>3 DEF Issue, Accept, RestingStates, NoInstr, MulOps, KyberMacOps
  <2> QED
    BY <1>2, <2>1
<1>4. CASE Held
  BY <1>2, <1>4 DEF Held
<1>5. CASE CompressALBL
  BY <1>5 DEF CompressALBL, MultCycle, Continue, CompressPipeline
<1>6. CASE MultStep /\ ~CompressALBL
  BY <1>2, <1>6
     DEF MultStep, MultCycle, MulALBL, MulALBH, MullAHBL, MulhAHBL, MulhAHBH,
         KyberAlu, KyberMulALBL, KyberMultM, KyberMultQ, KyberSubAdjust, CompressSum
<1>7. CASE DivStep
  <2>1. mult_state_q' = mult_state_q /\ instr.op \in DivOps
    BY <1>7 DEF DivStep, DivCycle, DivIdle, DivAbsA, DivAbsB, DivComp, DivLast,
                DivChangeSign, DivFinish
  <2>2. mult_state_q = "ALBL"
    BY <1>1, <2>1 DEF RestingStates, MulOps, DivOps, KyberMacOps
  <2> QED
    BY <1>2, <2>1, <2>2
<1>8. CASE UNCHANGED vars
  BY <1>8 DEF vars, CompressPipeline
<1> QED
  BY <1>3, <1>4, <1>5, <1>6, <1>7, <1>8 DEF Next

-----------------------------------------------------------------------------
(* The reference results of the abstract unit are those of IsaRef. *)
LEMMA SameRef == \A i : Exec!Ref(i) = Ref(i)
<1>1. Exec!W = W /\ \A x : Exec!Lo(x) = Lo(x) /\ Exec!Hi(x) = Hi(x)
  BY DEF Exec!W, W, Exec!Lo, Lo, Exec!Hi, Hi
<1>2. \A x, y : Exec!Join(x, y) = Join(x, y)
  BY DEF Exec!Join, Join
<1>3. \A x : Exec!Neg(x) = Neg(x)
  BY <1>1 DEF Exec!Neg, Neg
<1>4. \A x, s : Exec!Signed(x, s) = Signed(x, s)
  BY <1>1, <1>3 DEF Exec!Signed, Signed
<1>5. \A x, y : Exec!TruncDiv(x, y) = TruncDiv(x, y)
  BY DEF Exec!TruncDiv, TruncDiv
<1>6. /\ \A x, y : Exec!MulLow(x, y) = MulLow(x, y)
      /\ \A x, y, s, t : Exec!MulHigh(x, y, s, t) = MulHigh(x, y, s, t)
  BY <1>1, <1>4 DEF Exec!MulLow, MulLow, Exec!MulHigh, MulHigh
<1>7. \A x, y, s : Exec!DivRef(x, y, s) = DivRef(x, y, s)
  BY <1>1, <1>4, <1>5 DEF Exec!DivRef, DivRef
<1>8. \A x, y, s : Exec!RemRef(x, y, s) = RemRef(x, y, s)
  BY <1>1, <1>4, <1>5 DEF Exec!RemRef, RemRef
<1>9. /\ \A x, y : Exec!AddRef(x, y) = AddRef(x, y)
      /\ \A x, y : Exec!SubRef(x, y) = SubRef(x, y)
      /\ \A x, y : Exec!MulModRef(x, y) = MulModRef(x, y)
  BY <1>1, <1>2 DEF Exec!AddRef, AddRef, Exec!SubRef, SubRef, Exec!MulModRef, MulModRef
<1>10. \A x, n : Exec!BitAt(x, n) = BitAt(x, n)
  BY DEF Exec!BitAt, BitAt
<1>11. \A x, i, n : Exec!Ones(x, i, n) = Ones(x, i, n)
  BY <1>10 DEF Exec!Ones, Ones
<1>12. \A x, n : Exec!CbdRef(x, n) = CbdRef(x, n)
  BY <1>2, <1>11 DEF Exec!CbdRef, CbdRef
<1>13. \A x, n : Exec!CompressRef(x, n) = CompressRef(x, n)
  BY DEF Exec!CompressRef, CompressRef
<1> QED
  BY <1>6, <1>7, <1>8, <1>9, <1>12, <1>13 DEF Exec!Ref, Ref

-----------------------------------------------------------------------------
(***************************************************************************)
(* The refinement: issuing an instruction is a step of the abstract unit,  *)
(* and so is retiring it, with the reference's result; every other cycle   *)
(* stutters.                                                               *)
(***************************************************************************)
Results(shifts) == IInv /\ LoopInv(shifts) /\ DivInv /\ MulPipeline /\ CompressPipeline

LEMMA ResultsInvariant ==
    ASSUME NEW shifts, Halving(shifts)
    PROVE  Safety => []Results(shifts)
<1>1. Init => LoopInv(shifts) /\ DivInv /\ MulPipeline /\ CompressPipeline
  BY DEF Init, LoopInv, DivInv, ZeroFlag, Numerator, Divisor, Computed, MulPipeline,
         CompressPipeline
<1>2. IInv /\ LoopInv(shifts) /\ DivInv /\ [Next]_vars => LoopInv(shifts)' /\ DivInv'
  BY LoopStep, DivInvStep
<1>3. IInv /\ MulPipeline /\ CompressPipeline /\ [Next]_vars
          => MulPipeline' /\ CompressPipeline'
  BY MulPipelineStep, CompressPipelineStep
<1> QED
  BY <1>1, <1>2, <1>3, Invariance, PTL DEF Safety, Results

(* Retiring an instruction, whichever unit it used. *)
LEMMA RetireStep ==
    ASSUME NEW shifts, Halving(shifts), Q > 3, CompressExact, Results(shifts),
           MultStep \/ DivStep
    PROVE  /\ instr # NoInstr /\ UNCHANGED issued
           /\ UNCHANGED <<instr, rf_wdata>> \/ (rf_wdata' = Ref(instr) /\ instr' = NoInstr)
<1>1. IInv /\ TypeOK /\ DivInv /\ MulPipeline /\ CompressPipeline
  BY DEF Results, IInv
<1>2. instr # NoInstr /\ UNCHANGED issued
  BY DEF NoInstr, MultStep, MultCycle, MulALBL, MulALBH, MullAHBL, MulhAHBL, MulhAHBH,
         KyberAlu, KyberMulALBL, KyberMultM, KyberMultQ, KyberSubAdjust, CompressALBL,
         CompressSum, MulOps, DivOps, KyberAluOps, DivStep, DivCycle, DivIdle, DivAbsA,
         DivAbsB, DivComp, DivLast, DivChangeSign, DivFinish
<1>3. CASE MulALBL \/ MulALBH \/ MulhAHBL
  BY <1>2, <1>3 DEF MulALBL, MulALBH, MulhAHBL, Continue
<1>4. CASE MullAHBL
  <2>1. instr.op = "MULL" /\ imd0 = Join(Lo(CrossALBH), Lo(LowProduct))
    BY <1>1, <1>4 DEF MullAHBL, MultCycle, MulPipeline
  <2>2. MacAHBL = Ref(instr)
    BY <1>1, <1>2, <2>1, MullResult
  <2> QED
    BY <1>2, <1>4, <2>2 DEF MullAHBL, Done
<1>5. CASE MulhAHBH
  <2>1. instr.op = "MULH" /\ imd0 = Cross % (4 * W)
    BY <1>1, <1>5 DEF MulhAHBH, MultCycle, MulPipeline
  <2>2. MacAHBH % W = Ref(instr)
    BY <1>1, <1>2, <2>1, MulhResult
  <2> QED
    BY <1>2, <1>5, <2>2 DEF MulhAHBH, Done
<1>6. CASE KyberAlu
  <2>1. instr.op \in KyberAluOps
    BY <1>6 DEF KyberAlu, MultCycle
  <2>2. instr.a \in Nat
    BY <1>1, <1>2, Operands, WFacts
  <2>3. KyberAluResult = Ref(instr)
    <3>1. CASE instr.op \in {"KYBER_ADD", "KYBER_SUB"}
      BY <1>1, <1>2, <3>1, AddSubWord
    <3>2. CASE instr.op = "KYBER_CBD2"
      <4>1. KyberAluResult = KyberCbd(instr.a, 2) /\ Ref(instr) = CbdRef(instr.a, 2)
        BY <3>2 DEF KyberAluResult, Ref
      <4> QED
        BY <2>2, <4>1, CbdCorrect
    <3>3. CASE instr.op = "KYBER_CBD3"
      <4>1. KyberAluResult = KyberCbd(instr.a, 3) /\ Ref(instr) = CbdRef(instr.a, 3)
        BY <3>3 DEF KyberAluResult, Ref
      <4> QED
        BY <2>2, <4>1, CbdCorrect
    <3> QED
      BY <2>1, <3>1, <3>2, <3>3 DEF KyberAluOps
  <2> QED
    BY <1>2, <1>6, <2>3 DEF KyberAlu, Done
<1>7. CASE KyberMulALBL \/ KyberMultM \/ KyberMultQ \/ CompressALBL
  BY <1>2, <1>7 DEF KyberMulALBL, KyberMultM, KyberMultQ, CompressALBL, Continue
<1>8. CASE KyberSubAdjust
  <2>1. BarrettAdjust(imd0, imd1) = Ref(instr)
    BY <1>1, <1>8, BarrettMultiply DEF KyberSubAdjust, MultCycle
  <2> QED
    BY <1>2, <1>8, <2>1 DEF KyberSubAdjust, Done
<1>9. CASE CompressSum
  <2>1. /\ instr.op = "KYBER_COMPRESS"
        /\ imd0 = CompressFracProduct(instr.a) /\ imd1 = CompressIntProduct(instr.a)
    BY <1>1, <1>9 DEF CompressSum, MultCycle, CompressPipeline
  <2>2. /\ instr.a \in 0..(Q - 1) /\ instr.b \in {2, 16, 32, 1024, 2048}
        /\ 2 * instr.b <= BarrettBase
    BY <1>1, <1>2, <2>1, LegalCoeffs DEF Coeff
  <2>3. CompressRound(imd0, imd1, instr.b) = CompressRef(instr.a, instr.b)
    BY <2>1, <2>2 DEF CompressExact
  <2>4. Ref(instr) = CompressRef(instr.a, instr.b)
    BY <2>1 DEF Ref
  <2> QED
    BY <1>2, <1>9, <2>3, <2>4 DEF CompressSum, Done
<1>10. CASE DivStep /\ ~DivFinish
  BY <1>2, <1>10 DEF DivStep, DivIdle, DivAbsA, DivAbsB, DivComp, DivLast,
                     DivChangeSign, Continue
<1>11. CASE DivFinish
  BY <1>1, <1>2, <1>11 DEF DivFinish, DivCycle, Done, DivInv, Computed
<1> QED
  BY <1>3, <1>4, <1>5, <1>6, <1>7, <1>8, <1>9, <1>10, <1>11 DEF MultStep

(***************************************************************************)
(* The unit implements ExecAbs: every instruction of the M extension and   *)
(* every Kyber instruction writes back exactly the reference's result,     *)
(* however it is held back and whatever was left in the shared registers   *)
(* before it (ibex_multdiv_fast.sv:153-560).  For words of any power of    *)
(* two, any modulus above the counts of a binomial sample and any fraction *)
(* with which the rounding of a compression is exact.                      *)
(***************************************************************************)
THEOREM UnitImplementsExec ==
    ASSUME NEW shifts, Halving(shifts), Q > 3, CompressExact
    PROVE  Safety => ExecSafety
<1>1. Init => Exec!Init
  BY DEF Init, Exec!Init
<1>2. ASSUME Results(shifts), [Next]_vars PROVE [Exec!Next]_(Exec!vars)
  <2>1. CASE Issue
    BY <2>1 DEF Issue, Accept, Exec!Next, Exec!Issue
  <2>2. CASE Held
    BY <2>2 DEF Held, Exec!vars
  <2>3. CASE MultStep \/ DivStep
    <3>1. /\ instr # NoInstr /\ UNCHANGED issued
          /\ UNCHANGED <<instr, rf_wdata>> \/ (rf_wdata' = Ref(instr) /\ instr' = NoInstr)
      BY <1>2, <2>3, RetireStep
    <3> QED
      BY <3>1, SameRef DEF Exec!Next, Exec!Retire, Exec!vars
  <2>4. CASE UNCHANGED vars
    BY <2>4 DEF vars, Exec!vars
  <2> QED
    BY <1>2, <2>1, <2>2, <2>3, <2>4 DEF Next
<1>3. Safety => []Results(shifts)
  BY ResultsInvariant
<1> QED
  BY <1>1, <1>2, <1>3, PTL DEF Safety, ExecSafety, Exec!Safety

(* The word of the hardware has a power of two of values. *)
Powers == {1, 2, 4, 8, 16, 32, 64, 128, 256, 512, 1024, 2048, 4096, 8192, 16384, 32768,
           65536, 131072, 262144, 524288, 1048576, 2097152, 4194304, 8388608, 16777216,
           33554432, 67108864, 134217728, 268435456, 536870912, 1073741824, 2147483648}

LEMMA HardwareHalving == HardwareNumbers => Halving(Powers)
<1> SUFFICES ASSUME HardwareNumbers PROVE Halving(Powers)
  BY SMT
<1>1. W = 4294967296
  BY SMT DEF HardwareNumbers, W
<1>2. W \div 2 = 2147483648
  BY <1>1, SMT
<1>3. Powers \subseteq Nat \ {0} /\ 2147483648 \in Powers
  BY SMT DEF Powers
<1>4. ASSUME NEW p \in Powers PROVE p = 1 \/ (p % 2 = 0 /\ p \div 2 \in Powers)
  BY SMT DEF Powers
<1> QED
  BY <1>2, <1>3, <1>4, SMT DEF Halving

(***************************************************************************)
(* And so does the hardware's unit: 32-bit words, lanes of 12 bits,        *)
(* Q = 3329 and the fraction 16'hB760, with nothing else assumed.          *)
(***************************************************************************)
THEOREM HardwareImplementsExec ==
    ASSUME HardwareNumbers
    PROVE  Safety => ExecSafety
<1>1. Halving(Powers) /\ CompressExact
  BY HardwareHalving, CompressIsExact
<1>2. Q > 3
  BY SMT DEF HardwareNumbers
<1> QED
  BY <1>1, <1>2, UnitImplementsExec
=============================================================================
