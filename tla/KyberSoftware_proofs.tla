------------------------ MODULE KyberSoftware_proofs ------------------------
(***************************************************************************)
(* Kyber in software.  The reductions of the reference build return what   *)
(* their comments say, for every odd modulus and Montgomery factor         *)
(* KyberConstants admits: the 16-bit conversions in them lose nothing.     *)
(* And the encapsulation keeps its promises for any keys, any number of    *)
(* encapsulations and any alterations of the ciphertexts.  And the hashes  *)
(* and streams it is built on, Keccak's and Ascon's, give the stream of    *)
(* the message whatever pieces it is absorbed and drawn in.  And no        *)
(* coefficient of the number theoretic transform overflows.  And every     *)
(* layout of a key, a ciphertext or a message fills its buffer, and what   *)
(* was packed comes back.                                                  *)
(***************************************************************************)
EXTENDS KyberNtt, KyberKem, XofStream, KyberPack, FiniteSetTheorems, FunctionTheorems,
        SequenceTheorems, NaturalsInduction, WellFoundedInduction, TLAPS

h == R \div 2

LEMMA DivMod ==
    ASSUME NEW d \in Nat, d > 0, NEW n \in Int
    PROVE  /\ n = (n \div d) * d + (n % d)
           /\ n \div d \in Int
           /\ n % d \in 0..(d - 1)
  BY SMT

LEMMA DivModUnique ==
    ASSUME NEW d \in Nat, d > 0, NEW q \in Int, NEW r \in 0..(d - 1)
    PROVE  (q * d + r) \div d = q /\ (q * d + r) % d = r
  BY SMT

LEMMA Constants ==
    ASSUME KyberConstants
    PROVE  /\ KYBER_Q \in Nat /\ KYBER_Q > 2 /\ R \in Nat /\ h \in Nat /\ R = 2 * h /\ 2 * KYBER_Q < h
           /\ QINV \in Int /\ BarrettPower \in Nat
           /\ \E m \in Int : QINV * KYBER_Q = m * R + 1
<1>1. /\ KYBER_Q \in Nat /\ KYBER_Q > 2 /\ R \in Nat /\ 4 * KYBER_Q < R /\ R % 2 = 0
      /\ BarrettPower \in Nat /\ QINV \in Int /\ (KYBER_Q * QINV) % R = 1
  BY SMT DEF KyberConstants, ReductionConstants
<1>2. h \in Nat /\ R = 2 * h
  BY <1>1, SMT DEF h
<1>3. KYBER_Q * QINV \in Int /\ R > 0
  BY <1>1, SMT
<1>4. KYBER_Q * QINV = ((KYBER_Q * QINV) \div R) * R + 1 /\ (KYBER_Q * QINV) \div R \in Int
  BY <1>1, <1>3, DivMod
<1>5. QINV * KYBER_Q = KYBER_Q * QINV
  BY <1>1, SMT
<1> QED
  BY <1>1, <1>2, <1>4, <1>5

(* A conversion to 16 bits: the same residue, and a small one the same number. *)
LEMMA Int16Residue ==
    ASSUME KyberConstants, NEW x \in Int
    PROVE  Int16(x) \in (-h)..(h - 1) /\ \E k \in Int : Int16(x) = x - k * R
<1>1. h \in Nat /\ R \in Nat /\ R > 0 /\ R = 2 * h
  BY Constants
<1>2. /\ x + h = ((x + h) \div R) * R + ((x + h) % R)
      /\ (x + h) \div R \in Int /\ (x + h) % R \in 0..(R - 1)
  BY <1>1, DivMod
<1>3. Int16(x) = ((x + h) % R) - h
  BY DEF Int16, h
<1> DEFINE k == (x + h) \div R
<1>4. Int16(x) = x - k * R
  BY <1>1, <1>2, <1>3, SMT
<1>5. Int16(x) \in (-h)..(h - 1)
  BY <1>1, <1>2, <1>3
<1> HIDE DEF k
<1> QED
  BY <1>2, <1>4, <1>5 DEF k

LEMMA Int16Identity ==
    ASSUME KyberConstants, NEW x \in (-h)..(h - 1)
    PROVE  Int16(x) = x
<1>1. h \in Nat /\ R \in Nat /\ R > 0 /\ R = 2 * h
  BY Constants
<1>2. x + h \in 0..(R - 1)
  BY <1>1
<1>3. (0 * R + (x + h)) % R = x + h
  BY <1>1, <1>2, DivModUnique
<1>4. 0 * R + (x + h) = x + h
  BY <1>1
<1> QED
  BY <1>1, <1>3, <1>4 DEF Int16, h

-----------------------------------------------------------------------------
(***************************************************************************)
(* montgomery_reduce: the result is congruent to a / R, and lies between   *)
(* -Q and Q, for every a of the range its comment gives (reduce.c:15).     *)
(***************************************************************************)
THEOREM MontgomeryCorrect ==
    ASSUME KyberConstants, NEW a \in Int, -(h * KYBER_Q) <= a, a < h * KYBER_Q
    PROVE  /\ montgomery_reduce(a) \in (1 - KYBER_Q)..(KYBER_Q - 1)
           /\ \E n \in Int : montgomery_reduce(a) * R = a + n * KYBER_Q
<1> DEFINE x == (a % R) * QINV
           u == Int16(x)
<1>1. /\ KYBER_Q \in Nat /\ KYBER_Q > 2 /\ R \in Nat /\ R > 0 /\ h \in Nat /\ R = 2 * h
      /\ 2 * KYBER_Q < h /\ QINV \in Int
  BY Constants
<1>2. PICK m \in Int : QINV * KYBER_Q = m * R + 1
  BY Constants
<1>3. /\ a = (a \div R) * R + (a % R) /\ a \div R \in Int
      /\ a % R \in 0..(R - 1)
  BY <1>1, DivMod
<1> DEFINE j == a \div R
           w == a % R
<1>4. x \in Int
  BY <1>1, <1>3, SMT
<1>5. u \in (-h)..(h - 1) /\ \E k \in Int : u = x - k * R
  BY <1>4, Int16Residue
<1>6. PICK k \in Int : u = x - k * R
  BY <1>5
<1>7. u * KYBER_Q = w * (m * R + 1) - (k * KYBER_Q) * R
  <2>1. w \in Int /\ j \in Int
    BY <1>3
  <2>2. x = w * QINV
    OBVIOUS
  <2> HIDE DEF x, u, w, j
  <2>3. u * KYBER_Q = (w * QINV) * KYBER_Q - (k * R) * KYBER_Q
    BY <1>1, <1>6, <2>1, <2>2, SMT
  <2>4. (w * QINV) * KYBER_Q = w * (QINV * KYBER_Q) /\ (k * R) * KYBER_Q = (k * KYBER_Q) * R
    BY <1>1, <2>1, SMT
  <2> QED
    BY <1>2, <2>3, <2>4
<1> DEFINE t == j - w * m + k * KYBER_Q
<1>8. t \in Int /\ a - u * KYBER_Q = t * R + 0
  <2>1. w \in Int /\ j \in Int /\ a = j * R + w
    BY <1>3
  <2> HIDE DEF x, u, w, j
  <2>2. w * (m * R + 1) = (w * m) * R + w /\ w * m \in Int /\ k * KYBER_Q \in Int
    BY <1>1, <2>1, SMT
  <2>3. a - u * KYBER_Q = j * R - (w * m) * R + (k * KYBER_Q) * R
    BY <1>1, <1>7, <2>1, <2>2, SMT
  <2>4. t * R = j * R - (w * m) * R + (k * KYBER_Q) * R
    BY <1>1, <2>1, <2>2, SMT
  <2> QED
    BY <1>1, <2>1, <2>2, <2>3, <2>4
<1>9. (a - u * KYBER_Q) \div R = t
  <2> HIDE DEF t, u
  <2>1. (t * R + 0) \div R = t
    BY <1>1, <1>8, DivModUnique
  <2> QED
    BY <1>8, <2>1
<1>10. t \in (1 - KYBER_Q)..(KYBER_Q - 1)
  <2>1. u \in Int /\ -h <= u /\ u <= h - 1
    BY <1>1, <1>5
  <2> HIDE DEF t, u
  <2>2. -(h * KYBER_Q) <= u * KYBER_Q /\ u * KYBER_Q <= h * KYBER_Q - KYBER_Q /\ u * KYBER_Q \in Int /\ h * KYBER_Q \in Int
    BY <1>1, <2>1, SMT
  <2>3. t * R < 2 * (h * KYBER_Q) /\ t * R > -(2 * (h * KYBER_Q))
    BY <1>1, <1>8, <2>2, SMT
  <2>4. 2 * (h * KYBER_Q) = KYBER_Q * R /\ -(2 * (h * KYBER_Q)) = (-KYBER_Q) * R
    BY <1>1, SMT
  <2>5. t < KYBER_Q
    BY <1>1, <1>8, <2>3, <2>4, SMT
  <2>6. t > -KYBER_Q
    BY <1>1, <1>8, <2>3, <2>4, SMT
  <2> QED
    BY <1>1, <1>8, <2>5, <2>6
<1>11. Int16(t) = t
  BY <1>1, <1>10, Int16Identity
<1>12. montgomery_reduce(a) = t
  <2>1. montgomery_reduce(a) = Int16((a - u * KYBER_Q) \div R)
    BY DEF montgomery_reduce
  <2> QED
    BY <2>1, <1>9, <1>11
<1>13. -u \in Int /\ t * R = a + (-u) * KYBER_Q
  <2>1. u \in Int
    BY <1>1, <1>5
  <2> HIDE DEF t, u
  <2> QED
    BY <1>1, <1>8, <2>1, SMT
<1> QED
  BY <1>10, <1>12, <1>13

(* Products of coefficients below R/2 in magnitude and roots below Q are in range. *)
THEOREM FqmulCorrect ==
    ASSUME KyberConstants, NEW a \in (-(KYBER_Q - 1))..(KYBER_Q - 1), NEW b \in (-h)..(h - 1)
    PROVE  /\ fqmul(FALSE, a, b) \in (1 - KYBER_Q)..(KYBER_Q - 1)
           /\ \E n \in Int : fqmul(FALSE, a, b) * R = a * b + n * KYBER_Q
<1>1. KYBER_Q \in Nat /\ KYBER_Q > 2 /\ h \in Nat /\ h > 0
  BY Constants
<1>2. a * b \in Int /\ -(h * KYBER_Q) <= a * b /\ a * b < h * KYBER_Q
  <2>1. PICK c \in 0..(KYBER_Q - 1) : a = c \/ a = -c
    <3>1. CASE a >= 0
      BY <3>1, <1>1
    <3>2. CASE a < 0
      <4>1. -a \in 0..(KYBER_Q - 1) /\ a = -(-a)
        BY <3>2, <1>1
      <4> QED
        BY <4>1
    <3> QED
      BY <3>1, <3>2
  <2>2. c * b <= c * h /\ c * b >= -(c * h) /\ c * h <= (KYBER_Q - 1) * h /\ c * b \in Int
    BY <1>1, SMT
  <2>3. a * b = c * b \/ a * b = -(c * b)
    BY <2>1, <1>1, SMT
  <2>4. (KYBER_Q - 1) * h = h * KYBER_Q - h
    BY <1>1, SMT
  <2> QED
    BY <1>1, <2>2, <2>3, <2>4, SMT
<1> QED
  BY <1>2, MontgomeryCorrect DEF fqmul

(***************************************************************************)
(* barrett_reduce: the result is congruent to a and lies in 0..Q, for      *)
(* every 16-bit a, because the quotient is off by less than one            *)
(* (reduce.c:36).                                                          *)
(***************************************************************************)
THEOREM BarrettCorrect ==
    ASSUME KyberConstants, KYBER_Q * R <= 4 * BarrettPower, NEW a \in (-h)..(h - 1)
    PROVE  /\ barrett_reduce(a) \in 0..KYBER_Q
           /\ \E n \in Int : barrett_reduce(a) = a + n * KYBER_Q
<1> DEFINE P == BarrettPower
           g == KYBER_Q \div 2
           v == (BarrettPower + KYBER_Q \div 2) \div KYBER_Q
           t == (v * a) \div P
           s == (v * a) % P
<1>1. /\ KYBER_Q \in Nat /\ KYBER_Q > 2 /\ R \in Nat /\ R > 0 /\ h \in Nat /\ R = 2 * h
      /\ 2 * KYBER_Q < h /\ P \in Nat
  BY Constants
<1>2. P > 0 /\ h * KYBER_Q <= 2 * P
  <2>1. KYBER_Q * R = 2 * (h * KYBER_Q) /\ h * KYBER_Q > 0
    BY <1>1, SMT
  <2> QED
    BY <1>1, <2>1, SMT
<1>3. g \in Nat /\ KYBER_Q = 2 * g + 1
  BY <1>1, SMT DEF KyberConstants, ReductionConstants
<1>4. v \in Int /\ \E e \in (-g)..g : v * KYBER_Q = P + e
  <2>1. /\ P + g = v * KYBER_Q + ((P + g) % KYBER_Q) /\ v \in Int
        /\ (P + g) % KYBER_Q \in 0..(KYBER_Q - 1)
    BY <1>1, <1>3, DivMod
  <2> DEFINE e == g - ((P + g) % KYBER_Q)
  <2> HIDE DEF v
  <2>2. e \in (-g)..g
    BY <1>3, <2>1
  <2>3. v * KYBER_Q \in Int /\ v * KYBER_Q = P + e
    BY <1>1, <1>3, <2>1, SMT
  <2> QED
    BY <2>1, <2>2, <2>3
<1>5. PICK e \in (-g)..g : v * KYBER_Q = P + e
  BY <1>4
<1>6. a \in Int /\ v * a \in Int
  BY <1>1, <1>4, SMT
<1>7. v * a = t * P + s /\ t \in Int /\ s \in 0..(P - 1)
  BY <1>1, <1>2, <1>6, DivMod
<1> DEFINE d == a - t * KYBER_Q
<1> HIDE DEF v, t, s, P, g
<1>8. d \in Int /\ P * d = s * KYBER_Q - a * e
  <2>1. e \in Int /\ s \in Int /\ t * KYBER_Q \in Int
    BY <1>1, <1>3, <1>5, <1>7, SMT
  <2>2. (v * a) * KYBER_Q = (t * P) * KYBER_Q + s * KYBER_Q
    BY <1>1, <1>7, <2>1, SMT
  <2>3. (v * a) * KYBER_Q = a * (v * KYBER_Q)
    BY <1>1, <1>4, <1>6, SMT
  <2>4. a * (P + e) = a * P + a * e
    BY <1>1, <1>6, <2>1, SMT
  <2>5. (t * P) * KYBER_Q = (t * KYBER_Q) * P
    BY <1>1, <1>7, SMT
  <2>6. a * P + a * e = (t * KYBER_Q) * P + s * KYBER_Q
    BY <1>5, <2>2, <2>3, <2>4, <2>5
  <2>7. P * (a - t * KYBER_Q) = a * P - (t * KYBER_Q) * P
    BY <1>1, <1>6, <2>1, SMT
  <2>8. a * P \in Int /\ a * e \in Int /\ (t * KYBER_Q) * P \in Int /\ s * KYBER_Q \in Int
    BY <1>1, <1>6, <2>1, SMT
  <2> QED
    BY <1>6, <2>1, <2>6, <2>7, <2>8, SMT
<1>9. a * e \in Int /\ -P < a * e /\ a * e < P
  <2>1. PICK b \in 0..g : e = b \/ e = -b
    <3>1. CASE e >= 0
      BY <3>1, <1>3, <1>5
    <3>2. CASE e < 0
      <4>1. -e \in 0..g /\ e = -(-e)
        BY <3>2, <1>3, <1>5
      <4> QED
        BY <4>1
    <3> QED
      BY <3>1, <3>2, <1>3
  <2>2. a * b <= h * b /\ a * b >= -(h * b) /\ h * b <= h * g /\ a * b \in Int
        /\ h * g \in Int /\ h * b \in Int
    BY <1>1, <1>3, <1>6, SMT
  <2>3. a * e = a * b \/ a * e = -(a * b)
    BY <2>1, <1>6, <1>3, SMT
  <2>4. 2 * (h * g) = h * KYBER_Q - h /\ h * KYBER_Q \in Int
    BY <1>1, <1>3, SMT
  <2>5. h * g < P
    BY <1>1, <1>2, <2>2, <2>4, SMT
  <2> QED
    BY <2>2, <2>3, <2>5, <1>1, SMT
<1>10. s * KYBER_Q \in Int /\ 0 <= s * KYBER_Q /\ s * KYBER_Q <= P * KYBER_Q - KYBER_Q /\ P * KYBER_Q \in Int
  BY <1>1, <1>7, SMT
<1>11. d >= 0
  <2>1. P * d > -P
    BY <1>1, <1>8, <1>9, <1>10, SMT
  <2> HIDE DEF d
  <2> QED
    BY <1>1, <1>2, <1>8, <2>1, SMT
<1>12. d <= KYBER_Q
  <2>1. P * d < P * KYBER_Q + P
    BY <1>1, <1>8, <1>9, <1>10, SMT
  <2>2. P * (KYBER_Q + 1) = P * KYBER_Q + P
    BY <1>1, SMT
  <2> HIDE DEF d
  <2>3. P * d < P * (KYBER_Q + 1)
    BY <2>1, <2>2
  <2> QED
    BY <1>1, <1>2, <1>8, <2>3, SMT
<1>13. Int16(d) = d
  BY <1>1, <1>8, <1>11, <1>12, Int16Identity
<1>14. barrett_reduce(a) = d
  BY <1>13 DEF barrett_reduce, t, v, P
<1>15. -t \in Int /\ d = a + (-t) * KYBER_Q
  BY <1>1, <1>6, <1>7, SMT
<1>16. barrett_reduce(a) \in 0..KYBER_Q
  BY <1>1, <1>8, <1>11, <1>12, <1>14
<1>17. \E n \in Int : d = a + n * KYBER_Q
  BY <1>15
<1> HIDE DEF d
<1> QED
  BY <1>14, <1>16, <1>17

(* csubq: at most one subtraction is missing after an addition (reduce.c:58). *)
THEOREM CsubqCorrect ==
    ASSUME KyberConstants, NEW a \in 0..(2 * KYBER_Q - 1)
    PROVE  Canonical(csubq(a)) /\ (csubq(a) = a \/ csubq(a) = a - KYBER_Q)
<1>1. KYBER_Q \in Nat /\ KYBER_Q > 2 /\ h \in Nat /\ 2 * KYBER_Q < h
  BY Constants
<1>2. a - KYBER_Q \in (-h)..(h - 1)
  BY <1>1
<1>3. Int16(a - KYBER_Q) = a - KYBER_Q
  BY <1>2, Int16Identity
<1>4. CASE a < KYBER_Q
  <2>1. (a - KYBER_Q) + KYBER_Q = a /\ a \in (-h)..(h - 1) /\ a - KYBER_Q < 0
    BY <1>1, <1>4
  <2>2. csubq(a) = Int16(a)
    BY <1>3, <2>1 DEF csubq
  <2> QED
    BY <1>1, <1>4, <2>1, <2>2, Int16Identity DEF Canonical
<1>5. CASE a >= KYBER_Q
  <2>1. (a - KYBER_Q) + 0 = a - KYBER_Q /\ ~(a - KYBER_Q < 0)
    BY <1>1, <1>5
  <2>2. csubq(a) = Int16(a - KYBER_Q)
    BY <1>3, <2>1 DEF csubq
  <2> QED
    BY <1>1, <1>3, <1>5, <2>2 DEF Canonical
<1> QED
  BY <1>1, <1>4, <1>5

(***************************************************************************)
(* Reduced and then conditionally reduced, every 16-bit number is a        *)
(* canonical coefficient: what poly_tobytes stores of a polynomial that    *)
(* poly_reduce went over (poly.c:142).                                     *)
(***************************************************************************)
THEOREM ReducedCanonical ==
    ASSUME KyberConstants, KYBER_Q * R <= 4 * BarrettPower, NEW a \in (-h)..(h - 1)
    PROVE  /\ Canonical(csubq(barrett_reduce(a)))
           /\ \E n \in Int : csubq(barrett_reduce(a)) = a + n * KYBER_Q
<1>1. KYBER_Q \in Nat /\ KYBER_Q > 2 /\ h \in Nat
  BY Constants
<1>2. barrett_reduce(a) \in 0..KYBER_Q
  BY BarrettCorrect
<1>3. PICK n \in Int : barrett_reduce(a) = a + n * KYBER_Q
  BY BarrettCorrect
<1>4. barrett_reduce(a) \in 0..(2 * KYBER_Q - 1)
  BY <1>1, <1>2
<1>5. /\ Canonical(csubq(barrett_reduce(a)))
      /\ \/ csubq(barrett_reduce(a)) = barrett_reduce(a)
         \/ csubq(barrett_reduce(a)) = barrett_reduce(a) - KYBER_Q
  BY <1>4, CsubqCorrect
<1>6. n - 1 \in Int
  OBVIOUS
<1>7. CASE csubq(barrett_reduce(a)) = barrett_reduce(a)
  BY <1>3, <1>5, <1>7
<1>8. CASE csubq(barrett_reduce(a)) = barrett_reduce(a) - KYBER_Q
  <2>1. csubq(barrett_reduce(a)) = a + (n - 1) * KYBER_Q
    <3>1. (n - 1) * KYBER_Q = n * KYBER_Q - KYBER_Q /\ n * KYBER_Q \in Int
      BY <1>1, SMT
    <3> QED
      BY <1>1, <1>3, <1>8, <3>1
  <2> QED
    BY <1>5, <1>6, <2>1
<1> QED
  BY <1>5, <1>7, <1>8

-----------------------------------------------------------------------------
(***************************************************************************)
(* Encapsulation.  A pre-key belongs to a key pair and a ciphertext: it is *)
(* the one decapsulation computes, whoever holds it.                       *)
(***************************************************************************)
Coins(k, m) == Derive([lo |-> m, hi |-> pairs[k].hpk])

Encapsulated(k, m) ==
    LET c == indcpa_enc(m, pairs[k].pk, Coins(k, m).hi)
    IN  [key |-> k, ct |-> c, ss |-> Secret(Coins(k, m).lo, c)]

PreKey(k, c) ==
    LET m == indcpa_dec(c, pairs[k].seed)
    IN  IF c = indcpa_enc(m, pairs[k].pk, Coins(k, m).hi)
        THEN Coins(k, m).lo ELSE pairs[k].z

(* No two key pairs share a seed or what answers a rejected ciphertext. *)
PairsRight ==
    /\ drawn \in Nat
    /\ \A k \in DOMAIN pairs :
          \E n \in 1..drawn : /\ n < drawn
                              /\ pairs[k] = SecretKey(<<"random", n>>, <<"random", n + 1>>)
    /\ \A j, k \in DOMAIN pairs :
          pairs[j].seed = pairs[k].seed \/ pairs[j].z = pairs[k].z => j = k

SentRight ==
    \A s \in sent : \E k \in DOMAIN pairs, n \in 1..drawn :
        s = Encapsulated(k, hash_h(<<"random", n>>))

(* However a ciphertext was altered, a v that is none's alteration is a sender's. *)
MadeBySender(v) == v[1] = "v" => \E s \in sent : s.ct.v = v

OnTheWire ==
    \A c \in Ciphertexts : /\ c = [u |-> c.u, v |-> c.v]
                           /\ MadeBySender(c.v) /\ MadeBySender(Rounded(c.v))

ReceivedRight ==
    \A r \in received : /\ r.key \in DOMAIN pairs /\ r.ct \in Ciphertexts
                        /\ r.ss = Secret(PreKey(r.key, r.ct), r.ct)

(* A message is a hash or what no ciphertext was made of, never a bare random number. *)
IsMessage(m) == m[1] \in {"h", "other"}

EncryptionsRight ==
    \A e \in encryptions :
        /\ IsMessage(e.m)
        /\ \E k \in DOMAIN pairs : e.pk = pairs[k].pk /\ e.coins = Coins(k, e.m).hi

KemInv == PairsRight /\ SentRight /\ OnTheWire /\ ReceivedRight /\ EncryptionsRight

-----------------------------------------------------------------------------
(* The key pairs that exist stay as they are. *)
LEMMA SecretKeyFields ==
    ASSUME PairsRight, NEW k \in DOMAIN pairs
    PROVE  \E n \in Nat : /\ pairs[k].seed = <<"random", n>>
                          /\ pairs[k].z = <<"random", n + 1>>
                          /\ pairs[k].pk = Public(pairs[k].seed)
                          /\ pairs[k].hpk = hash_h(pairs[k].pk)
<1>1. PICK n \in 1..drawn : pairs[k] = SecretKey(<<"random", n>>, <<"random", n + 1>>)
  BY DEF PairsRight
<1>2. n \in Nat
  BY DEF PairsRight
<1> QED
  BY <1>1, <1>2 DEF SecretKey

(* A ciphertext that was made for a key decrypts under it to its message. *)
LEMMA DecryptsBack ==
    ASSUME NEW seed, NEW m, NEW coins
    PROVE  indcpa_dec(indcpa_enc(m, Public(seed), coins), seed) = m
<1> DEFINE c == indcpa_enc(m, Public(seed), coins)
<1>1. c.u = <<"u", Public(seed), coins>> /\ c.v = <<"v", Public(seed), coins, m>>
  BY DEF indcpa_enc
<1> HIDE DEF c
<1>2. Rounded(c.u) = c.u /\ Rounded(c.v) = c.v
  BY <1>1 DEF Rounded
<1> QED
  BY <1>1, <1>2 DEF indcpa_dec, c

LEMMA SentPreKey ==
    ASSUME PairsRight, NEW k \in DOMAIN pairs, NEW m
    PROVE  LET s == Encapsulated(k, m)
           IN  s.key = k /\ PreKey(k, s.ct) = Coins(k, m).lo
               /\ s.ss = Secret(PreKey(k, s.ct), s.ct)
<1> DEFINE c == indcpa_enc(m, pairs[k].pk, Coins(k, m).hi)
<1>1. pairs[k].pk = Public(pairs[k].seed)
  BY SecretKeyFields
<1>2. indcpa_dec(c, pairs[k].seed) = m
  BY <1>1, DecryptsBack
<1>3. PreKey(k, c) = Coins(k, m).lo
  BY <1>2 DEF PreKey
<1> QED
  BY <1>3 DEF Encapsulated

LEMMA PairInjective ==
    ASSUME NEW p, NEW q, NEW a, NEW b, <<p, a>> = <<q, b>>
    PROVE  p = q /\ a = b
  OBVIOUS

(* Equal terms are made of equal arguments. *)
LEMMA Injective ==
    ASSUME NEW x, NEW y, NEW a, NEW b
    PROVE  /\ Public(x) = Public(y) => x = y
           /\ hash_h(x) = hash_h(y) => x = y
           /\ hash_g(x).lo = hash_g(y).lo => x = y
           /\ hash_g(x).hi = hash_g(y).hi => x = y
           /\ Secret(x, a) = Secret(y, b) => x = y /\ a = b
  BY DEF Public, hash_h, hash_g, Secret, kdf

-----------------------------------------------------------------------------
(* A step that keeps the key pairs there are keeps what was said of them. *)
Kept ==
    /\ \A k \in DOMAIN pairs : k \in DOMAIN pairs' /\ pairs'[k] = pairs[k]
    /\ drawn' \in Nat /\ drawn' >= drawn
    /\ sent \subseteq sent' /\ altered \subseteq altered'

LEMMA KeptTerms ==
    ASSUME Kept, NEW k \in DOMAIN pairs, NEW m, NEW c
    PROVE  /\ Coins(k, m)' = Coins(k, m)
           /\ Encapsulated(k, m)' = Encapsulated(k, m)
           /\ PreKey(k, c)' = PreKey(k, c)
<1>1. \A x : Coins(k, x)' = Coins(k, x)
  BY DEF Kept, Coins
<1> QED
  BY <1>1 DEF Kept, Encapsulated, PreKey

LEMMA KeptSent ==
    ASSUME KemInv, Kept, NEW s \in sent
    PROVE  \E k \in DOMAIN pairs', n \in 1..drawn' :
               s = Encapsulated(k, hash_h(<<"random", n>>))'
<1>1. PICK k \in DOMAIN pairs, n \in 1..drawn : s = Encapsulated(k, hash_h(<<"random", n>>))
  BY DEF KemInv, SentRight
<1>2. k \in DOMAIN pairs' /\ n \in 1..drawn'
  BY DEF Kept, KemInv, PairsRight
<1>3. Encapsulated(k, hash_h(<<"random", n>>))' = Encapsulated(k, hash_h(<<"random", n>>))
  BY KeptTerms
<1> QED
  BY <1>1, <1>2, <1>3

LEMMA KeptWire ==
    ASSUME KemInv, Kept, NEW c \in Ciphertexts
    PROVE  /\ c = [u |-> c.u, v |-> c.v] /\ c \in Ciphertexts'
           /\ MadeBySender(c.v)' /\ MadeBySender(Rounded(c.v))'
  BY DEF KemInv, OnTheWire, MadeBySender, Kept, Ciphertexts

LEMMA KeptReceived ==
    ASSUME KemInv, Kept, NEW r \in received
    PROVE  /\ r.key \in DOMAIN pairs' /\ r.ct \in Ciphertexts'
           /\ r.ss = Secret(PreKey(r.key, r.ct)', r.ct)
<1>1. /\ r.key \in DOMAIN pairs /\ r.ct \in Ciphertexts
      /\ r.ss = Secret(PreKey(r.key, r.ct), r.ct)
  BY DEF KemInv, ReceivedRight
<1>2. PreKey(r.key, r.ct)' = PreKey(r.key, r.ct)
  BY <1>1, KeptTerms
<1> QED
  BY <1>1, <1>2, KeptWire DEF Kept

LEMMA KeptEncryptions ==
    ASSUME KemInv, Kept, NEW e \in encryptions
    PROVE  /\ IsMessage(e.m)
           /\ \E k \in DOMAIN pairs' : e.pk = pairs'[k].pk /\ e.coins = Coins(k, e.m)'.hi
<1>1. PICK k \in DOMAIN pairs : e.pk = pairs[k].pk /\ e.coins = Coins(k, e.m).hi
  BY DEF KemInv, EncryptionsRight
<1>2. Coins(k, e.m)' = Coins(k, e.m)
  BY KeptTerms
<1> QED
  BY <1>1, <1>2 DEF Kept, KemInv, EncryptionsRight

(* What decryption returns is a message, whatever it is given. *)
LEMMA DecryptsToMessage ==
    ASSUME KemInv, NEW c \in Ciphertexts, NEW seed
    PROVE  IsMessage(indcpa_dec(c, seed))
<1> DEFINE u == Rounded(c.u)
           v == Rounded(c.v)
           fits == /\ u[1] = "u" /\ v[1] = "v"
                   /\ u[2] = Public(seed) /\ v[2] = u[2] /\ v[3] = u[3]
<1>1. indcpa_dec(c, seed) = IF fits THEN v[4] ELSE <<"other", c, seed>>
  BY DEF indcpa_dec
<1>2. CASE ~fits
  BY <1>1, <1>2 DEF IsMessage
<1>3. CASE fits
  <2>1. PICK s \in sent : s.ct.v = v
    BY <1>3 DEF KemInv, OnTheWire, MadeBySender
  <2>2. PICK k \in DOMAIN pairs, n \in 1..drawn :
            s = Encapsulated(k, hash_h(<<"random", n>>))
    BY DEF KemInv, SentRight
  <2>3. s.ct.v[4] = hash_h(<<"random", n>>)
    BY <2>2 DEF Encapsulated, indcpa_enc
  <2> QED
    BY <1>1, <1>3, <2>1, <2>3 DEF IsMessage, hash_h
<1> QED
  BY <1>2, <1>3

-----------------------------------------------------------------------------
LEMMA KemInvInitially == KemInit => KemInv
  BY DEF KemInit, KemInv, PairsRight, SentRight, OnTheWire, Ciphertexts, ReceivedRight,
         EncryptionsRight

LEMMA KeypairStep ==
    ASSUME KemInv, NEW k \in Keys \ DOMAIN pairs, Keypair(k)
    PROVE  KemInv'
<1> DEFINE new == SecretKey(<<"random", drawn + 1>>, <<"random", drawn + 2>>)
<1>1. /\ pairs' = [j \in DOMAIN pairs \cup {k} |-> IF j = k THEN new ELSE pairs[j]]
      /\ drawn' = drawn + 2 /\ drawn \in Nat
      /\ UNCHANGED <<sent, altered, received, encryptions>>
  BY DEF Keypair, randombytes, KemInv, PairsRight
<1>2. /\ DOMAIN pairs' = DOMAIN pairs \cup {k} /\ pairs'[k] = new
      /\ \A j \in DOMAIN pairs : pairs'[j] = pairs[j]
  BY <1>1
<1>3. Kept
  BY <1>1, <1>2 DEF Kept
<1>4. PairsRight'
  <2>1. new.seed = <<"random", drawn + 1>> /\ new.z = <<"random", drawn + 2>>
    BY DEF SecretKey
  <2>2. \A j \in DOMAIN pairs : \E n \in Nat : /\ n > 0 /\ n < drawn
                                              /\ pairs[j].seed = <<"random", n>>
                                              /\ pairs[j].z = <<"random", n + 1>>
    <3>1. TAKE j \in DOMAIN pairs
    <3>2. PICK n \in 1..drawn : /\ n < drawn
                                /\ pairs[j] = SecretKey(<<"random", n>>, <<"random", n + 1>>)
      BY DEF KemInv, PairsRight
    <3>3. n \in Nat /\ n > 0
      BY <1>1
    <3> QED
      BY <3>2, <3>3 DEF SecretKey
  <2>3. \A j \in DOMAIN pairs : pairs[j].seed # new.seed /\ pairs[j].z # new.z
    BY <1>1, <2>1, <2>2
  <2>4. \A i, j \in DOMAIN pairs' :
            pairs'[i].seed = pairs'[j].seed \/ pairs'[i].z = pairs'[j].z => i = j
    <3>1. TAKE i, j \in DOMAIN pairs'
    <3>2. CASE i = k \/ j = k
      BY <1>2, <2>3, <3>2
    <3>3. CASE i # k /\ j # k
      BY <1>2, <3>3 DEF KemInv, PairsRight
    <3> QED
      BY <3>2, <3>3
  <2>5. \A j \in DOMAIN pairs' :
            \E n \in 1..drawn' : /\ n < drawn'
                                 /\ pairs'[j] = SecretKey(<<"random", n>>, <<"random", n + 1>>)
    <3>1. TAKE j \in DOMAIN pairs'
    <3>2. CASE j = k
      <4>1. drawn + 1 \in 1..drawn' /\ drawn + 1 < drawn' /\ (drawn + 1) + 1 = drawn + 2
        BY <1>1
      <4> QED
        BY <4>1, <1>2, <3>2
    <3>3. CASE j # k
      <4>1. PICK n \in 1..drawn : /\ n < drawn
                                  /\ pairs[j] = SecretKey(<<"random", n>>, <<"random", n + 1>>)
        BY <1>2, <3>3 DEF KemInv, PairsRight
      <4>2. n \in 1..drawn' /\ n < drawn'
        BY <1>1, <4>1
      <4> QED
        BY <1>2, <3>3, <4>1, <4>2
    <3> QED
      BY <3>2, <3>3
  <2>6. drawn' \in Nat
    BY <1>1
  <2> HIDE DEF new
  <2> QED
    BY <2>4, <2>5, <2>6, Zenon DEF PairsRight
<1>5. SentRight'
  BY <1>1, <1>3, KeptSent DEF SentRight
<1>6. OnTheWire'
  BY <1>1, <1>3, KeptWire DEF OnTheWire, Ciphertexts
<1>7. ReceivedRight'
  BY <1>1, <1>3, KeptReceived DEF ReceivedRight
<1>8. EncryptionsRight'
  BY <1>1, <1>3, KeptEncryptions DEF EncryptionsRight
<1> QED
  BY <1>4, <1>5, <1>6, <1>7, <1>8 DEF KemInv

LEMMA EncapsulateStep ==
    ASSUME KemInv, NEW k \in DOMAIN pairs, Encapsulate(k)
    PROVE  KemInv'
<1>1. PICK r \in Nat : r = drawn + 1
  BY DEF KemInv, PairsRight
<1>2. PICK m : m = hash_h(<<"random", r>>)
  OBVIOUS
<1>3. PICK new : new = Encapsulated(k, m)
  OBVIOUS
<1>4. PICK e : e = [m |-> m, pk |-> pairs[k].pk, coins |-> Coins(k, m).hi]
  OBVIOUS
<1>5. /\ drawn' = drawn + 1 /\ drawn \in Nat
      /\ sent' = sent \cup {new}
      /\ encryptions' = encryptions \cup {e}
      /\ UNCHANGED <<pairs, altered, received>>
  <2>1. pairs[k].hpk = hash_h(pairs[k].pk)
    BY SecretKeyFields DEF KemInv
  <2> QED
    BY <1>1, <1>2, <1>3, <1>4, <2>1
       DEF Encapsulate, randombytes, Encapsulated, Coins, KemInv, PairsRight
<1>6. Kept
  BY <1>5 DEF Kept
<1>7. PairsRight'
  <2>1. \A j \in DOMAIN pairs :
            \E n \in 1..drawn' : /\ n < drawn'
                                 /\ pairs[j] = SecretKey(<<"random", n>>, <<"random", n + 1>>)
    <3>1. TAKE j \in DOMAIN pairs
    <3>2. PICK n \in 1..drawn : /\ n < drawn
                                /\ pairs[j] = SecretKey(<<"random", n>>, <<"random", n + 1>>)
      BY DEF KemInv, PairsRight
    <3>3. n \in 1..drawn' /\ n < drawn'
      BY <1>5, <3>2
    <3> QED
      BY <3>2, <3>3
  <2>2. drawn' \in Nat /\ pairs' = pairs
    BY <1>5
  <2>3. \A i, j \in DOMAIN pairs :
            pairs[i].seed = pairs[j].seed \/ pairs[i].z = pairs[j].z => i = j
    BY DEF KemInv, PairsRight
  <2> QED
    BY <2>1, <2>2, <2>3, Zenon DEF PairsRight
<1>8. new \in sent' /\ r \in 1..drawn' /\ k \in DOMAIN pairs'
  BY <1>1, <1>5
<1>9. SentRight'
  <2>1. new = Encapsulated(k, hash_h(<<"random", r>>))'
    BY <1>2, <1>3, <1>6, KeptTerms
  <2>2. \E j \in DOMAIN pairs', n \in 1..drawn' :
            new = Encapsulated(j, hash_h(<<"random", n>>))'
    BY <1>8, <2>1
  <2> QED
    BY <1>5, <1>6, <2>2, KeptSent DEF SentRight
<1>10. OnTheWire'
  <2>1. Ciphertexts' = Ciphertexts \cup {new.ct}
    BY <1>5 DEF Ciphertexts
  <2>2. /\ new.ct = [u |-> new.ct.u, v |-> new.ct.v]
        /\ new.ct.v[1] = "v" /\ Rounded(new.ct.v) = new.ct.v
    BY <1>3 DEF Encapsulated, indcpa_enc, Rounded
  <2>3. MadeBySender(new.ct.v)' /\ MadeBySender(Rounded(new.ct.v))'
    BY <1>8, <2>2 DEF MadeBySender
  <2> QED
    BY <1>6, <2>1, <2>2, <2>3, KeptWire DEF OnTheWire
<1>11. ReceivedRight'
  BY <1>5, <1>6, KeptReceived DEF ReceivedRight
<1>12. EncryptionsRight'
  <2>1. IsMessage(m) /\ Coins(k, m)' = Coins(k, m) /\ pairs'[k].pk = pairs[k].pk
    BY <1>2, <1>5, <1>6, KeptTerms DEF IsMessage, hash_h
  <2>2. /\ IsMessage(e.m)
        /\ \E j \in DOMAIN pairs' : e.pk = pairs'[j].pk /\ e.coins = Coins(j, e.m)'.hi
    BY <1>4, <1>8, <2>1
  <2> QED
    BY <1>5, <1>6, <2>2, KeptEncryptions DEF EncryptionsRight
<1> QED
  BY <1>7, <1>9, <1>10, <1>11, <1>12 DEF KemInv

(* What a step leaves alone but the ciphertexts altered, decapsulations and encryptions. *)
LEMMA PairsStay ==
    ASSUME KemInv, UNCHANGED <<drawn, pairs, sent>>, altered \subseteq altered'
    PROVE  Kept /\ PairsRight' /\ SentRight'
<1>1. Kept
  BY DEF KemInv, PairsRight, Kept
<1>2. PairsRight'
  BY DEF KemInv, PairsRight
<1> QED
  BY <1>1, <1>2, KeptSent DEF SentRight

LEMMA AlterStep ==
    ASSUME KemInv, Alter
    PROVE  KemInv'
<1>1. PICK c \in Ciphertexts : \E x \in Alterations(c) :
          altered' = altered \cup {x} /\ UNCHANGED <<drawn, pairs, sent, received, encryptions>>
  BY DEF Alter
<1>2. PICK d \in Alterations(c) :
          altered' = altered \cup {d} /\ UNCHANGED <<drawn, pairs, sent, received, encryptions>>
  BY <1>1
<1>3. Kept /\ PairsRight' /\ SentRight'
  BY <1>2, PairsStay
<1>4. /\ c = [u |-> c.u, v |-> c.v]
      /\ MadeBySender(c.v)' /\ MadeBySender(Rounded(c.v))'
  BY <1>3, KeptWire
<1>5. /\ d = [u |-> d.u, v |-> d.v]
      /\ MadeBySender(d.v)' /\ MadeBySender(Rounded(d.v))'
  <2> DEFINE pair(how) == {[c EXCEPT !.u = <<how, c.u>>], [c EXCEPT !.v = <<how, c.v>>]}
             touched == UNION {pair(how) : how \in {"slightly", "wholly"}}
             spliced == {[c EXCEPT !.v = e.v] : e \in Ciphertexts}
             right == /\ d = [u |-> d.u, v |-> d.v]
                      /\ MadeBySender(d.v)' /\ MadeBySender(Rounded(d.v))'
  <2>1. Alterations(c) = touched \cup spliced
    BY DEF Alterations
  <2>2. ASSUME NEW how \in {"slightly", "wholly"}, d \in pair(how) PROVE right
    <3>1. d = [u |-> <<how, c.u>>, v |-> c.v] \/ d = [u |-> c.u, v |-> <<how, c.v>>]
      BY <1>4, <2>2
    <3>2. CASE d = [u |-> <<how, c.u>>, v |-> c.v]
      BY <1>4, <3>2
    <3>3. CASE d = [u |-> c.u, v |-> <<how, c.v>>]
      <4>1. d.v[1] = how /\ d.v[2] = c.v
        BY <3>3
      <4>2. MadeBySender(d.v)'
        BY <4>1 DEF MadeBySender
      <4>3. Rounded(d.v) = IF how = "slightly" THEN c.v ELSE d.v
        BY <4>1 DEF Rounded
      <4> QED
        BY <1>4, <3>3, <4>2, <4>3
    <3> QED
      BY <3>1, <3>2, <3>3
  <2>3. ASSUME d \in spliced PROVE right
    <3>1. PICK e \in Ciphertexts : d = [c EXCEPT !.v = e.v]
      BY <2>3
    <3>2. d = [u |-> c.u, v |-> e.v]
      BY <1>4, <3>1
    <3>3. MadeBySender(e.v)' /\ MadeBySender(Rounded(e.v))'
      BY <1>3, KeptWire
    <3> QED
      BY <3>2, <3>3
  <2>4. right
    <3>1. d \in touched \/ d \in spliced
      <4> HIDE DEF touched, spliced
      <4> QED
        BY <2>1
    <3>2. CASE d \in touched
      <4> HIDE DEF pair, right
      <4>1. PICK P \in {pair(how) : how \in {"slightly", "wholly"}} : d \in P
        BY <3>2
      <4>2. PICK how \in {"slightly", "wholly"} : P = pair(how)
        BY <4>1
      <4> QED
        BY <2>2, <4>1, <4>2
    <3> HIDE DEF touched, spliced, right
    <3> QED
      BY <2>3, <3>1, <3>2
  <2> QED
    BY <2>4
<1>6. OnTheWire'
  <2>1. Ciphertexts' = Ciphertexts \cup {d}
    BY <1>2 DEF Ciphertexts
  <2> QED
    BY <1>3, <1>5, <2>1, KeptWire DEF OnTheWire
<1>7. ReceivedRight'
  BY <1>2, <1>3, KeptReceived DEF ReceivedRight
<1>8. EncryptionsRight'
  BY <1>2, <1>3, KeptEncryptions DEF EncryptionsRight
<1> QED
  BY <1>3, <1>6, <1>7, <1>8 DEF KemInv

LEMMA DecapsulateStep ==
    ASSUME KemInv, NEW k \in DOMAIN pairs, Decapsulate(k)
    PROVE  KemInv'
<1>1. pairs[k].hpk = hash_h(pairs[k].pk)
  BY SecretKeyFields DEF KemInv
<1>2. PICK c \in Ciphertexts :
          LET m == indcpa_dec(c, pairs[k].seed)
          IN  /\ received' = received
                             \cup {[key |-> k, ct |-> c, ss |-> Secret(PreKey(k, c), c)]}
              /\ encryptions' = encryptions
                             \cup {[m |-> m, pk |-> pairs[k].pk, coins |-> Coins(k, m).hi]}
              /\ UNCHANGED <<drawn, pairs, sent, altered>>
  <2>1. PICK c \in Ciphertexts :
            LET buf  == [lo |-> indcpa_dec(c, pairs[k].seed), hi |-> pairs[k].hpk]
                kr   == Derive(buf)
                fail == verify(c, indcpa_enc(buf.lo, pairs[k].pk, kr.hi))
                pre  == cmov(kr.lo, pairs[k].z, fail)
            IN  /\ received' = received \cup {[key |-> k, ct |-> c, ss |-> Secret(pre, c)]}
                /\ encryptions' = encryptions
                                  \cup {[m |-> buf.lo, pk |-> pairs[k].pk, coins |-> kr.hi]}
                /\ UNCHANGED <<drawn, pairs, sent, altered>>
    BY DEF Decapsulate
  <2> QED
    BY <2>1 DEF Coins, PreKey, verify, cmov
<1>3. PICK m : m = indcpa_dec(c, pairs[k].seed)
  OBVIOUS
<1>4. PICK r : r = [key |-> k, ct |-> c, ss |-> Secret(PreKey(k, c), c)]
  OBVIOUS
<1>5. PICK e : e = [m |-> m, pk |-> pairs[k].pk, coins |-> Coins(k, m).hi]
  OBVIOUS
<1>6. /\ received' = received \cup {r} /\ encryptions' = encryptions \cup {e}
      /\ UNCHANGED <<drawn, pairs, sent, altered>>
  BY <1>2, <1>3, <1>4, <1>5
<1>7. Kept /\ PairsRight' /\ SentRight'
  BY <1>6, PairsStay
<1>8. OnTheWire'
  BY <1>6, <1>7, KeptWire DEF OnTheWire, Ciphertexts
<1>9. ReceivedRight'
  <2>1. PreKey(k, c)' = PreKey(k, c) /\ c \in Ciphertexts'
    BY <1>7, KeptTerms, KeptWire
  <2>2. /\ r.key \in DOMAIN pairs' /\ r.ct \in Ciphertexts'
        /\ r.ss = Secret(PreKey(r.key, r.ct)', r.ct)
    BY <1>4, <1>6, <2>1
  <2> QED
    BY <1>6, <1>7, <2>2, KeptReceived DEF ReceivedRight
<1>10. EncryptionsRight'
  <2>1. IsMessage(m) /\ Coins(k, m)' = Coins(k, m)
    BY <1>3, <1>7, KeptTerms, DecryptsToMessage
  <2>2. /\ IsMessage(e.m)
        /\ \E j \in DOMAIN pairs' : e.pk = pairs'[j].pk /\ e.coins = Coins(j, e.m)'.hi
    BY <1>5, <1>6, <2>1
  <2> QED
    BY <1>6, <1>7, <2>2, KeptEncryptions DEF EncryptionsRight
<1> QED
  BY <1>7, <1>8, <1>9, <1>10 DEF KemInv

LEMMA KemStutter ==
    ASSUME KemInv, UNCHANGED kemVars
    PROVE  KemInv'
<1>1. UNCHANGED <<drawn, pairs, sent, altered, received, encryptions>>
  BY DEF kemVars
<1>2. Kept /\ PairsRight' /\ SentRight'
  BY <1>1, PairsStay
<1>3. OnTheWire' /\ ReceivedRight' /\ EncryptionsRight'
  BY <1>1, <1>2, KeptWire, KeptReceived, KeptEncryptions
     DEF OnTheWire, Ciphertexts, ReceivedRight, EncryptionsRight
<1> QED
  BY <1>2, <1>3 DEF KemInv

LEMMA KemInvariant == KemSpec => []KemInv
<1>1. KemInv /\ [KemNext]_kemVars => KemInv'
  BY KeypairStep, EncapsulateStep, AlterStep, DecapsulateStep, KemStutter
     DEF KemNext
<1> QED
  BY <1>1, KemInvInitially, PTL DEF KemSpec

-----------------------------------------------------------------------------
(* A ciphertext that encrypts again to itself was made by the encapsulation it decrypts to. *)
LEMMA OnlySentMatches ==
    ASSUME KemInv, NEW k \in DOMAIN pairs, NEW c \in Ciphertexts, NEW m,
           c = indcpa_enc(m, pairs[k].pk, Coins(k, m).hi)
    PROVE  \E s \in sent : s.key = k /\ s.ct = c
<1>1. c.v = <<"v", pairs[k].pk, Coins(k, m).hi, m>>
  BY DEF indcpa_enc
<1>2. PICK s \in sent : s.ct.v = c.v
  BY <1>1 DEF KemInv, OnTheWire, MadeBySender
<1>3. PICK j \in DOMAIN pairs, n \in 1..drawn : s = Encapsulated(j, hash_h(<<"random", n>>))
  BY DEF KemInv, SentRight
<1>4. PICK x : x = hash_h(<<"random", n>>)
  OBVIOUS
<1>5. s.key = j /\ s.ct = indcpa_enc(x, pairs[j].pk, Coins(j, x).hi)
  BY <1>3, <1>4 DEF Encapsulated
<1>6. s.ct.v = <<"v", pairs[j].pk, Coins(j, x).hi, x>>
  BY <1>5 DEF indcpa_enc
<1>7. pairs[j].pk = pairs[k].pk /\ Coins(j, x).hi = Coins(k, m).hi /\ x = m
  BY <1>1, <1>2, <1>6
<1>8. j = k
  <2>1. pairs[j].seed = pairs[k].seed
    BY <1>7, SecretKeyFields, Injective DEF KemInv
  <2> QED
    BY <2>1 DEF KemInv, PairsRight
<1> QED
  BY <1>5, <1>7, <1>8

(* A pre-key tells the key pair it belongs to. *)
LEMMA PreKeyOfOne ==
    ASSUME KemInv, NEW j \in DOMAIN pairs, NEW k \in DOMAIN pairs, NEW c,
           PreKey(j, c) = PreKey(k, c)
    PROVE  j = k
<1>1. \A i \in DOMAIN pairs :
          \/ \E m : PreKey(i, c) = <<"g lo", [lo |-> m, hi |-> pairs[i].hpk]>>
          \/ PreKey(i, c) = pairs[i].z
  BY DEF PreKey, Coins, Derive, hash_g
<1>2. PICK n, p \in Nat : /\ pairs[j].z = <<"random", n>> /\ pairs[k].z = <<"random", p>>
                          /\ pairs[j].hpk = hash_h(Public(pairs[j].seed))
                          /\ pairs[k].hpk = hash_h(Public(pairs[k].seed))
  <2>1. \A i \in DOMAIN pairs : \E n \in Nat : /\ pairs[i].z = <<"random", n>>
                                              /\ pairs[i].hpk = hash_h(Public(pairs[i].seed))
    BY SecretKeyFields DEF KemInv
  <2> QED
    BY <2>1
<1>3. CASE PreKey(j, c) = pairs[j].z /\ PreKey(k, c) = pairs[k].z
  BY <1>3 DEF KemInv, PairsRight
<1>4. CASE /\ \E m : PreKey(j, c) = <<"g lo", [lo |-> m, hi |-> pairs[j].hpk]>>
           /\ \E m : PreKey(k, c) = <<"g lo", [lo |-> m, hi |-> pairs[k].hpk]>>
  <2>1. PICK a : PreKey(j, c) = <<"g lo", [lo |-> a, hi |-> pairs[j].hpk]>>
    BY <1>4
  <2>2. PICK b : PreKey(k, c) = <<"g lo", [lo |-> b, hi |-> pairs[k].hpk]>>
    BY <1>4
  <2>3. [lo |-> a, hi |-> pairs[j].hpk] = [lo |-> b, hi |-> pairs[k].hpk]
    <3> DEFINE x == [lo |-> a, hi |-> pairs[j].hpk]
               y == [lo |-> b, hi |-> pairs[k].hpk]
    <3>1. <<"g lo", x>> = <<"g lo", y>>
      BY <2>1, <2>2
    <3>2. x = y
      <4> HIDE DEF x, y
      <4> QED
        BY <3>1, PairInjective
    <3> QED
      BY <3>2
  <2>4. Public(pairs[j].seed) = Public(pairs[k].seed)
    BY <1>2, <2>3, Injective
  <2>5. pairs[j].seed = pairs[k].seed
    BY <2>4, Injective
  <2> QED
    BY <2>5 DEF KemInv, PairsRight
<1>5. \A m, b : <<"g lo", m>> # <<"random", b>>
  OBVIOUS
<1> QED
  BY <1>1, <1>2, <1>3, <1>4, <1>5

(***************************************************************************)
(* Two secrets are the same exactly if they belong to the same ciphertext  *)
(* and key, on whichever side they were computed (kem.c:69-72, 117-124).   *)
(***************************************************************************)
LEMMA SecretsAgree == KemInv => SameSecretSameCiphertext
<1> SUFFICES ASSUME KemInv, NEW x \in sent \cup received, NEW y \in sent \cup received
             PROVE  x.ss = y.ss <=> x.key = y.key /\ x.ct = y.ct
  BY DEF SameSecretSameCiphertext
<1>1. \A r \in sent \cup received :
          r.key \in DOMAIN pairs /\ r.ss = Secret(PreKey(r.key, r.ct), r.ct)
  <2>1. TAKE r \in sent \cup received
  <2>2. CASE r \in received
    BY <2>2 DEF KemInv, ReceivedRight
  <2>3. CASE r \in sent
    <3>1. PICK k \in DOMAIN pairs, n \in 1..drawn :
              r = Encapsulated(k, hash_h(<<"random", n>>))
      BY <2>3 DEF KemInv, SentRight
    <3> QED
      BY <3>1, SentPreKey DEF KemInv
  <2> QED
    BY <2>2, <2>3
<1>2. ASSUME x.ss = y.ss PROVE x.key = y.key /\ x.ct = y.ct
  <2>1. PreKey(x.key, x.ct) = PreKey(y.key, y.ct) /\ x.ct = y.ct
    BY <1>1, <1>2, Injective
  <2> QED
    BY <1>1, <2>1, PreKeyOfOne
<1>3. ASSUME x.key = y.key, x.ct = y.ct PROVE x.ss = y.ss
  BY <1>1, <1>3
<1> QED
  BY <1>2, <1>3

LEMMA RejectionsSecret == KemInv => RejectionIsSecret
<1> SUFFICES ASSUME KemInv, NEW r \in received,
                    ~\E s \in sent : s.key = r.key /\ s.ct = r.ct,
                    NEW x \in Known(r.key)
             PROVE  r.ss # Secret(x, r.ct)
  BY DEF RejectionIsSecret
<1>1. r.key \in DOMAIN pairs /\ r.ct \in Ciphertexts
      /\ r.ss = Secret(PreKey(r.key, r.ct), r.ct)
  BY DEF KemInv, ReceivedRight
<1>2. PreKey(r.key, r.ct) = pairs[r.key].z
  BY <1>1, OnlySentMatches DEF PreKey
<1>3. PICK n \in Nat : /\ pairs[r.key].z = <<"random", n>>
                       /\ pairs[r.key].pk = Public(pairs[r.key].seed)
                       /\ pairs[r.key].hpk = hash_h(pairs[r.key].pk)
  <2>1. \E n \in Nat : /\ pairs[r.key].z = <<"random", n + 1>>
                       /\ pairs[r.key].pk = Public(pairs[r.key].seed)
                       /\ pairs[r.key].hpk = hash_h(pairs[r.key].pk)
    BY <1>1, SecretKeyFields DEF KemInv
  <2> QED
    BY <2>1
<1>4. x # <<"random", n>>
  <2>1. CASE x = pairs[r.key].pk
    BY <1>3, <2>1 DEF Public
  <2>2. CASE x = pairs[r.key].hpk
    BY <1>3, <2>2 DEF hash_h
  <2>3. CASE \E e \in encryptions : x = e.m
    <3>1. IsMessage(x)
      BY <2>3 DEF KemInv, EncryptionsRight
    <3> QED
      BY <3>1 DEF IsMessage
  <2>4. CASE \E e \in encryptions : x = Derive([lo |-> e.m, hi |-> pairs[r.key].hpk]).lo
    <3>1. \E y : x = <<"g lo", y>>
      BY <2>4 DEF Derive, hash_g
    <3>2. "g lo" # "random"
      OBVIOUS
    <3> QED
      BY <3>1, <3>2, PairInjective
  <2> QED
    BY <2>1, <2>2, <2>3, <2>4 DEF Known
<1> QED
  BY <1>1, <1>2, <1>3, <1>4, Injective

(***************************************************************************)
(* Two parties share a secret exactly if the ciphertext arrived as the one *)
(* sent it to the other's key, however often each encapsulates and         *)
(* decapsulates and whatever becomes of the ciphertexts on the way; one    *)
(* that was altered is answered with a secret nothing known yields         *)
(* (kem.c:62-72, 107-124).                                                 *)
(***************************************************************************)
THEOREM SecretsRight == KemSpec => []SecretIffIntact
<1>1. KemInv => SecretIffIntact
  BY SecretsAgree, RejectionsSecret DEF SecretIffIntact
<1> QED
  BY <1>1, KemInvariant, PTL

(***************************************************************************)
(* No two messages are encrypted with the same coins under a public key,   *)
(* by encapsulating or by decapsulating what was altered (kem.c:62-67,     *)
(* 107-113).                                                               *)
(***************************************************************************)
THEOREM CoinsForOneMessage == KemSpec => []CoinsPerMessage
<1>1. KemInv => CoinsPerMessage
  <2> SUFFICES ASSUME KemInv, NEW x \in encryptions, NEW y \in encryptions,
                      x.pk = y.pk, x.coins = y.coins
               PROVE  x.m = y.m
    BY DEF CoinsPerMessage
  <2>1. PICK j \in DOMAIN pairs : x.coins = Coins(j, x.m).hi
    BY DEF KemInv, EncryptionsRight
  <2>2. PICK k \in DOMAIN pairs : y.coins = Coins(k, y.m).hi
    BY DEF KemInv, EncryptionsRight
  <2>3. [lo |-> x.m, hi |-> pairs[j].hpk] = [lo |-> y.m, hi |-> pairs[k].hpk]
    <3>1. hash_g([lo |-> x.m, hi |-> pairs[j].hpk]).hi
            = hash_g([lo |-> y.m, hi |-> pairs[k].hpk]).hi
      BY <2>1, <2>2 DEF Coins, Derive
    <3> QED
      BY <3>1, Injective
  <2> QED
    BY <2>3
<1> QED
  BY <1>1, KemInvariant, PTL

-----------------------------------------------------------------------------
(* Induction over the numbers, as a fact about sets. *)
LEMMA SetInduction ==
    ASSUME NEW S, 0 \in S, \A n \in Nat : n \in S => n + 1 \in S
    PROVE  Nat \subseteq S
<1> SUFFICES ASSUME Nat \ S # {} PROVE FALSE
  OBVIOUS
<1>1. IsWellFoundedOn(OpToRel(<, Nat), Nat)
  BY NatLessThanWellFounded
<1>2. PICK n \in Nat \ S : \A m \in Nat \ S : ~(<<m, n>> \in OpToRel(<, Nat))
  BY <1>1, WFMin
<1>3. \A m \in Nat \ S : ~(m < n)
  BY <1>2 DEF OpToRel
<1>4. n # 0 /\ n - 1 \in Nat /\ n - 1 < n /\ (n - 1) + 1 = n
  OBVIOUS
<1> QED
  BY <1>3, <1>4

LEMMA LargestLast ==
    ASSUME NEW n \in Nat, NEW x \in SUBSET (1..(n + 1)), n + 1 \in x
    PROVE  Max(x) = n + 1
<1>1. \A y \in x : n + 1 >= y
  OBVIOUS
<1>2. \A z \in x : (\A y \in x : z >= y) => z = n + 1
  BY <1>1
<1> QED
  BY <1>1, <1>2 DEF Max

-----------------------------------------------------------------------------
(***************************************************************************)
(* The operations that the calls fold over bytes or blocks, each a step    *)
(* from a state s over an element x: a byte taken, a byte given, a byte of *)
(* the rest and a whole block of data taken by Ascon, a block it gives; and *)
(* a block of the transform, in the build data.                             *)
(***************************************************************************)
BlockAt(data, b) == [i \in 0..(RATE - 1) |-> {data[b * RATE + i + 1]}]

FoldStep(op, data, s, x) ==
    CASE op = "take"  -> TakeByte(s, x)
      [] op = "give"  -> GiveByte(s, x)
      [] op = "rest"  -> XorByte(s, x, {data[RATE * AsconBlocks(data) + x + 1]})
      [] op = "block" -> Permute([s EXCEPT !.in = BlockAt(data, x)])
      [] op = "ntt"   -> NttStep(data, s)
      [] op = "more"  -> LET d == Permute(s.state)
                         IN  [state |-> d, out |-> s.out \o [i \in 1..RATE |-> ByteAt(d, i - 1)]]

(* What a fold is defined by, a function on sets of places. *)
Folded(op, data, t, xs, f, n) ==
    f = [x \in SUBSET (1..n) |->
            IF x = {} THEN t ELSE FoldStep(op, data, f[x \ {Max(x)}], xs[Max(x)])]

LEMMA FoldExists ==
    ASSUME NEW op, NEW data, NEW t, NEW xs
    PROVE  \A n \in Nat : \E f : Folded(op, data, t, xs, f, n)
<1> DEFINE S == {n \in Nat : \E f : Folded(op, data, t, xs, f, n)}
<1>1. 0 \in S
  <2>1. Folded(op, data, t, xs, [x \in SUBSET (1..0) |-> t], 0)
    BY DEF Folded
  <2> QED
    BY <2>1
<1>2. ASSUME NEW n \in Nat, n \in S PROVE n + 1 \in S
  <2>1. PICK f : Folded(op, data, t, xs, f, n)
    BY <1>2
  <2> DEFINE g == [x \in SUBSET (1..(n + 1)) |->
                    IF n + 1 \in x THEN FoldStep(op, data, f[x \ {n + 1}], xs[n + 1]) ELSE f[x]]
  <2>2. \A x \in SUBSET (1..(n + 1)) : n + 1 \notin x => x \in SUBSET (1..n)
    OBVIOUS
  <2>3. ASSUME NEW x \in SUBSET (1..(n + 1))
        PROVE  g[x] = IF x = {} THEN t ELSE FoldStep(op, data, g[x \ {Max(x)}], xs[Max(x)])
    <3>1. CASE n + 1 \in x
      <4>1. Max(x) = n + 1 /\ x # {}
        BY <3>1, LargestLast
      <4>2. x \ {n + 1} \in SUBSET (1..n) /\ n + 1 \notin x \ {n + 1}
        BY <2>2
      <4>3. g[x \ {n + 1}] = f[x \ {n + 1}]
        BY <4>2
      <4> QED
        BY <3>1, <4>1, <4>3
    <3>2. CASE n + 1 \notin x
      <4>1. x \in SUBSET (1..n) /\ x \ {Max(x)} \in SUBSET (1..(n + 1))
        BY <2>2, <3>2
      <4>2. f[x] = IF x = {} THEN t ELSE FoldStep(op, data, f[x \ {Max(x)}], xs[Max(x)])
        BY <2>1, <4>1 DEF Folded
      <4>3. g[x \ {Max(x)}] = f[x \ {Max(x)}]
        BY <3>2, <4>1
      <4> QED
        BY <3>2, <4>2, <4>3
    <3> QED
      BY <3>1, <3>2
  <2>4. Folded(op, data, t, xs, g, n + 1)
    BY <2>3 DEF Folded
  <2> QED
    BY <2>4
<1> HIDE DEF S
<1>3. Nat \subseteq S
  BY <1>1, <1>2, SetInduction
<1> QED
  BY <1>3 DEF S

(* A fold goes through the elements of its sequence in order. *)
Runs(op, data, t, xs, u, n) ==
    /\ u[0] = t
    /\ \A k \in 0..(n - 1) : u[k + 1] = FoldStep(op, data, u[k], xs[k + 1])

LEMMA FoldRuns ==
    ASSUME NEW op, NEW data, NEW t, NEW xs, NEW n \in Nat, NEW f, Folded(op, data, t, xs, f, n)
    PROVE  \E u : Runs(op, data, t, xs, u, n) /\ u[n] = f[1..n]
<1> DEFINE u == [k \in 0..n |-> f[1..k]]
<1>1. \A x \in SUBSET (1..n) :
          f[x] = IF x = {} THEN t ELSE FoldStep(op, data, f[x \ {Max(x)}], xs[Max(x)])
  BY DEF Folded
<1>2. u[0] = t
  <2>1. 1..0 = {} /\ 1..0 \in SUBSET (1..n)
    OBVIOUS
  <2>2. f[{}] = t
    BY <1>1
  <2>3. u[0] = f[1..0]
    OBVIOUS
  <2> QED
    BY <2>1, <2>2, <2>3
<1>3. ASSUME NEW k \in 0..(n - 1) PROVE u[k + 1] = FoldStep(op, data, u[k], xs[k + 1])
  <2>1. 1..(k + 1) \in SUBSET (1..n) /\ k + 1 \in 1..(k + 1) /\ k + 1 \in 0..n /\ k \in 0..n
    OBVIOUS
  <2>2. Max(1..(k + 1)) = k + 1
    <3>1. k \in Nat /\ 1..(k + 1) \in SUBSET (1..(k + 1))
      OBVIOUS
    <3> QED
      BY <2>1, <3>1, LargestLast
  <2>3. (1..(k + 1)) \ {k + 1} = 1..k
    OBVIOUS
  <2>4. f[1..(k + 1)] = FoldStep(op, data, f[(1..(k + 1)) \ {k + 1}], xs[k + 1])
    BY <1>1, <2>1, <2>2
  <2> QED
    BY <2>1, <2>3, <2>4
<1>4. u[n] = f[1..n]
  OBVIOUS
<1> HIDE DEF u
<1> QED
  BY <1>2, <1>3, <1>4 DEF Runs

(* Each of the calls' folds. *)
LEMMA UpdateRuns ==
    ASSUME NEW t, NEW n \in Nat, NEW data, DOMAIN data = 1..n
    PROVE  \E u : Runs("take", <<>>, t, data, u, n) /\ sha3_update(t, data) = u[n]
<1> DEFINE Chain(g) == g = [x \in SUBSET (1..n) |->
                             IF x = {} THEN t ELSE TakeByte(g[x \ {Max(x)}], data[Max(x)])]
           f == CHOOSE g : Chain(g)
<1>1. PICK g : Folded("take", <<>>, t, data, g, n)
  BY FoldExists
<1>2. Chain(g)
  BY <1>1 DEF Folded, FoldStep
<1>3. Chain(f)
  BY <1>2
<1>4. sha3_update(t, data) = f[1..n]
  BY DEF sha3_update, FoldLeft, MapThenFoldSet
<1>5. Folded("take", <<>>, t, data, f, n)
  BY <1>3 DEF Folded, FoldStep
<1> HIDE DEF f
<1> QED
  BY <1>4, <1>5, FoldRuns

LEMMA OutRuns ==
    ASSUME NEW c, NEW n \in Nat
    PROVE  \E u : /\ Runs("give", <<>>, [state |-> c, out |-> <<>>],
                          [i \in 1..n |-> i], u, n)
                  /\ shake_out(c, n) = u[n]
<1> DEFINE xs == [i \in 1..n |-> i]
           Chain(g) == g = [x \in SUBSET (1..n) |->
                             IF x = {} THEN [state |-> c, out |-> <<>>]
                             ELSE GiveByte(g[x \ {Max(x)}], xs[Max(x)])]
           f == CHOOSE g : Chain(g)
<1>1. PICK g : Folded("give", <<>>, [state |-> c, out |-> <<>>], xs, g, n)
  BY FoldExists
<1>2. Chain(g)
  BY <1>1 DEF Folded, FoldStep
<1>3. Chain(f)
  BY <1>2
<1>4. shake_out(c, n) = f[1..n]
  BY DEF shake_out, FoldLeft, MapThenFoldSet
<1>5. Folded("give", <<>>, [state |-> c, out |-> <<>>], xs, f, n)
  BY <1>3 DEF Folded, FoldStep
<1> HIDE DEF f, xs
<1>6. PICK u : Runs("give", <<>>, [state |-> c, out |-> <<>>], xs, u, n) /\ u[n] = f[1..n]
  BY <1>5, FoldRuns
<1> QED
  BY <1>4, <1>6 DEF xs

LEMMA RestRuns ==
    ASSUME NEW c, NEW data, NEW n \in Nat, n = Len(data) - RATE * AsconBlocks(data)
    PROVE  \E u : /\ Runs("rest", data, c,
                          [i \in 1..n |-> i - 1], u, n)
                  /\ AbsorbRest(c, data) = u[n]
<1> DEFINE xs == [i \in 1..n |-> i - 1]
           Chain(g) == g = [x \in SUBSET (1..n) |->
                             IF x = {} THEN c ELSE
                                XorByte(g[x \ {Max(x)}], xs[Max(x)],
                                        {data[RATE * AsconBlocks(data) + xs[Max(x)] + 1]})]
           f == CHOOSE g : Chain(g)
<1>1. PICK g : Folded("rest", data, c, xs, g, n)
  BY FoldExists
<1>2. Chain(g)
  BY <1>1 DEF Folded, FoldStep
<1>3. Chain(f)
  BY <1>2
<1>4. AbsorbRest(c, data) = f[1..n]
  BY DEF AbsorbRest, FoldLeft, MapThenFoldSet
<1>5. Folded("rest", data, c, xs, f, n)
  BY <1>3 DEF Folded, FoldStep
<1> HIDE DEF f, xs
<1>6. PICK u : Runs("rest", data, c, xs, u, n) /\ u[n] = f[1..n]
  BY <1>5, FoldRuns
<1> QED
  BY <1>4, <1>6 DEF xs

LEMMA BlocksRuns ==
    ASSUME NEW data, NEW n \in Nat, n = AsconBlocks(data)
    PROVE  \E u : /\ Runs("block", data, [perms |-> <<>>, in |-> Nothing],
                          [b \in 1..n |-> b - 1], u, n)
                  /\ AbsorbBlocks(data) = u[n]
<1> DEFINE xs == [b \in 1..n |-> b - 1]
           Chain(g) == g = [x \in SUBSET (1..n) |->
                             IF x = {} THEN [perms |-> <<>>, in |-> Nothing] ELSE
                                Permute([g[x \ {Max(x)}] EXCEPT !.in = BlockAt(data, xs[Max(x)])])]
           f == CHOOSE g : Chain(g)
<1>1. PICK g : Folded("block", data, [perms |-> <<>>, in |-> Nothing], xs, g, n)
  BY FoldExists
<1>2. Chain(g)
  BY <1>1 DEF Folded, FoldStep
<1>3. Chain(f)
  BY <1>2
<1>4. AbsorbBlocks(data) = f[1..n]
  BY DEF AbsorbBlocks, BlockAt, FoldLeft, MapThenFoldSet
<1>5. Folded("block", data, [perms |-> <<>>, in |-> Nothing], xs, f, n)
  BY <1>3 DEF Folded, FoldStep
<1> HIDE DEF f, xs
<1>6. PICK u : Runs("block", data, [perms |-> <<>>, in |-> Nothing], xs, u, n) /\ u[n] = f[1..n]
  BY <1>5, FoldRuns
<1> QED
  BY <1>4, <1>6 DEF xs

LEMMA MoreRuns ==
    ASSUME NEW c, NEW len \in Nat, NEW n \in Nat,
           n = IF len > RATE THEN (len - 1) \div RATE ELSE 0
    PROVE  \E u : /\ Runs("more", <<>>, GiveBlocks(c, 1),
                          [b \in 1..n |-> b], u, n)
                  /\ ascon_hash_squeeze(c, len) = u[n]
<1> DEFINE xs == [b \in 1..n |-> b]
           Chain(g) == g = [x \in SUBSET (1..n) |->
                             IF x = {} THEN GiveBlocks(c, 1) ELSE
                                [state |-> Permute(g[x \ {Max(x)}].state),
                                 out |-> g[x \ {Max(x)}].out \o [i \in 1..RATE |->
                                            ByteAt(Permute(g[x \ {Max(x)}].state), i - 1)]]]
           f == CHOOSE g : Chain(g)
<1>1. PICK g : Folded("more", <<>>, GiveBlocks(c, 1), xs, g, n)
  BY FoldExists
<1>2. Chain(g)
  BY <1>1 DEF Folded, FoldStep
<1>3. Chain(f)
  BY <1>2
<1>4. ascon_hash_squeeze(c, len) = f[1..n]
  BY DEF ascon_hash_squeeze, FoldLeft, MapThenFoldSet
<1>5. Folded("more", <<>>, GiveBlocks(c, 1), xs, f, n)
  BY <1>3 DEF Folded, FoldStep
<1> HIDE DEF f, xs
<1>6. PICK u : Runs("more", <<>>, GiveBlocks(c, 1), xs, u, n) /\ u[n] = f[1..n]
  BY <1>5, FoldRuns
<1> QED
  BY <1>4, <1>6 DEF xs

-----------------------------------------------------------------------------
(* Contexts, field by field. *)
Context(ps, in, pt) == [perms |-> ps, in |-> in, pt |-> pt]

LEMMA ContextParts ==
    ASSUME NEW ps, NEW in, NEW pt
    PROVE  /\ Context(ps, in, pt).perms = ps
           /\ Context(ps, in, pt).in = in
           /\ Context(ps, in, pt).pt = pt
BY DEF Context

LEMMA ContextPermuted ==
    ASSUME NEW ps, NEW in, NEW pt
    PROVE  Permute(Context(ps, in, pt)) = Context(Append(ps, in), Nothing, pt)
<1> DEFINE d == Permute(Context(ps, in, pt))
<1>1. d \in [perms : {Append(ps, in)}, in : {Nothing}, pt : {pt}]
  BY DEF Permute, Context
<1>2. d = [perms |-> d.perms, in |-> d.in, pt |-> d.pt]
  <2> HIDE DEF d
  <2> QED
    BY <1>1
<1> QED
  BY <1>1, <1>2 DEF Context

XoredAt(in, place, b) == [in EXCEPT ![place] = Xor(@, b)]

LEMMA ContextXored ==
    ASSUME NEW ps, NEW in, NEW pt, NEW place, NEW b
    PROVE  XorByte(Context(ps, in, pt), place, b) = Context(ps, XoredAt(in, place, b), pt)
<1>1. PICK c : c = Context(ps, in, pt)
  OBVIOUS
<1>2. c = [perms |-> ps, in |-> in, pt |-> pt]
  BY <1>1 DEF Context
<1>3. XorByte(c, place, b) = [c EXCEPT !.in = XoredAt(in, place, b)]
  BY <1>2 DEF XorByte, XoredAt
<1>4. [c EXCEPT !.in = XoredAt(in, place, b)]
        = [perms |-> ps, in |-> XoredAt(in, place, b), pt |-> pt]
  BY <1>2
<1> QED
  BY <1>1, <1>3, <1>4 DEF Context

MovedTo(c, q) == [c EXCEPT !.pt = q]

LEMMA ContextAt ==
    ASSUME NEW ps, NEW in, NEW pt, NEW q
    PROVE  MovedTo(Context(ps, in, pt), q) = Context(ps, in, q)
<1>1. PICK c : c = Context(ps, in, pt)
  OBVIOUS
<1>2. c = [perms |-> ps, in |-> in, pt |-> pt]
  BY <1>1 DEF Context
<1>3. [c EXCEPT !.pt = q] = [perms |-> ps, in |-> in, pt |-> q]
  BY <1>2
<1> QED
  BY <1>1, <1>3 DEF Context, MovedTo

(* A byte taken, in these terms. *)
LEMMA ByteTaken ==
    ASSUME NEW ps, NEW in, NEW pt \in Nat, NEW b, NEW i, i = XoredAt(in, pt, {b})
    PROVE  TakeByte(Context(ps, in, pt), b)
             = IF pt + 1 >= RATE THEN Context(Append(ps, i), Nothing, 0)
               ELSE Context(ps, i, pt + 1)
<1>1. PICK c : c = Context(ps, in, pt)
  OBVIOUS
<1>2. c.pt = pt
  BY <1>1, ContextParts
<1>3. PICK d : d = XorByte(c, c.pt, {b})
  OBVIOUS
<1>4. d = Context(ps, i, pt)
  BY <1>1, <1>2, <1>3, ContextXored
<1>5. Permute(d) = Context(Append(ps, i), Nothing, pt)
  BY <1>4, ContextPermuted
<1>6. d.pt = pt
  BY <1>4, ContextParts
<1>7. TakeByte(c, b) = IF pt + 1 >= RATE THEN MovedTo(Permute(d), 0) ELSE MovedTo(d, pt + 1)
  BY <1>2, <1>3, <1>6 DEF TakeByte, MovedTo
<1>8. MovedTo(Permute(d), 0) = Context(Append(ps, i), Nothing, 0)
  BY <1>5, ContextAt
<1>9. MovedTo(d, pt + 1) = Context(ps, i, pt + 1)
  BY <1>4, ContextAt
<1> QED
  BY <1>1, <1>7, <1>8, <1>9

-----------------------------------------------------------------------------
(* Blocks and places within them. *)
LEMMA Rate == RATE \in Nat /\ RATE > 0
BY XofAssumption

LEMMA PlaceParts ==
    ASSUME NEW n \in Nat
    PROVE  \E q \in Nat, r \in 0..(RATE - 1) :
              n \div RATE = q /\ (n % RATE) = r /\ n = RATE * q + r
BY Rate, Z3

LEMMA PlaceUnique ==
    ASSUME NEW q \in Nat, NEW r \in 0..(RATE - 1), NEW n, n = RATE * q + r
    PROVE  n \div RATE = q /\ (n % RATE) = r /\ n \in Nat
BY Rate, Z3

(* The bytes of the blocks before block q come before those of block q. *)
LEMMA BlocksBefore ==
    ASSUME NEW q \in Nat, NEW b \in 0..(q - 1), NEW i \in 0..(RATE - 1)
    PROVE  b * RATE + i \in 0..(RATE * q - 1)
<1>1. b * RATE + RATE <= q * RATE
  <2>1. q - 1 - b \in Nat
    OBVIOUS
  <2>2. (q - 1 - b) * RATE \in Nat
    BY <2>1, Rate
  <2>3. (q - 1 - b) * RATE = q * RATE - RATE - b * RATE
    BY Rate, Z3
  <2>4. q * RATE \in Nat /\ b * RATE \in Nat
    BY Rate
  <2> QED
    BY <2>2, <2>3, <2>4, Rate
<1>2. b * RATE \in Nat /\ q * RATE = RATE * q /\ RATE * q \in Nat
  BY Rate, Z3
<1> QED
  BY <1>1, <1>2, Rate

LEMMA SameSequence ==
    ASSUME NEW A, NEW s \in Seq(A), NEW n \in Nat, Len(s) = n,
           NEW t \in [1..n -> A], \A i \in 1..n : s[i] = t[i]
    PROVE  s = t
<1>1. s \in [1..n -> A]
  BY LenProperties
<1> QED
  BY <1>1

LEMMA Appended ==
    ASSUME NEW A, NEW n \in Nat, NEW s \in [1..n -> A], NEW e \in A
    PROVE  Append(s, e) = [b \in 1..(n + 1) |-> IF b <= n THEN s[b] ELSE e]
<1>1. s \in Seq(A) /\ Len(s) = n
  OBVIOUS
<1> DEFINE t == [b \in 1..(n + 1) |-> IF b <= n THEN s[b] ELSE e]
<1>2. t \in [1..(n + 1) -> A]
  OBVIOUS
<1>3. Append(s, e) \in Seq(A) /\ Len(Append(s, e)) = n + 1
  BY <1>1
<1>4. \A b \in 1..(n + 1) : Append(s, e)[b] = t[b]
  BY <1>1
<1> HIDE DEF t
<1>5. Append(s, e) = t
  BY <1>2, <1>3, <1>4, SameSequence
<1> QED
  BY <1>5 DEF t

-----------------------------------------------------------------------------
(***************************************************************************)
(* What a context has taken of a message: the blocks that are full, and    *)
(* what there is of the next.                                              *)
(***************************************************************************)
States == [0..(RATE - 1) -> SUBSET Nat]

FullBlocks(m) == [b \in 1..(Len(m) \div RATE) |-> BlockAt(m, b - 1)]

PartOf(m) ==
    [i \in 0..(RATE - 1) |->
        IF i < Len(m) % RATE THEN {m[(Len(m) \div RATE) * RATE + i + 1]} ELSE {}]

Taken(m) == Context(FullBlocks(m), PartOf(m), Len(m) % RATE)

LEMMA MessageParts ==
    ASSUME NEW m \in Seq(Nat)
    PROVE  \E q \in Nat, r \in 0..(RATE - 1) :
              /\ Len(m) \div RATE = q /\ (Len(m) % RATE) = r
              /\ Len(m) = RATE * q + r /\ Len(m) = q * RATE + r
              /\ Len(m) \in Nat /\ \A k \in 1..Len(m) : m[k] \in Nat
<1>1. Len(m) \in Nat /\ \A k \in 1..Len(m) : m[k] \in Nat
  OBVIOUS
<1>2. PICK q \in Nat, r \in 0..(RATE - 1) :
          Len(m) \div RATE = q /\ (Len(m) % RATE) = r /\ Len(m) = RATE * q + r
  BY <1>1, PlaceParts
<1>3. RATE * q = q * RATE
  BY Rate, Z3
<1> QED
  BY <1>1, <1>2, <1>3

(* The places of a full block are places of the message. *)
LEMMA FullPlaces ==
    ASSUME NEW q \in Nat, NEW b \in 1..q, NEW i \in 0..(RATE - 1)
    PROVE  (b - 1) * RATE + i \in Nat /\ (b - 1) * RATE + i < q * RATE
<1>1. b - 1 \in 0..(q - 1)
  OBVIOUS
<1>2. (b - 1) * RATE + i \in 0..(RATE * q - 1)
  BY <1>1, BlocksBefore
<1>3. RATE * q = q * RATE /\ RATE * q \in Nat
  BY Rate, Z3
<1> QED
  BY <1>2, <1>3

LEMMA BlocksType ==
    ASSUME NEW m \in Seq(Nat)
    PROVE  /\ FullBlocks(m) \in [1..(Len(m) \div RATE) -> States]
           /\ PartOf(m) \in States
<1>1. PICK q \in Nat, r \in 0..(RATE - 1) :
          /\ Len(m) \div RATE = q /\ (Len(m) % RATE) = r
          /\ Len(m) = RATE * q + r /\ Len(m) = q * RATE + r
          /\ Len(m) \in Nat /\ \A k \in 1..Len(m) : m[k] \in Nat
  BY MessageParts
<1>2. q * RATE \in Nat
  BY Rate
<1>3. ASSUME NEW b \in 1..q PROVE BlockAt(m, b - 1) \in States
  <2>1. ASSUME NEW i \in 0..(RATE - 1) PROVE {m[(b - 1) * RATE + i + 1]} \in SUBSET Nat
    <3>1. (b - 1) * RATE + i \in Nat /\ (b - 1) * RATE + i < q * RATE
      BY FullPlaces
    <3>2. (b - 1) * RATE + i + 1 \in 1..Len(m)
      BY <1>1, <1>2, <3>1
    <3> QED
      BY <1>1, <3>2
  <2> QED
    BY <2>1 DEF BlockAt, States
<1>4. ASSUME NEW i \in 0..(RATE - 1), i < r PROVE {m[q * RATE + i + 1]} \in SUBSET Nat
  <2>1. q * RATE + i + 1 \in 1..Len(m)
    BY <1>1, <1>2, <1>4
  <2> QED
    BY <1>1, <2>1
<1>5. PartOf(m) \in States
  BY <1>1, <1>4 DEF PartOf, States
<1>6. FullBlocks(m) \in [1..q -> States]
  BY <1>1, <1>3 DEF FullBlocks
<1> QED
  BY <1>1, <1>5, <1>6

LEMMA BytesAppended ==
    ASSUME NEW m \in Seq(Nat), NEW b \in Nat
    PROVE  /\ Append(m, b) \in Seq(Nat) /\ Len(Append(m, b)) = Len(m) + 1
           /\ \A k \in 1..Len(m) : Append(m, b)[k] = m[k]
           /\ Append(m, b)[Len(m) + 1] = b
  OBVIOUS

(* The place is free until the byte is taken. *)
PartWith(m, S) ==
    [i \in 0..(RATE - 1) |->
        IF i < Len(m) % RATE THEN {m[(Len(m) \div RATE) * RATE + i + 1]}
        ELSE IF i = Len(m) % RATE THEN S ELSE {}]

LEMMA PartWithByte ==
    ASSUME NEW m \in Seq(Nat), NEW S
    PROVE  XoredAt(PartOf(m), Len(m) % RATE, S) = PartWith(m, S)
<1>1. PICK r \in 0..(RATE - 1) : (Len(m) % RATE) = r
  BY MessageParts
<1>2. Xor({}, S) = S
  BY DEF Xor
<1>3. PartOf(m)[r] = {}
  BY <1>1 DEF PartOf
<1> QED
  BY <1>1, <1>2, <1>3 DEF XoredAt, PartOf, PartWith

(* A byte taken is a byte more of the message. *)
LEMMA TakesOneMore ==
    ASSUME NEW m \in Seq(Nat), NEW b \in Nat
    PROVE  TakeByte(Taken(m), b) = Taken(Append(m, b))
<1> DEFINE n == Append(m, b)
<1>1. PICK q \in Nat, r \in 0..(RATE - 1) :
          /\ Len(m) \div RATE = q /\ (Len(m) % RATE) = r
          /\ Len(m) = RATE * q + r /\ Len(m) = q * RATE + r
          /\ Len(m) \in Nat /\ \A k \in 1..Len(m) : m[k] \in Nat
  BY MessageParts
<1>2. /\ n \in Seq(Nat) /\ Len(n) = Len(m) + 1
      /\ \A k \in 1..Len(m) : n[k] = m[k]
      /\ n[Len(m) + 1] = b
  BY BytesAppended
<1> HIDE DEF n
<1>3. q * RATE \in Nat /\ RATE * q = q * RATE
  BY <1>1, Rate
<1>4. PICK in : in = XoredAt(PartOf(m), r, {b})
  OBVIOUS
<1>5. in = [i \in 0..(RATE - 1) |-> IF i < r THEN {m[q * RATE + i + 1]}
                                    ELSE IF i = r THEN {b} ELSE {}]
  <2>1. in = PartWith(m, {b})
    BY <1>1, <1>4, PartWithByte
  <2> QED
    BY <1>1, <2>1 DEF PartWith
<1>6. TakeByte(Taken(m), b)
        = IF r + 1 >= RATE THEN Context(Append(FullBlocks(m), in), Nothing, 0)
          ELSE Context(FullBlocks(m), in, r + 1)
  BY <1>1, <1>4, ByteTaken DEF Taken
<1>7. \A c \in 1..q : BlockAt(n, c - 1) = BlockAt(m, c - 1)
  <2> SUFFICES ASSUME NEW c \in 1..q, NEW i \in 0..(RATE - 1)
               PROVE  n[(c - 1) * RATE + i + 1] = m[(c - 1) * RATE + i + 1]
    BY DEF BlockAt
  <2>1. (c - 1) * RATE + i \in Nat /\ (c - 1) * RATE + i < q * RATE
    BY FullPlaces
  <2>2. (c - 1) * RATE + i + 1 \in 1..Len(m)
    BY <1>1, <1>3, <2>1
  <2> QED
    BY <1>2, <2>2
<1>8. CASE r + 1 >= RATE
  <2>1. r = RATE - 1
    BY <1>8, Rate
  <2>2. Len(n) = RATE * (q + 1) + 0
    <3>1. RATE * (q + 1) = RATE * q + RATE
      BY Rate, Z3
    <3> QED
      BY <1>1, <1>2, <1>3, <2>1, <3>1, Rate
  <2>3. Len(n) \div RATE = q + 1 /\ (Len(n) % RATE) = 0
    <3>1. 0 \in 0..(RATE - 1) /\ q + 1 \in Nat
      BY Rate
    <3> QED
      BY <2>2, <3>1, PlaceUnique
  <2>4. in = BlockAt(n, q)
    <3>1. ASSUME NEW i \in 0..(RATE - 1) PROVE in[i] = {n[q * RATE + i + 1]}
      <4>1. CASE i < r
        <5>1. q * RATE + i + 1 \in 1..Len(m)
          BY <1>1, <1>3, <4>1
        <5> QED
          BY <1>2, <1>5, <4>1, <5>1
      <4>2. CASE i = r
        <5>1. q * RATE + i + 1 = Len(m) + 1
          BY <1>1, <1>3, <4>2
        <5> QED
          BY <1>2, <1>5, <4>2, <5>1
      <4> QED
        BY <2>1, <4>1, <4>2, Rate
    <3> QED
      BY <1>5, <3>1 DEF BlockAt
  <2>5. Append(FullBlocks(m), in) = FullBlocks(n)
    <3>1. FullBlocks(m) \in [1..q -> States]
      BY <1>1, BlocksType
    <3>2. in \in States
      <4>1. FullBlocks(n) \in [1..(q + 1) -> States]
        BY <1>2, <2>3, BlocksType
      <4>2. q + 1 \in 1..(q + 1) /\ (q + 1) - 1 = q
        OBVIOUS
      <4>3. FullBlocks(n)[q + 1] = BlockAt(n, q)
        BY <2>3, <4>2 DEF FullBlocks
      <4> QED
        BY <2>4, <4>1, <4>2, <4>3
    <3>3. Append(FullBlocks(m), in)
            = [c \in 1..(q + 1) |-> IF c <= q THEN FullBlocks(m)[c] ELSE in]
      BY <3>1, <3>2, Appended
    <3>4. ASSUME NEW c \in 1..(q + 1)
          PROVE  (IF c <= q THEN FullBlocks(m)[c] ELSE in) = BlockAt(n, c - 1)
      <4>1. CASE c <= q
        BY <1>1, <1>7, <4>1 DEF FullBlocks
      <4>2. CASE c = q + 1
        <5>1. c - 1 = q /\ ~(c <= q)
          BY <4>2
        <5> QED
          BY <2>4, <5>1
      <4> QED
        BY <4>1, <4>2
    <3> QED
      BY <2>3, <3>3, <3>4 DEF FullBlocks
  <2>6. PartOf(n) = Nothing
    BY <2>3 DEF PartOf, Nothing
  <2> QED
    BY <1>6, <1>8, <2>3, <2>5, <2>6 DEF Taken, n
<1>9. CASE ~(r + 1 >= RATE)
  <2>1. r + 1 \in 0..(RATE - 1) /\ Len(n) = RATE * q + (r + 1)
    BY <1>1, <1>2, <1>3, <1>9, Rate
  <2>2. Len(n) \div RATE = q /\ (Len(n) % RATE) = r + 1
    BY <2>1, PlaceUnique
  <2>3. FullBlocks(n) = FullBlocks(m)
    BY <1>1, <1>7, <2>2 DEF FullBlocks
  <2>4. PartOf(n) = in
    <3>1. ASSUME NEW i \in 0..(RATE - 1)
          PROVE  (IF i < r + 1 THEN {n[q * RATE + i + 1]} ELSE {})
                   = IF i < r THEN {m[q * RATE + i + 1]} ELSE IF i = r THEN {b} ELSE {}
      <4>1. CASE i < r
        <5>1. q * RATE + i + 1 \in 1..Len(m) /\ i < r + 1
          BY <1>1, <1>3, <4>1
        <5> QED
          BY <1>2, <4>1, <5>1
      <4>2. CASE i = r
        <5>1. q * RATE + i + 1 = Len(m) + 1 /\ i < r + 1 /\ ~(i < r)
          BY <1>1, <1>3, <4>2
        <5> QED
          BY <1>2, <4>2, <5>1
      <4>3. CASE i > r
        BY <4>3
      <4> QED
        BY <4>1, <4>2, <4>3
    <3> QED
      BY <1>5, <2>2, <3>1 DEF PartOf
  <2> QED
    BY <1>6, <1>9, <2>2, <2>3, <2>4 DEF Taken, n
<1> QED
  BY <1>8, <1>9

LEMMA ConcatAppend ==
    ASSUME NEW A, NEW s \in Seq(A), NEW t \in Seq(A), NEW e \in A
    PROVE  s \o Append(t, e) = Append(s \o t, e)
<1>1. Append(t, e) = t \o <<e>>
  BY AppendIsConcat
<1>2. s \o t \in Seq(A)
  BY ConcatProperties
<1>3. Append(s \o t, e) = (s \o t) \o <<e>>
  BY <1>2, AppendIsConcat
<1>4. <<e>> \in Seq(A)
  OBVIOUS
<1>5. (s \o t) \o <<e>> = s \o (t \o <<e>>)
  BY <1>4, ConcatAssociative
<1> QED
  BY <1>1, <1>3, <1>5

(* And so, byte after byte, is what an update takes. *)
Prefixed(m, data, k) == m \o [i \in 1..k |-> data[i]]

LEMMA PrefixedMore ==
    ASSUME NEW m \in Seq(Nat), NEW data \in Seq(Nat), NEW k \in Nat, k + 1 <= Len(data)
    PROVE  /\ Prefixed(m, data, k) \in Seq(Nat)
           /\ Prefixed(m, data, k + 1) = Append(Prefixed(m, data, k), data[k + 1])
<1>1. \A i \in 1..Len(data) : data[i] \in Nat
  OBVIOUS
<1> DEFINE s == [i \in 1..k |-> data[i]]
           t == [i \in 1..(k + 1) |-> data[i]]
<1>2. s \in Seq(Nat) /\ t \in Seq(Nat) /\ s \in [1..k -> Nat] /\ t \in [1..(k + 1) -> Nat]
  BY <1>1
<1>3. data[k + 1] \in Nat
  BY <1>1
<1>4. t = Append(s, data[k + 1])
  <2>1. Append(s, data[k + 1]) = [b \in 1..(k + 1) |-> IF b <= k THEN s[b] ELSE data[k + 1]]
    BY <1>2, <1>3, Appended
  <2>2. ASSUME NEW b \in 1..(k + 1) PROVE (IF b <= k THEN s[b] ELSE data[k + 1]) = data[b]
    OBVIOUS
  <2> QED
    BY <2>1, <2>2
<1> HIDE DEF s, t
<1>5. m \o t = Append(m \o s, data[k + 1])
  <2>1. PICK e \in Nat : e = data[k + 1]
    BY <1>3
  <2>2. s \in Seq(Nat)
    BY <1>2
  <2>3. m \o Append(s, e) = Append(m \o s, e)
    BY <2>2, ConcatAppend
  <2> QED
    BY <1>4, <2>1, <2>3
<1>6. m \o s \in Seq(Nat)
  BY <1>2, ConcatProperties
<1> QED
  BY <1>5, <1>6 DEF Prefixed, s, t

LEMMA UpdateTakes ==
    ASSUME NEW m \in Seq(Nat), NEW data \in Seq(Nat)
    PROVE  sha3_update(Taken(m), data) = Taken(m \o data)
<1>1. PICK n \in Nat : n = Len(data) /\ DOMAIN data = 1..n
  OBVIOUS
<1>2. PICK u : Runs("take", <<>>, Taken(m), data, u, n) /\ sha3_update(Taken(m), data) = u[n]
  BY <1>1, UpdateRuns
<1> DEFINE S == {k \in Nat : k <= n => u[k] = Taken(Prefixed(m, data, k))}
<1>3. 0 \in S
  <2>1. [i \in 1..0 |-> data[i]] = <<>>
    OBVIOUS
  <2>2. Prefixed(m, data, 0) = m
    BY <2>1, ConcatEmptySeq DEF Prefixed
  <2> QED
    BY <1>2, <2>2 DEF Runs
<1>4. ASSUME NEW k \in Nat, k \in S PROVE k + 1 \in S
  <2> SUFFICES ASSUME k + 1 <= n PROVE u[k + 1] = Taken(Prefixed(m, data, k + 1))
    OBVIOUS
  <2>1. u[k] = Taken(Prefixed(m, data, k))
    BY <1>4
  <2>2. u[k + 1] = TakeByte(u[k], data[k + 1])
    <3>1. k \in 0..(n - 1)
      OBVIOUS
    <3>2. u[k + 1] = FoldStep("take", <<>>, u[k], data[k + 1])
      BY <1>2, <3>1 DEF Runs
    <3> QED
      BY <3>2 DEF FoldStep
  <2>3. /\ Prefixed(m, data, k) \in Seq(Nat)
        /\ Prefixed(m, data, k + 1) = Append(Prefixed(m, data, k), data[k + 1])
    BY <1>1, PrefixedMore
  <2>4. data[k + 1] \in Nat
    BY <1>1
  <2> QED
    BY <2>1, <2>2, <2>3, <2>4, TakesOneMore
<1> HIDE DEF S
<1>5. Nat \subseteq S
  BY <1>3, <1>4, SetInduction
<1>6. u[n] = Taken(Prefixed(m, data, n))
  BY <1>5 DEF S
<1>7. Prefixed(m, data, n) = m \o data
  <2>1. [i \in 1..n |-> data[i]] = data
    BY <1>1
  <2> QED
    BY <2>1 DEF Prefixed
<1> QED
  BY <1>2, <1>6, <1>7

LEMMA StartTakes == sha3_init = Taken(<<>>)
<1>1. <<>> \in Seq(Nat) /\ Len(<<>>) = 0
  OBVIOUS
<1>2. 0 = RATE * 0 + 0 /\ 0 \in 0..(RATE - 1)
  BY Rate
<1>3. 0 \div RATE = 0 /\ (0 % RATE) = 0
  BY <1>2, PlaceUnique
<1>4. FullBlocks(<<>>) = <<>>
  <2>1. 1..0 = {}
    OBVIOUS
  <2> QED
    BY <1>1, <1>3, <2>1 DEF FullBlocks
<1>5. PartOf(<<>>) = Nothing
  BY <1>1, <1>3 DEF PartOf, Nothing
<1> QED
  BY <1>1, <1>3, <1>4, <1>5 DEF sha3_init, Taken, Context

(***************************************************************************)
(* Padding makes the blocks of the message: the suffix after it, and the   *)
(* last bits at the end of its last block.                                 *)
(***************************************************************************)
Padded(m, S, E) ==
    LET q == Len(m) \div RATE
    IN  [b \in 1..(q + 1) |->
            [i \in 0..(RATE - 1) |->
                (IF (b - 1) * RATE + i < Len(m) THEN {m[(b - 1) * RATE + i + 1]} ELSE {})
                \cup (IF (b - 1) * RATE + i = Len(m) THEN S ELSE {})
                \cup (IF (b - 1) * RATE + i = (q + 1) * RATE - 1 THEN E ELSE {})]]

LEMMA KeccakBlocks == ASSUME NEW m, NEW S PROVE Keccak!Blocks(m, S) = Padded(m, S, LAST)
BY DEF Keccak!Blocks, Padded

LEMMA AsconsBlocks == ASSUME NEW m, NEW S PROVE Ascon!Blocks(m, S) = Padded(m, S, {})
BY DEF Ascon!Blocks, Padded

(* The last block, as it is once padded. *)
LastBlock(m, S, E) ==
    [i \in 0..(RATE - 1) |-> PartWith(m, S)[i] \cup (IF i = RATE - 1 THEN E ELSE {})]

LEMMA PaddedAppends ==
    ASSUME NEW m \in Seq(Nat), NEW S \in SUBSET Nat, NEW E \in SUBSET Nat
    PROVE  /\ Padded(m, S, E) = Append(FullBlocks(m), LastBlock(m, S, E))
           /\ Padded(m, S, E) \in Seq(States)
<1>1. PICK q \in Nat, r \in 0..(RATE - 1) :
          /\ Len(m) \div RATE = q /\ (Len(m) % RATE) = r
          /\ Len(m) = RATE * q + r /\ Len(m) = q * RATE + r
          /\ Len(m) \in Nat /\ \A k \in 1..Len(m) : m[k] \in Nat
  BY MessageParts
<1>2. q * RATE \in Nat /\ (q + 1) * RATE = q * RATE + RATE
  BY Rate, Z3
<1>3. FullBlocks(m) \in [1..q -> States]
  BY <1>1, BlocksType
<1> DEFINE At(b, i) == (IF (b - 1) * RATE + i < Len(m) THEN {m[(b - 1) * RATE + i + 1]} ELSE {})
                \cup (IF (b - 1) * RATE + i = Len(m) THEN S ELSE {})
                \cup (IF (b - 1) * RATE + i = (q + 1) * RATE - 1 THEN E ELSE {})
<1>4. Padded(m, S, E) = [b \in 1..(q + 1) |-> [i \in 0..(RATE - 1) |-> At(b, i)]]
  BY <1>1 DEF Padded
<1>5. ASSUME NEW b \in 1..q, NEW i \in 0..(RATE - 1) PROVE At(b, i) = FullBlocks(m)[b][i]
  <2>1. (b - 1) * RATE + i \in Nat /\ (b - 1) * RATE + i < q * RATE
    BY FullPlaces
  <2>2. /\ (b - 1) * RATE + i < Len(m) /\ (b - 1) * RATE + i # Len(m)
        /\ (b - 1) * RATE + i # (q + 1) * RATE - 1
    BY <1>1, <1>2, <2>1, Rate
  <2>3. FullBlocks(m)[b][i] = {m[(b - 1) * RATE + i + 1]}
    BY <1>1 DEF FullBlocks, BlockAt
  <2> QED
    BY <2>2, <2>3
<1>6. ASSUME NEW i \in 0..(RATE - 1) PROVE At(q + 1, i) = LastBlock(m, S, E)[i]
  <2>1. (q + 1) - 1 = q
    OBVIOUS
  <2>2. /\ q * RATE + i < Len(m) <=> i < r
        /\ q * RATE + i = Len(m) <=> i = r
        /\ q * RATE + i = (q + 1) * RATE - 1 <=> i = RATE - 1
    BY <1>1, <1>2, Rate
  <2>3. PartWith(m, S)[i] = IF i < r THEN {m[q * RATE + i + 1]} ELSE IF i = r THEN S ELSE {}
    BY <1>1 DEF PartWith
  <2>4. At(q + 1, i) = (IF i < r THEN {m[q * RATE + i + 1]} ELSE {})
                         \cup (IF i = r THEN S ELSE {}) \cup (IF i = RATE - 1 THEN E ELSE {})
    BY <2>1, <2>2
  <2>5. LastBlock(m, S, E)[i] = PartWith(m, S)[i] \cup (IF i = RATE - 1 THEN E ELSE {})
    BY DEF LastBlock
  <2>6. ~(i < r /\ i = r)
    OBVIOUS
  <2> HIDE DEF At
  <2> QED
    BY <2>3, <2>4, <2>5, <2>6
<1>7. LastBlock(m, S, E) \in States
  <2>1. ASSUME NEW i \in 0..(RATE - 1) PROVE LastBlock(m, S, E)[i] \in SUBSET Nat
    <3>1. PartWith(m, S)[i] \in SUBSET Nat
      <4>1. PartWith(m, S)[i] = IF i < r THEN {m[q * RATE + i + 1]} ELSE IF i = r THEN S ELSE {}
        BY <1>1 DEF PartWith
      <4>2. i < r => q * RATE + i + 1 \in 1..Len(m)
        BY <1>1, <1>2
      <4> QED
        BY <1>1, <4>1, <4>2
    <3> QED
      BY <3>1 DEF LastBlock
  <2> QED
    BY <2>1 DEF LastBlock, States
<1>8. Append(FullBlocks(m), LastBlock(m, S, E))
        = [b \in 1..(q + 1) |-> IF b <= q THEN FullBlocks(m)[b] ELSE LastBlock(m, S, E)]
  BY <1>3, <1>7, Appended
<1>9. ASSUME NEW b \in 1..(q + 1)
      PROVE  [i \in 0..(RATE - 1) |-> At(b, i)]
               = IF b <= q THEN FullBlocks(m)[b] ELSE LastBlock(m, S, E)
  <2> HIDE DEF At
  <2>1. CASE b <= q
    <3>1. FullBlocks(m)[b] \in States
      BY <1>3, <2>1
    <3>2. \A i \in 0..(RATE - 1) : At(b, i) = FullBlocks(m)[b][i]
      BY <1>5, <2>1
    <3>3. FullBlocks(m)[b] = [i \in 0..(RATE - 1) |-> FullBlocks(m)[b][i]]
      BY <3>1 DEF States
    <3> QED
      BY <2>1, <3>2, <3>3
  <2>2. CASE b = q + 1
    <3>1. ~(b <= q)
      BY <2>2
    <3>2. \A i \in 0..(RATE - 1) : At(b, i) = LastBlock(m, S, E)[i]
      BY <1>6, <2>2
    <3>3. LastBlock(m, S, E) = [i \in 0..(RATE - 1) |-> LastBlock(m, S, E)[i]]
      BY <1>7 DEF States
    <3> QED
      BY <3>1, <3>2, <3>3
  <2> QED
    BY <2>1, <2>2
<1> HIDE DEF At
<1>10. Padded(m, S, E) = Append(FullBlocks(m), LastBlock(m, S, E))
  BY <1>4, <1>8, <1>9
<1>11. FullBlocks(m) \in Seq(States)
  BY <1>3
<1> QED
  BY <1>7, <1>10, <1>11

LEMMA PadOf ==
    ASSUME NEW m \in Seq(Nat), NEW S \in SUBSET Nat, S \cap LAST = {}
    PROVE  Permute(Pad(Taken(m), S))
             = Context(Keccak!Blocks(m, S), Nothing, Len(m) % RATE)
<1>1. PICK q \in Nat, r \in 0..(RATE - 1) :
          /\ Len(m) \div RATE = q /\ (Len(m) % RATE) = r
          /\ Len(m) = RATE * q + r /\ Len(m) = q * RATE + r
          /\ Len(m) \in Nat /\ \A k \in 1..Len(m) : m[k] \in Nat
  BY MessageParts
<1>2. Taken(m).pt = r
  BY <1>1, ContextParts DEF Taken
<1>3. XorByte(Taken(m), r, S) = Context(FullBlocks(m), PartWith(m, S), r)
  BY <1>1, ContextXored, PartWithByte DEF Taken
<1>4. XorByte(Context(FullBlocks(m), PartWith(m, S), r), RATE - 1, LAST)
        = Context(FullBlocks(m), XoredAt(PartWith(m, S), RATE - 1, LAST), r)
  BY ContextXored
<1>5. XoredAt(PartWith(m, S), RATE - 1, LAST) = LastBlock(m, S, LAST)
  <2>1. RATE - 1 \in 0..(RATE - 1)
    BY Rate
  <2>2. PartWith(m, S)[RATE - 1] \in {S, {}}
    <3>1. PartWith(m, S)[RATE - 1] = IF RATE - 1 < r THEN {m[q * RATE + (RATE - 1) + 1]}
                                     ELSE IF RATE - 1 = r THEN S ELSE {}
      BY <1>1, <2>1 DEF PartWith
    <3> QED
      BY <3>1, Rate
  <2>3. Xor(PartWith(m, S)[RATE - 1], LAST) = PartWith(m, S)[RATE - 1] \cup LAST
    BY <2>2 DEF Xor
  <2>4. /\ DOMAIN PartWith(m, S) = 0..(RATE - 1)
        /\ PartWith(m, S) = [i \in 0..(RATE - 1) |-> PartWith(m, S)[i]]
    BY DEF PartWith
  <2>5. ASSUME NEW i \in 0..(RATE - 1)
        PROVE  XoredAt(PartWith(m, S), RATE - 1, LAST)[i] = LastBlock(m, S, LAST)[i]
    BY <2>1, <2>3, <2>4 DEF XoredAt, LastBlock
  <2>6. /\ DOMAIN XoredAt(PartWith(m, S), RATE - 1, LAST) = 0..(RATE - 1)
        /\ DOMAIN LastBlock(m, S, LAST) = 0..(RATE - 1)
    BY <2>4 DEF XoredAt, LastBlock
  <2> QED
    BY <2>5, <2>6 DEF XoredAt, LastBlock
<1>6. Pad(Taken(m), S) = Context(FullBlocks(m), LastBlock(m, S, LAST), r)
  BY <1>2, <1>3, <1>4, <1>5 DEF Pad
<1>7. Permute(Pad(Taken(m), S))
        = Context(Append(FullBlocks(m), LastBlock(m, S, LAST)), Nothing, r)
  BY <1>6, ContextPermuted
<1>8. LAST \in SUBSET Nat
  BY XofAssumption
<1> QED
  BY <1>1, <1>7, <1>8, PaddedAppends, KeccakBlocks

-----------------------------------------------------------------------------
(***************************************************************************)
(* What a context has given of the stream that its blocks B determine: a   *)
(* permutation comes only when a byte behind it is asked for.              *)
(***************************************************************************)
Nothings(n) == [b \in 1..n |-> Nothing]

Turns(d) == IF d = 0 THEN 0 ELSE (d - 1) \div RATE

Given(B, d) == Context(B \o Nothings(Turns(d)), Nothing, d - RATE * Turns(d))

StreamByte(B, j) == [input |-> B \o Nothings(j \div RATE), place |-> j % RATE]

Drawn(B, d, n) == [i \in 1..n |-> StreamByte(B, d + i - 1)]

LEMMA NothingIsState == Nothing \in States
BY DEF Nothing, States

LEMMA NothingMore ==
    ASSUME NEW B \in Seq(States), NEW n \in Nat
    PROVE  /\ B \o Nothings(n) \in Seq(States)
           /\ Append(B \o Nothings(n), Nothing) = B \o Nothings(n + 1)
           /\ B \o Nothings(0) = B
<1>1. PICK s : s = Nothings(n)
  OBVIOUS
<1>2. PICK e \in States : e = Nothing
  BY NothingIsState
<1>3. s \in [1..n -> States] /\ s \in Seq(States)
  <2>1. s \in [1..n -> States]
    BY <1>1, NothingIsState DEF Nothings
  <2> QED
    BY <2>1
<1>4. Append(s, e) = Nothings(n + 1)
  <2>1. Append(s, e) = [b \in 1..(n + 1) |-> IF b <= n THEN s[b] ELSE e]
    BY <1>3, Appended
  <2>2. \A b \in 1..(n + 1) : (IF b <= n THEN s[b] ELSE e) = Nothing
    BY <1>1, <1>2 DEF Nothings
  <2> QED
    BY <2>1, <2>2 DEF Nothings
<1>5. B \o Append(s, e) = Append(B \o s, e)
  BY <1>3, ConcatAppend
<1>6. B \o s \in Seq(States)
  BY <1>3, ConcatProperties
<1>7. Nothings(0) = <<>>
  <2>1. 1..0 = {}
    OBVIOUS
  <2> QED
    BY <2>1 DEF Nothings
<1>8. B \o <<>> = B
  BY ConcatEmptySeq
<1> QED
  BY <1>1, <1>2, <1>4, <1>5, <1>6, <1>7, <1>8

(* The context from which byte d of the stream is given. *)
LEMMA GivesFrom ==
    ASSUME NEW B \in Seq(States), NEW d \in Nat, NEW c, c = Given(B, d)
    PROVE  (IF c.pt >= RATE THEN MovedTo(Permute(c), 0) ELSE c)
             = Context(B \o Nothings(d \div RATE), Nothing, d % RATE)
<1>1. PICK q \in Nat, p \in 0..(RATE - 1) :
          d \div RATE = q /\ (d % RATE) = p /\ d = RATE * q + p
  BY PlaceParts
<1>2. RATE * q \in Nat
  BY Rate
<1>3. c.pt = d - RATE * Turns(d)
  BY ContextParts DEF Given
<1>4. CASE d = 0
  <2>1. 0 \in 0..(RATE - 1) /\ 0 = RATE * 0 + 0
    BY Rate
  <2>2. 0 \div RATE = 0 /\ (0 % RATE) = 0
    BY <2>1, PlaceUnique
  <2>3. Turns(d) = 0 /\ d - RATE * Turns(d) = 0
    BY <1>4, Rate DEF Turns
  <2> QED
    BY <1>3, <1>4, <2>2, <2>3, Rate DEF Given
<1>5. CASE d # 0 /\ p = 0
  <2>1. q # 0 /\ q - 1 \in Nat
    BY <1>1, <1>5, Rate
  <2>2. RATE * q = RATE * (q - 1) + RATE /\ RATE * (q - 1) \in Nat
    BY <2>1, Rate, Z3
  <2>3. d - 1 = RATE * (q - 1) + (RATE - 1) /\ RATE - 1 \in 0..(RATE - 1)
    BY <1>1, <1>5, <2>2, Rate
  <2>4. (d - 1) \div RATE = q - 1
    BY <2>1, <2>3, PlaceUnique
  <2>5. Turns(d) = q - 1 /\ d - RATE * Turns(d) = RATE
    BY <1>1, <1>5, <2>2, <2>4, Rate DEF Turns
  <2>6. c = Context(B \o Nothings(q - 1), Nothing, RATE)
    BY <2>5 DEF Given
  <2>7. Permute(c) = Context(Append(B \o Nothings(q - 1), Nothing), Nothing, RATE)
    BY <2>6, ContextPermuted
  <2>8. Append(B \o Nothings(q - 1), Nothing) = B \o Nothings(q)
    <3>1. Append(B \o Nothings(q - 1), Nothing) = B \o Nothings((q - 1) + 1)
      BY <2>1, NothingMore
    <3>2. (q - 1) + 1 = q
      OBVIOUS
    <3> QED
      BY <3>1, <3>2
  <2>9. MovedTo(Permute(c), 0) = Context(B \o Nothings(q), Nothing, 0)
    <3>1. PICK e : e = B \o Nothings(q)
      OBVIOUS
    <3>2. Permute(c) = Context(e, Nothing, RATE)
      BY <2>7, <2>8, <3>1
    <3>3. MovedTo(Context(e, Nothing, RATE), 0) = Context(e, Nothing, 0)
      BY ContextAt
    <3> QED
      BY <3>1, <3>2, <3>3
  <2> QED
    BY <1>1, <1>3, <1>5, <2>5, <2>9, Rate
<1>6. CASE d # 0 /\ p # 0
  <2>1. d - 1 = RATE * q + (p - 1) /\ p - 1 \in 0..(RATE - 1)
    BY <1>1, <1>2, <1>6, Rate
  <2>2. (d - 1) \div RATE = q
    BY <2>1, PlaceUnique
  <2>3. Turns(d) = q /\ d - RATE * Turns(d) = p
    BY <1>1, <1>2, <1>6, <2>2 DEF Turns
  <2> QED
    BY <1>1, <1>3, <2>3, Rate DEF Given
<1> QED
  BY <1>4, <1>5, <1>6

LEMMA GivesNext ==
    ASSUME NEW B \in Seq(States), NEW d \in Nat, NEW o, NEW i
    PROVE  GiveByte([state |-> Given(B, d), out |-> o], i)
             = [state |-> Given(B, d + 1), out |-> Append(o, StreamByte(B, d))]
<1>1. PICK q \in Nat, p \in 0..(RATE - 1) :
          d \div RATE = q /\ (d % RATE) = p /\ d = RATE * q + p
  BY PlaceParts
<1>2. RATE * q \in Nat
  BY Rate
<1>3. PICK s : s = Given(B, d)
  OBVIOUS
<1>4. PICK c : c = IF s.pt >= RATE THEN MovedTo(Permute(s), 0) ELSE s
  OBVIOUS
<1>12. PICK e : e = B \o Nothings(q)
  OBVIOUS
<1>5. c = Context(e, Nothing, p)
  BY <1>1, <1>3, <1>4, <1>12, GivesFrom
<1>6. GiveByte([state |-> s, out |-> o], i)
        = [state |-> MovedTo(c, c.pt + 1), out |-> Append(o, ByteAt(c, c.pt))]
  BY <1>4 DEF GiveByte, MovedTo
<1>7. c.pt = p /\ c.perms = e
  BY <1>5, ContextParts
<1>8. MovedTo(c, p + 1) = Context(e, Nothing, p + 1)
  BY <1>5, ContextAt
<1>9. PICK x \in Nat : x = d + 1
  OBVIOUS
<1>13. Turns(x) = q /\ x - RATE * Turns(x) = p + 1
  <2>1. x # 0 /\ x - 1 = d
    BY <1>9
  <2>2. Turns(x) = q
    BY <1>1, <2>1 DEF Turns
  <2> QED
    BY <1>1, <1>2, <1>9, <2>2
<1>10. Given(B, x) = MovedTo(c, c.pt + 1)
  <2>1. Given(B, x) = Context(B \o Nothings(q), Nothing, p + 1)
    BY <1>13 DEF Given
  <2> QED
    BY <1>7, <1>8, <1>12, <2>1
<1>11. ByteAt(c, c.pt) = StreamByte(B, d)
  BY <1>1, <1>7, <1>12 DEF ByteAt, StreamByte
<1> QED
  BY <1>3, <1>6, <1>9, <1>10, <1>11

LEMMA DrawnMore ==
    ASSUME NEW B, NEW d \in Nat, NEW k \in Nat
    PROVE  Append(Drawn(B, d, k), StreamByte(B, d + k)) = Drawn(B, d, k + 1)
<1> DEFINE A == {StreamByte(B, j) : j \in Nat}
<1>1. \A j \in Nat : StreamByte(B, j) \in A
  OBVIOUS
<1> HIDE DEF A
<1>2. PICK s : s = Drawn(B, d, k)
  OBVIOUS
<1>3. \A i \in 1..(k + 1) : d + i - 1 \in Nat
  OBVIOUS
<1>4. s \in [1..k -> A]
  BY <1>1, <1>2, <1>3 DEF Drawn
<1>5. PICK e \in A : e = StreamByte(B, d + k)
  BY <1>1
<1>6. Append(s, e) = [b \in 1..(k + 1) |-> IF b <= k THEN s[b] ELSE e]
  BY <1>4, Appended
<1>7. ASSUME NEW b \in 1..(k + 1)
      PROVE  (IF b <= k THEN s[b] ELSE e) = StreamByte(B, d + b - 1)
  <2>1. CASE b <= k
    BY <1>2, <2>1 DEF Drawn
  <2>2. CASE b = k + 1
    <3>1. ~(b <= k) /\ d + b - 1 = d + k
      BY <2>2
    <3> QED
      BY <1>5, <3>1
  <2> QED
    BY <2>1, <2>2
<1> QED
  BY <1>2, <1>5, <1>6, <1>7 DEF Drawn

LEMMA OutGives ==
    ASSUME NEW B \in Seq(States), NEW d \in Nat, NEW n \in Nat
    PROVE  shake_out(Given(B, d), n) = [state |-> Given(B, d + n), out |-> Drawn(B, d, n)]
<1>1. PICK u : /\ Runs("give", <<>>, [state |-> Given(B, d), out |-> <<>>],
                       [i \in 1..n |-> i], u, n)
               /\ shake_out(Given(B, d), n) = u[n]
  BY OutRuns
<1> DEFINE S == {k \in Nat : k <= n => u[k] = [state |-> Given(B, d + k), out |-> Drawn(B, d, k)]}
<1>2. 0 \in S
  <2>1. Drawn(B, d, 0) = <<>>
    <3>1. 1..0 = {}
      OBVIOUS
    <3> QED
      BY <3>1 DEF Drawn
  <2>2. d + 0 = d
    OBVIOUS
  <2> QED
    BY <1>1, <2>1, <2>2 DEF Runs
<1>3. ASSUME NEW k \in Nat, k \in S PROVE k + 1 \in S
  <2> SUFFICES ASSUME k + 1 <= n
               PROVE  u[k + 1] = [state |-> Given(B, d + (k + 1)), out |-> Drawn(B, d, k + 1)]
    OBVIOUS
  <2>1. u[k] = [state |-> Given(B, d + k), out |-> Drawn(B, d, k)]
    BY <1>3
  <2>2. u[k + 1] = GiveByte(u[k], k + 1)
    <3>1. k \in 0..(n - 1) /\ k + 1 \in 1..n
      OBVIOUS
    <3>2. u[k + 1] = FoldStep("give", <<>>, u[k], [i \in 1..n |-> i][k + 1])
      BY <1>1, <3>1 DEF Runs
    <3> QED
      BY <3>1, <3>2 DEF FoldStep
  <2>3. d + k \in Nat /\ (d + k) + 1 = d + (k + 1)
    OBVIOUS
  <2>4. GiveByte([state |-> Given(B, d + k), out |-> Drawn(B, d, k)], k + 1)
          = [state |-> Given(B, (d + k) + 1),
             out |-> Append(Drawn(B, d, k), StreamByte(B, d + k))]
    BY <2>3, GivesNext
  <2>5. Append(Drawn(B, d, k), StreamByte(B, d + k)) = Drawn(B, d, k + 1)
    BY DrawnMore
  <2> QED
    BY <2>1, <2>2, <2>3, <2>4, <2>5
<1> HIDE DEF S
<1>4. Nat \subseteq S
  BY <1>2, <1>3, SetInduction
<1>5. u[n] = [state |-> Given(B, d + n), out |-> Drawn(B, d, n)]
  BY <1>4 DEF S
<1> QED
  BY <1>1, <1>5

(* These are the bytes of the abstract stream. *)
LEMMA KeccakStream ==
    ASSUME NEW m, NEW S, NEW d, NEW n
    PROVE  Keccak!Stream(m, S, d, n) = Drawn(Keccak!Blocks(m, S), d, n)
BY DEF Keccak!Stream, Drawn, StreamByte, Nothings, Keccak!Nothing, Nothing

LEMMA AsconStream ==
    ASSUME NEW m, NEW S, NEW d, NEW n
    PROVE  Ascon!Stream(m, S, d, n) = Drawn(Ascon!Blocks(m, S), d, n)
BY DEF Ascon!Stream, Drawn, StreamByte, Nothings, Ascon!Nothing, Nothing

LEMMA CloseGives ==
    ASSUME NEW m \in Seq(Nat)
    PROVE  /\ Keccak!Blocks(m, XOF_SUFFIX) \in Seq(States)
           /\ shake_xof(Taken(m)) = Given(Keccak!Blocks(m, XOF_SUFFIX), 0)
<1>1. XOF_SUFFIX \in SUBSET Nat /\ LAST \in SUBSET Nat /\ XOF_SUFFIX \cap LAST = {}
  BY XofAssumption
<1>2. PICK B : B = Keccak!Blocks(m, XOF_SUFFIX)
  OBVIOUS
<1>3. B \in Seq(States)
  BY <1>1, <1>2, PaddedAppends, KeccakBlocks
<1>4. PICK c : c = Permute(Pad(Taken(m), XOF_SUFFIX))
  OBVIOUS
<1>5. c = Context(B, Nothing, Len(m) % RATE)
  BY <1>1, <1>2, <1>4, PadOf
<1>6. shake_xof(Taken(m)) = MovedTo(c, 0)
  BY <1>4 DEF shake_xof, MovedTo
<1>7. MovedTo(c, 0) = Context(B, Nothing, 0)
  BY <1>5, ContextAt
<1>8. Given(B, 0) = Context(B, Nothing, 0)
  <2>1. Turns(0) = 0 /\ 0 - RATE * Turns(0) = 0
    BY Rate DEF Turns
  <2>2. B \o Nothings(0) = B
    BY <1>3, NothingMore
  <2> QED
    BY <2>1, <2>2 DEF Given
<1> QED
  BY <1>2, <1>3, <1>6, <1>7, <1>8

LEMMA FinalGives ==
    ASSUME NEW m \in Seq(Nat), NEW n \in 0..RATE
    PROVE  /\ sha3_final(Taken(m), n).out = Keccak!Stream(m, HASH_SUFFIX, 0, n)
           /\ sha3_final(Taken(m), n).state
                = Context(Keccak!Blocks(m, HASH_SUFFIX), Nothing, Len(m) % RATE)
           /\ Keccak!Blocks(m, HASH_SUFFIX) \in Seq(States)
<1>1. HASH_SUFFIX \in SUBSET Nat /\ LAST \in SUBSET Nat /\ HASH_SUFFIX \cap LAST = {}
  BY XofAssumption
<1>2. PICK B : B = Keccak!Blocks(m, HASH_SUFFIX)
  OBVIOUS
<1>3. B \in Seq(States)
  BY <1>1, <1>2, PaddedAppends, KeccakBlocks
<1>4. PICK c : c = Permute(Pad(Taken(m), HASH_SUFFIX))
  OBVIOUS
<1>5. c = Context(B, Nothing, Len(m) % RATE)
  BY <1>1, <1>2, <1>4, PadOf
<1>6. sha3_final(Taken(m), n) = [state |-> c, out |-> [i \in 1..n |-> ByteAt(c, i - 1)]]
  BY <1>4 DEF sha3_final
<1>7. c.perms = B
  BY <1>5, ContextParts
<1>8. ASSUME NEW i \in 1..n PROVE ByteAt(c, i - 1) = StreamByte(B, 0 + i - 1)
  <2>1. 0 + i - 1 = i - 1 /\ i - 1 \in 0..(RATE - 1) /\ i - 1 = RATE * 0 + (i - 1)
    BY Rate
  <2>2. (i - 1) \div RATE = 0 /\ ((i - 1) % RATE) = i - 1
    BY <2>1, PlaceUnique
  <2>3. B \o Nothings(0) = B
    BY <1>3, NothingMore
  <2> QED
    BY <1>7, <2>1, <2>2, <2>3 DEF ByteAt, StreamByte
<1>9. [i \in 1..n |-> ByteAt(c, i - 1)] = Drawn(B, 0, n)
  BY <1>8 DEF Drawn
<1> QED
  BY <1>2, <1>3, <1>5, <1>6, <1>9, KeccakStream

-----------------------------------------------------------------------------
(* Ascon's state has no place: what was permuted, and what came since. *)
AsconState(ps, in) == [perms |-> ps, in |-> in]

LEMMA AsconPermuted ==
    ASSUME NEW ps, NEW in
    PROVE  Permute(AsconState(ps, in)) = AsconState(Append(ps, in), Nothing)
<1> DEFINE d == Permute(AsconState(ps, in))
<1>1. d \in [perms : {Append(ps, in)}, in : {Nothing}]
  BY DEF Permute, AsconState
<1>2. d = [perms |-> d.perms, in |-> d.in]
  <2> HIDE DEF d
  <2> QED
    BY <1>1
<1> QED
  BY <1>1, <1>2 DEF AsconState

LEMMA AsconXored ==
    ASSUME NEW ps, NEW in, NEW place, NEW b
    PROVE  XorByte(AsconState(ps, in), place, b) = AsconState(ps, XoredAt(in, place, b))
<1>1. PICK c : c = AsconState(ps, in)
  OBVIOUS
<1>2. c = [perms |-> ps, in |-> in]
  BY <1>1 DEF AsconState
<1>3. XorByte(c, place, b) = [c EXCEPT !.in = XoredAt(in, place, b)]
  BY <1>2 DEF XorByte, XoredAt
<1>4. [c EXCEPT !.in = XoredAt(in, place, b)] = [perms |-> ps, in |-> XoredAt(in, place, b)]
  BY <1>2
<1> QED
  BY <1>1, <1>3, <1>4 DEF AsconState

LEMMA BlockTaken ==
    ASSUME NEW ps, NEW data, NEW x
    PROVE  FoldStep("block", data, AsconState(ps, Nothing), x)
             = AsconState(Append(ps, BlockAt(data, x)), Nothing)
<1>1. PICK c : c = AsconState(ps, Nothing)
  OBVIOUS
<1>2. c = [perms |-> ps, in |-> Nothing]
  BY <1>1 DEF AsconState
<1>3. [c EXCEPT !.in = BlockAt(data, x)] = [perms |-> ps, in |-> BlockAt(data, x)]
  BY <1>2
<1>4. [c EXCEPT !.in = BlockAt(data, x)] = AsconState(ps, BlockAt(data, x))
  BY <1>3 DEF AsconState
<1>5. FoldStep("block", data, c, x) = Permute(AsconState(ps, BlockAt(data, x)))
  BY <1>4 DEF FoldStep
<1> QED
  BY <1>1, <1>5, AsconPermuted

(* The first k blocks, and the first k bytes of the rest. *)
FirstBlocks(m, k) == [b \in 1..k |-> BlockAt(m, b - 1)]

FirstOfRest(m, k) ==
    [i \in 0..(RATE - 1) |->
        IF i < k THEN {m[(Len(m) \div RATE) * RATE + i + 1]} ELSE {}]

LEMMA AbsorbsBlocks ==
    ASSUME NEW m \in Seq(Nat)
    PROVE  AbsorbBlocks(m) = AsconState(FullBlocks(m), Nothing)
<1>1. PICK q \in Nat, r \in 0..(RATE - 1) :
          /\ Len(m) \div RATE = q /\ (Len(m) % RATE) = r
          /\ Len(m) = RATE * q + r /\ Len(m) = q * RATE + r
          /\ Len(m) \in Nat /\ \A k \in 1..Len(m) : m[k] \in Nat
  BY MessageParts
<1>2. q = AsconBlocks(m)
  BY <1>1 DEF AsconBlocks
<1>3. PICK u : /\ Runs("block", m, [perms |-> <<>>, in |-> Nothing],
                       [b \in 1..q |-> b - 1], u, q)
               /\ AbsorbBlocks(m) = u[q]
  BY <1>2, BlocksRuns
<1>4. FullBlocks(m) = FirstBlocks(m, q) /\ FullBlocks(m) \in [1..q -> States]
  BY <1>1, BlocksType DEF FullBlocks, FirstBlocks
<1> DEFINE S == {k \in Nat : k <= q => u[k] = AsconState(FirstBlocks(m, k), Nothing)}
<1>5. 0 \in S
  <2>1. FirstBlocks(m, 0) = <<>>
    <3>1. 1..0 = {}
      OBVIOUS
    <3> QED
      BY <3>1 DEF FirstBlocks
  <2> QED
    BY <1>3, <2>1 DEF Runs, AsconState
<1>6. ASSUME NEW k \in Nat, k \in S PROVE k + 1 \in S
  <2> SUFFICES ASSUME k + 1 <= q PROVE u[k + 1] = AsconState(FirstBlocks(m, k + 1), Nothing)
    OBVIOUS
  <2>1. u[k] = AsconState(FirstBlocks(m, k), Nothing)
    BY <1>6
  <2>2. u[k + 1] = FoldStep("block", m, u[k], k)
    <3>1. k \in 0..(q - 1) /\ k + 1 \in 1..q /\ (k + 1) - 1 = k
      OBVIOUS
    <3>2. u[k + 1] = FoldStep("block", m, u[k], [b \in 1..q |-> b - 1][k + 1])
      BY <1>3, <3>1 DEF Runs
    <3> QED
      BY <3>1, <3>2
  <2>3. u[k + 1] = AsconState(Append(FirstBlocks(m, k), BlockAt(m, k)), Nothing)
    BY <2>1, <2>2, BlockTaken
  <2>4. Append(FirstBlocks(m, k), BlockAt(m, k)) = FirstBlocks(m, k + 1)
    <3>1. \A b \in 1..q : FullBlocks(m)[b] = BlockAt(m, b - 1)
      BY <1>4 DEF FirstBlocks
    <3>8. \A b \in 1..q : FullBlocks(m)[b] \in States
      BY <1>4
    <3>2. \A b \in 1..(k + 1) : BlockAt(m, b - 1) \in States
      <4>1. \A b \in 1..(k + 1) : b \in 1..q
        OBVIOUS
      <4> QED
        BY <3>1, <3>8, <4>1
    <3>3. PICK s : s = FirstBlocks(m, k)
      OBVIOUS
    <3>4. s \in [1..k -> States]
      BY <3>2, <3>3 DEF FirstBlocks
    <3>5. PICK e \in States : e = BlockAt(m, k)
      <4>1. k + 1 \in 1..(k + 1) /\ (k + 1) - 1 = k
        OBVIOUS
      <4> QED
        BY <3>2, <4>1
    <3>6. Append(s, e) = [b \in 1..(k + 1) |-> IF b <= k THEN s[b] ELSE e]
      BY <3>4, Appended
    <3>7. ASSUME NEW b \in 1..(k + 1) PROVE (IF b <= k THEN s[b] ELSE e) = BlockAt(m, b - 1)
      <4>1. CASE b <= k
        BY <3>3, <4>1 DEF FirstBlocks
      <4>2. CASE b = k + 1
        <5>1. ~(b <= k) /\ b - 1 = k
          BY <4>2
        <5> QED
          BY <3>5, <5>1
      <4> QED
        BY <4>1, <4>2
    <3> QED
      BY <3>3, <3>5, <3>6, <3>7 DEF FirstBlocks
  <2> QED
    BY <2>3, <2>4
<1> HIDE DEF S
<1>7. Nat \subseteq S
  BY <1>5, <1>6, SetInduction
<1>8. u[q] = AsconState(FirstBlocks(m, q), Nothing)
  BY <1>7 DEF S
<1> QED
  BY <1>3, <1>4, <1>8

LEMMA AbsorbsRest ==
    ASSUME NEW m \in Seq(Nat), NEW ps
    PROVE  AbsorbRest(AsconState(ps, Nothing), m) = AsconState(ps, PartOf(m))
<1>1. PICK q \in Nat, r \in 0..(RATE - 1) :
          /\ Len(m) \div RATE = q /\ (Len(m) % RATE) = r
          /\ Len(m) = RATE * q + r /\ Len(m) = q * RATE + r
          /\ Len(m) \in Nat /\ \A k \in 1..Len(m) : m[k] \in Nat
  BY MessageParts
<1>2. q = AsconBlocks(m) /\ RATE * q \in Nat /\ RATE * q = q * RATE
  BY <1>1, Rate, Z3 DEF AsconBlocks
<1>3. r = Len(m) - RATE * AsconBlocks(m) /\ r \in Nat
  BY <1>1, <1>2
<1>4. PICK u : /\ Runs("rest", m, AsconState(ps, Nothing), [i \in 1..r |-> i - 1], u, r)
               /\ AbsorbRest(AsconState(ps, Nothing), m) = u[r]
  BY <1>3, RestRuns
<1>5. PartOf(m) = FirstOfRest(m, r)
  BY <1>1 DEF PartOf, FirstOfRest
<1> DEFINE S == {k \in Nat : k <= r => u[k] = AsconState(ps, FirstOfRest(m, k))}
<1>6. 0 \in S
  <2>1. FirstOfRest(m, 0) = Nothing
    BY DEF FirstOfRest, Nothing
  <2> QED
    BY <1>4, <2>1 DEF Runs
<1>7. ASSUME NEW k \in Nat, k \in S PROVE k + 1 \in S
  <2> SUFFICES ASSUME k + 1 <= r PROVE u[k + 1] = AsconState(ps, FirstOfRest(m, k + 1))
    OBVIOUS
  <2>1. u[k] = AsconState(ps, FirstOfRest(m, k))
    BY <1>7
  <2>2. u[k + 1] = FoldStep("rest", m, u[k], k)
    <3>1. k \in 0..(r - 1) /\ k + 1 \in 1..r /\ (k + 1) - 1 = k
      OBVIOUS
    <3>2. u[k + 1] = FoldStep("rest", m, u[k], [i \in 1..r |-> i - 1][k + 1])
      BY <1>4, <3>1 DEF Runs
    <3> QED
      BY <3>1, <3>2
  <2>3. FoldStep("rest", m, u[k], k) = XorByte(u[k], k, {m[q * RATE + k + 1]})
    BY <1>2 DEF FoldStep
  <2>4. u[k + 1] = AsconState(ps, XoredAt(FirstOfRest(m, k), k, {m[q * RATE + k + 1]}))
    BY <2>1, <2>2, <2>3, AsconXored
  <2>5. XoredAt(FirstOfRest(m, k), k, {m[q * RATE + k + 1]}) = FirstOfRest(m, k + 1)
    <3>1. k \in 0..(RATE - 1) /\ ~(k < k)
      BY Rate
    <3>2. FirstOfRest(m, k)[k] = {}
      BY <3>1 DEF FirstOfRest
    <3>3. \A B : Xor({}, B) = B
      BY DEF Xor
    <3>4. \A i \in 0..(RATE - 1) : i < k + 1 <=> i < k \/ i = k
      OBVIOUS
    <3> QED
      BY <1>1, <3>1, <3>2, <3>3, <3>4 DEF XoredAt, FirstOfRest
  <2> QED
    BY <2>4, <2>5
<1> HIDE DEF S
<1>8. Nat \subseteq S
  BY <1>6, <1>7, SetInduction
<1>9. u[r] = AsconState(ps, FirstOfRest(m, r))
  BY <1>3, <1>8 DEF S
<1> QED
  BY <1>4, <1>5, <1>9

LEMMA AsconAbsorbs ==
    ASSUME NEW m \in Seq(Nat)
    PROVE  /\ ascon_hash_absorb(m) = AsconState(Ascon!Blocks(m, XOF_SUFFIX), Nothing)
           /\ Ascon!Blocks(m, XOF_SUFFIX) \in Seq(States)
<1>1. XOF_SUFFIX \in SUBSET Nat /\ {} \in SUBSET Nat
  BY XofAssumption
<1>2. AbsorbRest(AbsorbBlocks(m), m) = AsconState(FullBlocks(m), PartOf(m))
  BY AbsorbsBlocks, AbsorbsRest
<1>3. XorByte(AsconState(FullBlocks(m), PartOf(m)), Len(m) % RATE, XOF_SUFFIX)
        = AsconState(FullBlocks(m), PartWith(m, XOF_SUFFIX))
  BY AsconXored, PartWithByte
<1>4. Permute(AsconState(FullBlocks(m), PartWith(m, XOF_SUFFIX)))
        = AsconState(Append(FullBlocks(m), PartWith(m, XOF_SUFFIX)), Nothing)
  BY AsconPermuted
<1>5. LastBlock(m, XOF_SUFFIX, {}) = PartWith(m, XOF_SUFFIX)
  BY DEF LastBlock, PartWith
<1>6. /\ Padded(m, XOF_SUFFIX, {}) = Append(FullBlocks(m), LastBlock(m, XOF_SUFFIX, {}))
      /\ Padded(m, XOF_SUFFIX, {}) \in Seq(States)
  BY <1>1, PaddedAppends
<1> QED
  BY <1>2, <1>3, <1>4, <1>5, <1>6, AsconsBlocks DEF ascon_hash_absorb

LEMMA Concatenated ==
    ASSUME NEW A, NEW m \in Nat, NEW n \in Nat, NEW s \in [1..m -> A], NEW t \in [1..n -> A],
           NEW w \in Seq(A), Len(w) = m + n,
           \A i \in 1..m : w[i] = s[i], \A i \in 1..n : w[m + i] = t[i]
    PROVE  s \o t = w
<1>1. s \in Seq(A) /\ t \in Seq(A) /\ Len(s) = m /\ Len(t) = n
  OBVIOUS
<1>2. PICK x : x = s \o t
  OBVIOUS
<1>3. x \in Seq(A) /\ Len(x) = m + n
  BY <1>1, <1>2, ConcatProperties
<1>4. ASSUME NEW i \in 1..(m + n) PROVE x[i] = w[i]
  <2>1. x[i] = IF i <= m THEN s[i] ELSE t[i - m]
    <3>1. i \in 1..(Len(s) + Len(t))
      BY <1>1
    <3>2. (s \o t)[i] = IF i <= Len(s) THEN s[i] ELSE t[i - Len(s)]
      BY <1>1, <3>1, ConcatProperties, Zenon
    <3> QED
      BY <1>1, <1>2, <3>2, Zenon
  <2>2. CASE i <= m
    <3>1. i \in 1..m
      BY <2>2
    <3> QED
      BY <2>1, <2>2, <3>1
  <2>3. CASE ~(i <= m)
    <3>1. i - m \in 1..n /\ m + (i - m) = i
      BY <2>3
    <3>2. w[m + (i - m)] = t[i - m]
      BY <3>1
    <3> QED
      BY <2>1, <2>3, <3>1, <3>2
  <2> QED
    BY <2>2, <2>3
<1> QED
  BY <1>2, <1>3, <1>4, SeqEqual

LEMMA PlaceInNext ==
    ASSUME NEW n \in Nat, NEW i \in 1..RATE
    PROVE  n + i \in 1..(n + RATE) /\ 0 + (n + i) - 1 = n + i - 1
BY Rate

(* A block more is as many bytes more of the stream. *)
LEMMA BlockMore ==
    ASSUME NEW B, NEW n \in Nat, NEW c,
           \A i \in 1..RATE : ByteAt(c, i - 1) = StreamByte(B, n + i - 1)
    PROVE  Drawn(B, 0, n) \o [i \in 1..RATE |-> ByteAt(c, i - 1)] = Drawn(B, 0, n + RATE)
<1> DEFINE A == {StreamByte(B, j) : j \in Nat}
<1>1. \A j \in Nat : StreamByte(B, j) \in A
  OBVIOUS
<1> HIDE DEF A
<1>2. PICK s : s = Drawn(B, 0, n)
  OBVIOUS
<1>3. PICK t : t = [i \in 1..RATE |-> ByteAt(c, i - 1)]
  OBVIOUS
<1>4. PICK w : w = Drawn(B, 0, n + RATE)
  OBVIOUS
<1>5. \A i \in 1..(n + RATE) : 0 + i - 1 \in Nat
  BY Rate
<1>6. s \in [1..n -> A] /\ w \in [1..(n + RATE) -> A]
  BY <1>1, <1>2, <1>4, <1>5, Rate DEF Drawn
<1>8. t \in [1..RATE -> A]
  <2>1. ASSUME NEW i \in 1..RATE PROVE n + i - 1 \in Nat
    <3>1. i - 1 \in Nat /\ n + i - 1 = n + (i - 1)
      BY Rate
    <3> QED
      BY <3>1
  <2> QED
    BY <1>1, <1>3, <2>1
<1>9. \A i \in 1..n : w[i] = s[i]
  <2>1. \A i \in 1..n : i \in 1..(n + RATE)
    BY Rate
  <2> QED
    BY <1>2, <1>4, <2>1 DEF Drawn
<1>10. ASSUME NEW i \in 1..RATE PROVE w[n + i] = t[i]
  <2>1. n + i \in 1..(n + RATE) /\ 0 + (n + i) - 1 = n + i - 1
    BY PlaceInNext
  <2>2. w[n + i] = StreamByte(B, 0 + (n + i) - 1)
    BY <1>4, <2>1 DEF Drawn
  <2> QED
    BY <1>3, <2>1, <2>2
<1>11. w \in Seq(A) /\ Len(w) = n + RATE
  <2>1. n + RATE \in Nat
    BY Rate
  <2> QED
    BY <1>6, <2>1
<1>12. s \o t = w
  <2>1. PICK r \in Nat : r = RATE
    BY Rate
  <2>2. t \in [1..r -> A]
    BY <1>8, <2>1
  <2>3. Len(w) = n + r /\ \A i \in 1..r : w[n + i] = t[i]
    BY <1>10, <1>11, <2>1
  <2>4. s \in [1..n -> A] /\ w \in Seq(A)
    BY <1>6, <1>11
  <2> QED
    BY <1>9, <2>2, <2>3, <2>4, Concatenated, Zenon
<1> QED
  BY <1>2, <1>3, <1>4, <1>12

LEMMA DrawnBlock ==
    ASSUME NEW B \in Seq(States), NEW k \in Nat, NEW c, c.perms = B \o Nothings(k), NEW n \in Nat,
           n = RATE * k
    PROVE  Drawn(B, 0, n) \o [i \in 1..RATE |-> ByteAt(c, i - 1)] = Drawn(B, 0, n + RATE)
<1>1. \A i \in 1..RATE : ByteAt(c, i - 1) = StreamByte(B, n + i - 1)
  <2> TAKE i \in 1..RATE
  <2>1. n + i - 1 = RATE * k + (i - 1) /\ i - 1 \in 0..(RATE - 1)
    BY Rate
  <2>2. (n + i - 1) \div RATE = k /\ ((n + i - 1) % RATE) = i - 1
    BY <2>1, PlaceUnique
  <2> QED
    BY <2>2 DEF ByteAt, StreamByte
<1> QED
  BY <1>1, BlockMore

-----------------------------------------------------------------------------
(* The first block, and one block more each time. *)
LEMMA FirstBlockGiven ==
    ASSUME NEW B \in Seq(States)
    PROVE  GiveBlocks(AsconState(B, Nothing), 1)
             = [state |-> AsconState(B \o Nothings(0), Nothing), out |-> Drawn(B, 0, RATE)]
<1>1. PICK c : c = AsconState(B, Nothing)
  OBVIOUS
<1>2. c.perms = B \o Nothings(0) /\ B \o Nothings(0) = B
  BY <1>1, NothingMore DEF AsconState
<1>3. \A i \in 1..RATE : ByteAt(c, i - 1) = StreamByte(B, 0 + i - 1)
  <2> TAKE i \in 1..RATE
  <2>1. 0 + i - 1 = RATE * 0 + (i - 1) /\ i - 1 \in 0..(RATE - 1)
    BY Rate
  <2>2. (0 + i - 1) \div RATE = 0 /\ ((0 + i - 1) % RATE) = i - 1
    BY <2>1, PlaceUnique
  <2> QED
    BY <1>2, <2>2 DEF ByteAt, StreamByte
<1>4. [i \in 1..RATE |-> ByteAt(c, i - 1)] = Drawn(B, 0, RATE)
  BY <1>3 DEF Drawn
<1> QED
  BY <1>1, <1>2, <1>4 DEF GiveBlocks

LEMMA TurnedOnce ==
    ASSUME NEW B \in Seq(States), NEW k \in Nat
    PROVE  Permute(AsconState(B \o Nothings(k), Nothing)) = AsconState(B \o Nothings(k + 1), Nothing)
<1>1. PICK e : e = B \o Nothings(k)
  OBVIOUS
<1>2. Permute(AsconState(e, Nothing)) = AsconState(Append(e, Nothing), Nothing)
  BY AsconPermuted
<1>3. Append(e, Nothing) = B \o Nothings(k + 1)
  BY <1>1, NothingMore
<1> QED
  BY <1>1, <1>2, <1>3, Zenon

LEMMA BlockGiven ==
    ASSUME NEW B \in Seq(States), NEW k \in Nat, NEW n \in Nat, n = RATE * (k + 1), NEW x
    PROVE  FoldStep("more", <<>>,
                    [state |-> AsconState(B \o Nothings(k), Nothing), out |-> Drawn(B, 0, n)], x)
             = [state |-> AsconState(B \o Nothings(k + 1), Nothing), out |-> Drawn(B, 0, n + RATE)]
<1>1. PICK d : d = Permute(AsconState(B \o Nothings(k), Nothing))
  OBVIOUS
<1>2. d = AsconState(B \o Nothings(k + 1), Nothing)
  BY <1>1, TurnedOnce
<1>3. d.perms = B \o Nothings(k + 1) /\ k + 1 \in Nat
  BY <1>2 DEF AsconState
<1>4. Drawn(B, 0, n) \o [i \in 1..RATE |-> ByteAt(d, i - 1)] = Drawn(B, 0, n + RATE)
  BY <1>3, DrawnBlock
<1>5. PICK s : s = AsconState(B \o Nothings(k), Nothing)
  OBVIOUS
<1>6. PICK o : o = Drawn(B, 0, n)
  OBVIOUS
<1>7. FoldStep("more", <<>>, [state |-> s, out |-> o], x)
        = [state |-> d, out |-> o \o [i \in 1..RATE |-> ByteAt(d, i - 1)]]
  BY <1>1, <1>5 DEF FoldStep
<1> QED
  BY <1>2, <1>4, <1>5, <1>6, <1>7

LEMMA BlockMoreBytes ==
    ASSUME NEW k \in Nat
    PROVE  RATE * (k + 1) \in Nat /\ RATE * (k + 1) + RATE = RATE * ((k + 1) + 1)
BY Rate, Z3

(* Whole blocks: between them is one permutation less than there are blocks. *)
LEMMA BlocksBetween ==
    ASSUME NEW len \in Nat \ {0}, len % RATE = 0
    PROVE  \E n \in Nat : /\ n = IF len > RATE THEN (len - 1) \div RATE ELSE 0
                          /\ len = RATE * (n + 1)
<1>1. PICK q \in Nat, p \in 0..(RATE - 1) :
          len \div RATE = q /\ (len % RATE) = p /\ len = RATE * q + p
  BY PlaceParts
<1>2. len = RATE * q /\ q # 0 /\ q - 1 \in Nat
  BY <1>1, Rate
<1>3. RATE * q = RATE * (q - 1) + RATE /\ RATE * (q - 1) \in Nat
  BY <1>2, Rate, Z3
<1>4. len - 1 = RATE * (q - 1) + (RATE - 1) /\ RATE - 1 \in 0..(RATE - 1)
  BY <1>2, <1>3, Rate
<1>5. (len - 1) \div RATE = q - 1
  BY <1>2, <1>4, PlaceUnique
<1>6. (q - 1) + 1 = q
  OBVIOUS
<1>7. CASE len > RATE
  BY <1>2, <1>5, <1>6, <1>7
<1>8. CASE ~(len > RATE)
  <2>1. RATE * (q - 1) = 0
    BY <1>2, <1>3, <1>8, Rate
  <2>2. q - 1 = 0
    BY <1>2, <2>1, Rate, Z3
  <2> QED
    BY <1>2, <1>6, <1>8, <2>2
<1> QED
  BY <1>7, <1>8

LEMMA SqueezeGives ==
    ASSUME NEW B \in Seq(States), NEW len \in Nat \ {0}, len % RATE = 0
    PROVE  ascon_hash_squeeze(AsconState(B, Nothing), len).out = Drawn(B, 0, len)
<1>1. PICK n \in Nat : /\ n = IF len > RATE THEN (len - 1) \div RATE ELSE 0
                       /\ len = RATE * (n + 1)
  BY BlocksBetween
<1>2. PICK u : /\ Runs("more", <<>>, GiveBlocks(AsconState(B, Nothing), 1), [b \in 1..n |-> b], u, n)
               /\ ascon_hash_squeeze(AsconState(B, Nothing), len) = u[n]
  BY <1>1, MoreRuns
<1> DEFINE S == {k \in Nat : k <= n =>
                    u[k] = [state |-> AsconState(B \o Nothings(k), Nothing),
                            out |-> Drawn(B, 0, RATE * (k + 1))]}
<1>3. 0 \in S
  <2>1. RATE * (0 + 1) = RATE
    BY Rate
  <2>2. u[0] = GiveBlocks(AsconState(B, Nothing), 1)
    BY <1>2 DEF Runs
  <2> QED
    BY <2>1, <2>2, FirstBlockGiven
<1>4. ASSUME NEW k \in Nat, k \in S PROVE k + 1 \in S
  <2> SUFFICES ASSUME k + 1 <= n
               PROVE  u[k + 1] = [state |-> AsconState(B \o Nothings(k + 1), Nothing),
                                  out |-> Drawn(B, 0, RATE * ((k + 1) + 1))]
    OBVIOUS
  <2>1. PICK m \in Nat : m = RATE * (k + 1) /\ m + RATE = RATE * ((k + 1) + 1)
    BY BlockMoreBytes
  <2>2. u[k] = [state |-> AsconState(B \o Nothings(k), Nothing), out |-> Drawn(B, 0, m)]
    BY <1>4, <2>1
  <2>3. u[k + 1] = FoldStep("more", <<>>, u[k], k + 1)
    <3>1. k \in 0..(n - 1) /\ k + 1 \in 1..n
      OBVIOUS
    <3>2. u[k + 1] = FoldStep("more", <<>>, u[k], [b \in 1..n |-> b][k + 1])
      BY <1>2, <3>1 DEF Runs
    <3> QED
      BY <3>1, <3>2
  <2>4. FoldStep("more", <<>>, [state |-> AsconState(B \o Nothings(k), Nothing),
                                out |-> Drawn(B, 0, m)], k + 1)
          = [state |-> AsconState(B \o Nothings(k + 1), Nothing), out |-> Drawn(B, 0, m + RATE)]
    BY <2>1, BlockGiven
  <2> QED
    BY <2>1, <2>2, <2>3, <2>4
<1> HIDE DEF S
<1>5. Nat \subseteq S
  BY <1>3, <1>4, SetInduction
<1>6. u[n] = [state |-> AsconState(B \o Nothings(n), Nothing), out |-> Drawn(B, 0, RATE * (n + 1))]
  BY <1>5 DEF S
<1> QED
  BY <1>1, <1>2, <1>6

(* The calls that do all in one. *)
LEMMA PieceType ==
    ASSUME NEW from \in Nat, NEW n \in Nat
    PROVE  Piece(from, n) \in Seq(Nat) /\ Len(Piece(from, n)) = n
<1>1. PICK s : s = Piece(from, n)
  OBVIOUS
<1>2. s \in [1..n -> Nat]
  BY <1>1 DEF Piece, Byte
<1> QED
  BY <1>1, <1>2

LEMMA SamePieces ==
    /\ \A from, n : Keccak!Piece(from, n) = Piece(from, n)
    /\ \A from, n : Ascon!Piece(from, n) = Piece(from, n)
BY DEF Keccak!Piece, Ascon!Piece, Piece, Keccak!Byte, Ascon!Byte, Byte

LEMMA StartUpdate ==
    ASSUME NEW n \in Nat
    PROVE  sha3_update(sha3_init, Piece(0, n)) = Taken(Piece(0, n))
<1>1. PICK m \in Seq(Nat) : m = Piece(0, n)
  BY PieceType
<1>2. <<>> \in Seq(Nat) /\ <<>> \o m = m
  BY ConcatEmptySeq
<1>3. sha3_update(Taken(<<>>), m) = Taken(<<>> \o m)
  BY <1>2, UpdateTakes
<1> QED
  BY <1>1, <1>2, <1>3, StartTakes

LEMMA CallsGive ==
    ASSUME NEW n \in Nat, NEW k \in Nat
    PROVE  /\ kyber_shake256(n, k) = Keccak!Stream(Piece(0, n), XOF_SUFFIX, 0, k)
           /\ k <= RATE => sha3(n, k) = Keccak!Stream(Piece(0, n), HASH_SUFFIX, 0, k)
           /\ k > 0 /\ k % RATE = 0 =>
                ascon_hash(n, k) = Ascon!Stream(Piece(0, n), XOF_SUFFIX, 0, k)
<1>1. PICK m \in Seq(Nat) : m = Piece(0, n)
  BY PieceType
<1>2. sha3_update(sha3_init, Piece(0, n)) = Taken(m)
  BY <1>1, StartUpdate
<1>3. kyber_shake256(n, k) = Keccak!Stream(Piece(0, n), XOF_SUFFIX, 0, k)
  <2>1. PICK B : B = Keccak!Blocks(m, XOF_SUFFIX)
    OBVIOUS
  <2>2. B \in Seq(States) /\ shake_xof(Taken(m)) = Given(B, 0)
    BY <2>1, CloseGives
  <2>3. shake_out(Given(B, 0), k) = [state |-> Given(B, 0 + k), out |-> Drawn(B, 0, k)]
    BY <2>2, OutGives
  <2>4. kyber_shake256(n, k) = Drawn(B, 0, k)
    BY <1>2, <2>2, <2>3 DEF kyber_shake256
  <2> QED
    BY <1>1, <2>1, <2>4, KeccakStream
<1>4. ASSUME k <= RATE PROVE sha3(n, k) = Keccak!Stream(Piece(0, n), HASH_SUFFIX, 0, k)
  <2>1. k \in 0..RATE
    BY <1>4, Rate
  <2>2. sha3_final(Taken(m), k).out = Keccak!Stream(m, HASH_SUFFIX, 0, k)
    BY <2>1, FinalGives
  <2> QED
    BY <1>1, <1>2, <2>2 DEF sha3
<1>5. ASSUME k > 0, k % RATE = 0
      PROVE  ascon_hash(n, k) = Ascon!Stream(Piece(0, n), XOF_SUFFIX, 0, k)
  <2>1. PICK B : B = Ascon!Blocks(m, XOF_SUFFIX)
    OBVIOUS
  <2>2. ascon_hash_absorb(m) = AsconState(B, Nothing) /\ B \in Seq(States)
    BY <2>1, AsconAbsorbs
  <2>3. k \in Nat \ {0}
    BY <1>5
  <2>4. ascon_hash_squeeze(AsconState(B, Nothing), k).out = Drawn(B, 0, k)
    BY <1>5, <2>2, <2>3, SqueezeGives
  <2> QED
    BY <1>1, <2>1, <2>2, <2>4, AsconStream DEF ascon_hash
<1> QED
  BY <1>3, <1>4, <1>5

-----------------------------------------------------------------------------
(***************************************************************************)
(* The inductive invariant.  The context is determined by the message that *)
(* was absorbed, and once closed by the message and by how much was drawn. *)
(***************************************************************************)
XofTypes ==
    /\ alg \in {"keccak", "ascon"}
    /\ phase \in {"none", "absorb", "squeeze"}
    /\ message \in Seq(Nat) /\ squeezed \in Nat
    /\ alg = "ascon" => phase = "none"

SpongeFits ==
    /\ sponge.perms \in Seq(States)
    /\ sponge.pt \in 0..RATE
    /\ phase = "absorb" => sponge.pt < RATE

SpongeIsTaken == phase = "absorb" => sponge = Taken(message) /\ squeezed = 0

SpongeIsGiven ==
    phase = "squeeze" => sponge = Given(Keccak!Blocks(message, XOF_SUFFIX), squeezed)

XofInv == XofTypes /\ SpongeFits /\ SpongeIsTaken /\ SpongeIsGiven

LEMMA TakenFits ==
    ASSUME NEW m \in Seq(Nat)
    PROVE  /\ Taken(m).perms \in Seq(States)
           /\ Taken(m).pt \in 0..(RATE - 1)
<1>1. PICK q \in Nat, r \in 0..(RATE - 1) :
          /\ Len(m) \div RATE = q /\ (Len(m) % RATE) = r
          /\ Len(m) = RATE * q + r /\ Len(m) = q * RATE + r
          /\ Len(m) \in Nat /\ \A k \in 1..Len(m) : m[k] \in Nat
  BY MessageParts
<1>2. PICK B : B = FullBlocks(m)
  OBVIOUS
<1>3. B \in [1..q -> States]
  BY <1>1, <1>2, BlocksType
<1>4. B \in Seq(States)
  BY <1>3
<1> QED
  BY <1>1, <1>2, <1>4, ContextParts DEF Taken

LEMMA GivenFits ==
    ASSUME NEW B \in Seq(States), NEW d \in Nat
    PROVE  /\ Given(B, d).perms \in Seq(States)
           /\ Given(B, d).pt \in 0..RATE
<1>1. CASE d = 0
  <2>1. Turns(d) = 0 /\ d - RATE * Turns(d) = 0
    BY <1>1, Rate DEF Turns
  <2>2. PICK e \in Seq(States) : e = B \o Nothings(0)
    BY NothingMore
  <2>3. Given(B, d) = Context(e, Nothing, 0)
    BY <2>1, <2>2 DEF Given
  <2>4. Given(B, d).perms = e /\ Given(B, d).pt = 0
    BY <2>3 DEF Context
  <2> QED
    BY <2>2, <2>4, Rate
<1>2. CASE d # 0
  <2>1. d - 1 \in Nat
    BY <1>2
  <2>2. PICK q \in Nat, p \in 0..(RATE - 1) :
            (d - 1) \div RATE = q /\ ((d - 1) % RATE) = p /\ d - 1 = RATE * q + p
    BY <2>1, PlaceParts
  <2>3. Turns(d) = q /\ RATE * q \in Nat
    BY <1>2, <2>2, Rate DEF Turns
  <2>4. d - RATE * Turns(d) = p + 1 /\ p + 1 \in 0..RATE
    BY <2>2, <2>3, Rate
  <2>5. PICK e \in Seq(States) : e = B \o Nothings(q)
    BY NothingMore
  <2>6. PICK x \in 0..RATE : x = d - RATE * Turns(d)
    BY <2>4
  <2>7. Given(B, d) = Context(e, Nothing, x)
    BY <2>3, <2>5, <2>6 DEF Given
  <2>8. Given(B, d).perms = e /\ Given(B, d).pt = x
    BY <2>7 DEF Context
  <2> QED
    BY <2>5, <2>6, <2>8
<1> QED
  BY <1>1, <1>2

LEMMA XofInit_Inv == XofInit => XofInv
<1> SUFFICES ASSUME XofInit PROVE XofInv
  OBVIOUS
<1>1. message = <<>> /\ phase = "none" /\ sponge = Taken(<<>>) /\ <<>> \in Seq(Nat)
  BY StartTakes DEF XofInit
<1>2. sponge.perms \in Seq(States) /\ sponge.pt \in 0..RATE
  <2>1. Taken(<<>>).perms \in Seq(States) /\ Taken(<<>>).pt \in 0..(RATE - 1)
    BY <1>1, TakenFits, Zenon
  <2>2. sponge.pt \in 0..(RATE - 1)
    BY <1>1, <2>1
  <2> QED
    BY <1>1, <2>1, <2>2, Rate
<1> QED
  BY <1>1, <1>2 DEF XofInit, XofInv, XofTypes, SpongeFits, SpongeIsTaken, SpongeIsGiven

LEMMA XofStart_Inv == XofInv /\ Start => XofInv'
<1> SUFFICES ASSUME XofInv, Start PROVE XofInv'
  OBVIOUS
<1>1. alg' = "keccak" /\ phase' = "absorb" /\ message' = <<>> /\ squeezed' = 0
      /\ sponge' = Taken(<<>>) /\ <<>> \in Seq(Nat)
  BY StartTakes DEF Start
<1>2. Taken(<<>>).perms \in Seq(States) /\ Taken(<<>>).pt \in 0..(RATE - 1)
  BY <1>1, TakenFits, Zenon
<1>3. \A x \in 0..(RATE - 1) : x \in 0..RATE /\ x < RATE
  BY Rate
<1>4. SpongeFits'
  BY <1>1, <1>2, <1>3 DEF SpongeFits
<1> QED
  BY <1>1, <1>4 DEF XofInv, XofTypes, SpongeIsTaken, SpongeIsGiven

LEMMA XofUpdate_Inv == XofInv /\ Update => XofInv'
<1> SUFFICES ASSUME XofInv, Update PROVE XofInv'
  OBVIOUS
<1>1. PICK n \in Chunks :
          /\ phase = "absorb"
          /\ sponge' = sha3_update(sponge, Piece(Len(message), n))
          /\ message' = message \o Piece(Len(message), n)
          /\ UNCHANGED <<alg, phase, out, squeezed>>
  BY DEF Update
<1>2. message \in Seq(Nat) /\ sponge = Taken(message) /\ squeezed = 0
  BY <1>1 DEF XofInv, XofTypes, SpongeIsTaken
<1>3. n \in Nat /\ Len(message) \in Nat
  BY <1>2, XofAssumption
<1>4. PICK data \in Seq(Nat) : data = Piece(Len(message), n)
  BY <1>3, PieceType
<1>5. message' \in Seq(Nat) /\ sponge' = Taken(message')
  <2>1. message \o data \in Seq(Nat)
    BY <1>2
  <2>2. sha3_update(Taken(message), data) = Taken(message \o data)
    BY <1>2, UpdateTakes
  <2> QED
    BY <1>1, <1>2, <1>4, <2>1, <2>2
<1>6. PICK m \in Seq(Nat) : m = message'
  BY <1>5
<1>7. Taken(m).perms \in Seq(States) /\ Taken(m).pt \in 0..(RATE - 1)
  BY TakenFits
<1>8. \A x \in 0..(RATE - 1) : x \in 0..RATE /\ x < RATE
  BY Rate
<1>9. SpongeFits'
  BY <1>5, <1>6, <1>7, <1>8 DEF SpongeFits
<1> QED
  BY <1>1, <1>2, <1>5, <1>9 DEF XofInv, XofTypes, SpongeIsTaken, SpongeIsGiven

LEMMA XofFinal_Inv == XofInv /\ Final => XofInv'
<1> SUFFICES ASSUME XofInv, Final PROVE XofInv'
  OBVIOUS
<1>1. PICK n \in Chunks \cap 0..RATE :
          /\ phase = "absorb" /\ phase' = "none"
          /\ sponge' = sha3_final(sponge, n).state
          /\ UNCHANGED <<alg, message, squeezed>>
  BY DEF Final
<1>2. message \in Seq(Nat) /\ sponge = Taken(message)
  BY <1>1 DEF XofInv, XofTypes, SpongeIsTaken
<1>3. PICK B \in Seq(States) : B = Keccak!Blocks(message, HASH_SUFFIX)
  BY <1>1, <1>2, FinalGives
<1>4. sponge' = Context(B, Nothing, Len(message) % RATE)
  BY <1>1, <1>2, <1>3, FinalGives
<1>5. PICK p \in 0..RATE : p = Len(message) % RATE
  BY <1>2, MessageParts, Rate
<1>6. sponge'.perms = B /\ sponge'.pt = p
  BY <1>4, <1>5 DEF Context
<1>7. SpongeFits'
  BY <1>1, <1>3, <1>5, <1>6 DEF SpongeFits
<1> QED
  BY <1>1, <1>7 DEF XofInv, XofTypes, SpongeIsTaken, SpongeIsGiven

LEMMA XofClose_Inv == XofInv /\ Close => XofInv'
<1> SUFFICES ASSUME XofInv, Close PROVE XofInv'
  OBVIOUS
<1>1. /\ phase = "absorb" /\ phase' = "squeeze"
      /\ sponge' = shake_xof(sponge)
      /\ UNCHANGED <<alg, out, message, squeezed>>
  BY DEF Close
<1>2. message \in Seq(Nat) /\ sponge = Taken(message) /\ squeezed = 0 /\ alg # "ascon"
  BY <1>1 DEF XofInv, XofTypes, SpongeIsTaken
<1>3. PICK B : B = Keccak!Blocks(message, XOF_SUFFIX)
  OBVIOUS
<1>4. B \in Seq(States) /\ sponge' = Given(B, 0)
  BY <1>1, <1>2, <1>3, CloseGives
<1>5. Given(B, 0).perms \in Seq(States) /\ Given(B, 0).pt \in 0..RATE
  BY <1>4, GivenFits
<1>6. SpongeFits'
  BY <1>1, <1>4, <1>5 DEF SpongeFits
<1>7. Keccak!Blocks(message', XOF_SUFFIX) = B
  BY <1>1, <1>3
<1>8. SpongeIsGiven'
  BY <1>1, <1>2, <1>4, <1>7 DEF SpongeIsGiven
<1> QED
  BY <1>1, <1>6, <1>8 DEF XofInv, XofTypes, SpongeIsTaken

LEMMA XofOut_Inv == XofInv /\ Out => XofInv'
<1> SUFFICES ASSUME XofInv, Out PROVE XofInv'
  OBVIOUS
<1>1. PICK n \in Chunks :
          /\ phase = "squeeze" /\ squeezed' = squeezed + n
          /\ sponge' = shake_out(sponge, n).state
          /\ UNCHANGED <<alg, phase, message>>
  BY DEF Out
<1>2. /\ message \in Seq(Nat) /\ squeezed \in Nat /\ n \in Nat
      /\ sponge = Given(Keccak!Blocks(message, XOF_SUFFIX), squeezed)
  BY <1>1, XofAssumption DEF XofInv, XofTypes, SpongeIsGiven
<1>3. PICK B : B = Keccak!Blocks(message, XOF_SUFFIX)
  OBVIOUS
<1>4. B \in Seq(States)
  BY <1>2, <1>3, CloseGives
<1>5. sponge' = Given(B, squeezed + n)
  BY <1>1, <1>2, <1>3, <1>4, OutGives
<1>6. PICK d \in Nat : d = squeezed + n
  BY <1>2
<1>7. Given(B, d).perms \in Seq(States) /\ Given(B, d).pt \in 0..RATE
  BY <1>4, GivenFits
<1>8. SpongeFits'
  BY <1>1, <1>5, <1>6, <1>7 DEF SpongeFits
<1>9. Keccak!Blocks(message', XOF_SUFFIX) = B
  BY <1>1, <1>3
<1>10. SpongeIsGiven'
  BY <1>1, <1>5, <1>9 DEF SpongeIsGiven
<1> QED
  BY <1>1, <1>2, <1>6, <1>8, <1>10 DEF XofInv, XofTypes, SpongeIsTaken

LEMMA XofStep_Inv == XofInv /\ [XofNext]_xofVars => XofInv'
<1> SUFFICES ASSUME XofInv, [XofNext]_xofVars PROVE XofInv'
  OBVIOUS
<1>1. CASE OneCall
  BY <1>1 DEF OneCall, XofInv, XofTypes, SpongeFits, SpongeIsTaken, SpongeIsGiven, Taken, Given
<1>2. CASE UNCHANGED xofVars
  BY <1>2 DEF xofVars, XofInv, XofTypes, SpongeFits, SpongeIsTaken, SpongeIsGiven
<1> QED
  BY <1>1, <1>2, XofStart_Inv, XofUpdate_Inv, XofFinal_Inv, XofClose_Inv, XofOut_Inv
     DEF XofNext

(* A context is in the state that its message, and what was drawn of it, determine. *)
THEOREM ContextFollowsCalls == XofSpec => []XofInv
BY XofInit_Inv, XofStep_Inv, PTL DEF XofSpec

(* A context has its type, and room for the byte that pads (sha3_api.c:54). *)
THEOREM ContextTyped == XofSpec => []XofTypeOK
<1>1. XofInv => XofTypeOK
  <2> SUFFICES ASSUME XofInv PROVE XofTypeOK
    OBVIOUS
  <2>1. sponge.perms \in Seq(States) /\ sponge.pt \in 0..RATE
    BY DEF XofInv, SpongeFits
  <2>2. \A b \in DOMAIN sponge.perms : DOMAIN sponge.perms[b] = 0..(RATE - 1)
    BY <2>1 DEF States
  <2> QED
    BY <2>1, <2>2 DEF XofInv, XofTypes, SpongeFits, XofTypeOK
<1> QED
  BY <1>1, ContextFollowsCalls, PTL

-----------------------------------------------------------------------------
(***************************************************************************)
(* Each call is a step of the abstract specification, or none.             *)
(***************************************************************************)
LEMMA StartStreams ==
    ASSUME Start
    PROVE  Keccak!Next
BY DEF Start, Keccak!Next, Keccak!Start, Suffix

LEMMA UpdateStreams ==
    ASSUME Update
    PROVE  Keccak!Next
<1>1. PICK n \in Chunks :
          /\ phase = "absorb"
          /\ message' = message \o Piece(Len(message), n)
          /\ UNCHANGED <<alg, phase, out, squeezed>>
  BY DEF Update
<1>2. message' = message \o Keccak!Piece(Len(message), n)
  BY <1>1, SamePieces
<1>3. Keccak!Absorb(n)
  BY <1>1, <1>2 DEF Keccak!Absorb, Suffix
<1> QED
  BY <1>3 DEF Keccak!Next

LEMMA FinalStreams ==
    ASSUME XofInv, Final
    PROVE  Keccak!Next
<1>1. PICK n \in Chunks \cap 0..RATE :
          /\ phase = "absorb" /\ phase' = "none"
          /\ out' = sha3_final(sponge, n).out
          /\ UNCHANGED <<alg, message, squeezed>>
  BY DEF Final
<1>2. message \in Seq(Nat) /\ sponge = Taken(message)
  BY <1>1 DEF XofInv, XofTypes, SpongeIsTaken
<1>3. out' = Keccak!Stream(message, HASH_SUFFIX, 0, n)
  BY <1>1, <1>2, FinalGives
<1>4. Keccak!Digest(n)
  BY <1>1, <1>3 DEF Keccak!Digest, Suffix
<1> QED
  BY <1>4 DEF Keccak!Next

LEMMA CloseStreams ==
    ASSUME Close
    PROVE  Keccak!Next
BY DEF Close, Keccak!Next, Keccak!Close, Suffix

LEMMA OutStreams ==
    ASSUME XofInv, Out
    PROVE  Keccak!Next
<1>1. PICK n \in Chunks :
          /\ phase = "squeeze" /\ squeezed' = squeezed + n
          /\ out' = shake_out(sponge, n).out
          /\ UNCHANGED <<alg, phase, message>>
  BY DEF Out
<1>2. /\ message \in Seq(Nat) /\ squeezed \in Nat /\ n \in Nat
      /\ sponge = Given(Keccak!Blocks(message, XOF_SUFFIX), squeezed)
  BY <1>1, XofAssumption DEF XofInv, XofTypes, SpongeIsGiven
<1>3. PICK B : B = Keccak!Blocks(message, XOF_SUFFIX)
  OBVIOUS
<1>4. B \in Seq(States)
  BY <1>2, <1>3, CloseGives
<1>5. out' = Drawn(B, squeezed, n)
  BY <1>1, <1>2, <1>3, <1>4, OutGives
<1>6. out' = Keccak!Stream(message, XOF_SUFFIX, squeezed, n)
  BY <1>3, <1>5, KeccakStream
<1>7. Keccak!Draw(n)
  BY <1>1, <1>6 DEF Keccak!Draw, Suffix
<1> QED
  BY <1>7 DEF Keccak!Next

LEMMA OneCallStreams ==
    ASSUME OneCall
    PROVE  /\ alg = "keccak" => Keccak!Next
           /\ alg = "ascon" => Ascon!Next
<1>1. PICK n \in Chunks, k \in Chunks :
          /\ phase = "none"
          /\ \/ alg = "keccak" /\ out' = kyber_shake256(n, k)
             \/ alg = "keccak" /\ k <= RATE /\ out' = sha3(n, k)
             \/ alg = "ascon" /\ k > 0 /\ k % RATE = 0 /\ out' = ascon_hash(n, k)
          /\ UNCHANGED <<alg, phase, sponge, message, squeezed>>
  BY DEF OneCall
<1>2. n \in Nat /\ k \in Nat
  BY XofAssumption
<1>3. Suffix' = Suffix
  BY <1>1 DEF Suffix
<1>4. ASSUME alg = "keccak" PROVE Keccak!Next
  <2>1. PICK pad \in {HASH_SUFFIX, XOF_SUFFIX} : out' = Keccak!Stream(Piece(0, n), pad, 0, k)
    <3>1. out' = kyber_shake256(n, k) \/ (k <= RATE /\ out' = sha3(n, k))
      BY <1>1, <1>4
    <3> QED
      BY <1>2, <3>1, CallsGive
  <2>2. Keccak!Once(pad, n, k)
    BY <1>1, <1>3, <2>1, SamePieces DEF Keccak!Once
  <2> QED
    BY <2>2 DEF Keccak!Next
<1>5. ASSUME alg = "ascon" PROVE Ascon!Next
  <2>1. k > 0 /\ k % RATE = 0 /\ out' = ascon_hash(n, k)
    BY <1>1, <1>5
  <2>2. out' = Ascon!Stream(Piece(0, n), XOF_SUFFIX, 0, k)
    BY <1>2, <2>1, CallsGive
  <2>3. Ascon!Once(XOF_SUFFIX, n, k)
    BY <1>1, <1>3, <2>2, SamePieces DEF Ascon!Once
  <2> QED
    BY <2>3 DEF Ascon!Next
<1> QED
  BY <1>4, <1>5

(***************************************************************************)
(* However a message is cut up on its way in, and its output on its way    *)
(* out, what is written is the next part of the one stream that the        *)
(* message determines; and a digest, or what one call returns, is the      *)
(* start of it (sha3_api.c:54-141 and ascon_hash.c:44-120).                *)
(***************************************************************************)
THEOREM StreamOfMessage == XofSpec => OneStream
<1>1. ASSUME XofInv, [XofNext]_xofVars
      PROVE  [/\ alg = "keccak" => [Keccak!Next]_<<phase, message, Suffix, squeezed, out>>
              /\ alg = "ascon" => [Ascon!Next]_<<phase, message, Suffix, squeezed, out>>]_xofVars
  <2>1. CASE OneCall
    BY <2>1, OneCallStreams
  <2>2. CASE Start \/ Update \/ Final \/ Close \/ Out
    <3>1. Keccak!Next
      BY <1>1, <2>2, StartStreams, UpdateStreams, FinalStreams, CloseStreams, OutStreams
    <3>2. alg # "ascon"
      BY <1>1, <2>2 DEF XofInv, XofTypes, Start, Update, Final, Close, Out
    <3> QED
      BY <3>1, <3>2
  <2>3. CASE UNCHANGED xofVars
    BY <2>3
  <2> QED
    BY <1>1, <2>1, <2>2, <2>3 DEF XofNext
<1> QED
  BY <1>1, ContextFollowsCalls, PTL DEF XofSpec, OneStream

-----------------------------------------------------------------------------
(***************************************************************************)
(* The transform.  A coefficient between layers: canonical with the Kyber  *)
(* instructions, and within a bound without them.                          *)
(***************************************************************************)
Coefficient(ise, v, b) == IF ise THEN v \in 0..(KYBER_Q - 1) ELSE v \in (-b)..b

LEMMA NttNumbers ==
    /\ KyberConstants /\ KYBER_Q \in Nat /\ KYBER_Q > 2 /\ h \in Nat /\ 9 * KYBER_Q < h
    /\ KYBER_Q * R <= 4 * BarrettPower
    /\ KYBER_N = 256 /\ Indices = 0..255
<1>1. KyberConstants /\ 18 * KYBER_Q < R
  BY NttAssumption
<1>2. KYBER_Q \in Nat /\ KYBER_Q > 2 /\ h \in Nat /\ R \in Nat /\ R = 2 * h
  BY <1>1, Constants
<1>3. 9 * KYBER_Q < h
  BY <1>1, <1>2, SMT
<1> QED
  BY <1>1, <1>2, <1>3, NttAssumption, SMT DEF Indices

LEMMA CoefficientInt ==
    ASSUME NEW ise, NEW b \in Nat, NEW v, Coefficient(ise, v, b)
    PROVE  v \in Int
  BY DEF Coefficient

LEMMA CoefficientWithin ==
    ASSUME NEW ise \in BOOLEAN, NEW b \in Nat, NEW c \in Nat, b <= c, NEW v, Coefficient(ise, v, b)
    PROVE  Coefficient(ise, v, c)
  BY DEF Coefficient

(* A product of which one factor is at most KYBER_Q and the other fits 16 bits. *)
LEMMA ProductBounded ==
    ASSUME NEW q \in Nat \ {0}, NEW g \in Nat \ {0}, NEW a \in (-q)..q, NEW b \in (1 - g)..(g - 1)
    PROVE  a * b \in Int /\ -(g * q) <= a * b /\ a * b < g * q
<1>1. PICK c \in 0..q : a = c \/ a = -c
  <2>1. CASE a >= 0
    BY <2>1
  <2>2. CASE a < 0
    <3>1. -a \in 0..q /\ a = -(-a)
      BY <2>2
    <3> QED
      BY <3>1
  <2> QED
    BY <2>1, <2>2
<1>2. c * b \in Int /\ c * b <= c * (g - 1) /\ c * b >= -(c * (g - 1)) /\ c * (g - 1) <= q * (g - 1)
      /\ c * (g - 1) \in Int
  BY SMT
<1>3. a * b = c * b \/ a * b = -(c * b)
  BY <1>1, SMT
<1>4. q * (g - 1) = g * q - q /\ g * q \in Int
  BY SMT
<1> QED
  BY <1>2, <1>3, <1>4

LEMMA ProductReduced ==
    ASSUME NEW ise \in BOOLEAN, NEW a \in Int, NEW b \in Int,
           ~ise => a \in (-KYBER_Q)..KYBER_Q /\ b \in (1 - h)..(h - 1)
    PROVE  Coefficient(ise, fqmul(ise, a, b), KYBER_Q - 1)
<1>1. CASE ise
  <2>1. a * b \in Int
    BY SMT
  <2>2. (a * b) % KYBER_Q \in 0..(KYBER_Q - 1)
    BY <2>1, NttNumbers, DivMod
  <2> QED
    BY <1>1, <2>2 DEF fqmul, Coefficient
<1>2. CASE ~ise
  <2>1. KYBER_Q \in Nat \ {0} /\ h \in Nat \ {0}
    BY NttNumbers
  <2>2. a * b \in Int /\ -(h * KYBER_Q) <= a * b /\ a * b < h * KYBER_Q
    BY <1>2, <2>1, ProductBounded
  <2>3. montgomery_reduce(a * b) \in (1 - KYBER_Q)..(KYBER_Q - 1)
    BY <2>2, NttNumbers, MontgomeryCorrect
  <2>4. -(KYBER_Q - 1) = 1 - KYBER_Q
    BY <2>1
  <2> QED
    BY <1>2, <2>3, <2>4 DEF fqmul, Coefficient
<1> QED
  BY <1>1, <1>2

LEMMA SumFits ==
    ASSUME NEW ise \in BOOLEAN, NEW b \in Nat, NEW c \in Nat, b + c < h, NEW x, NEW y,
           Coefficient(ise, x, b), Coefficient(ise, y, c)
    PROVE  Coefficient(ise, Plus(ise, x, y), b + c) /\ Coefficient(ise, Minus(ise, x, y), b + c)
<1>1. x \in Int /\ y \in Int
  BY CoefficientInt
<1>2. CASE ise
  <2>1. (x + y) % KYBER_Q \in 0..(KYBER_Q - 1) /\ (x - y) % KYBER_Q \in 0..(KYBER_Q - 1)
    <3>1. x + y \in Int /\ x - y \in Int
      BY <1>1
    <3> QED
      BY <3>1, NttNumbers, DivMod
  <2> QED
    BY <1>2, <2>1 DEF Plus, Minus, Coefficient
<1>3. CASE ~ise
  <2>1. x + y \in (-(b + c))..(b + c) /\ x - y \in (-(b + c))..(b + c)
    BY <1>3 DEF Coefficient
  <2>2. x + y \in (-h)..(h - 1) /\ x - y \in (-h)..(h - 1)
    BY <2>1, NttNumbers
  <2>3. Int16(x + y) = x + y /\ Int16(x - y) = x - y
    BY <2>2, NttNumbers, Int16Identity
  <2> QED
    BY <1>3, <2>1, <2>3 DEF Plus, Minus, Coefficient
<1> QED
  BY <1>2, <1>3

LEMMA ReducedOnce ==
    ASSUME NEW ise \in BOOLEAN, NEW b \in Nat, b < h, NEW v, Coefficient(ise, v, b)
    PROVE  Coefficient(ise, Reduce(ise, v), KYBER_Q) /\ Reduce(ise, v) \in 0..KYBER_Q
<1>1. CASE ise
  BY <1>1, NttNumbers DEF Reduce, Coefficient
<1>2. CASE ~ise
  <2>1. v \in (-h)..(h - 1)
    BY <1>2, NttNumbers DEF Coefficient
  <2>2. barrett_reduce(v) \in 0..KYBER_Q
    BY <2>1, NttNumbers, BarrettCorrect
  <2> QED
    BY <1>2, <2>2, NttNumbers DEF Reduce, Coefficient
<1> QED
  BY <1>1, <1>2

(***************************************************************************)
(* Forward, every block adds at most KYBER_Q to the coefficients it is     *)
(* about, whatever the bound b of the layer before.                        *)
(***************************************************************************)
Fits(ise, r, b) == DOMAIN r = Indices /\ \A i \in Indices : Coefficient(ise, r[i], b)

UpTo(ise, r, start, b) ==
    /\ DOMAIN r = Indices
    /\ \A i \in Indices : Coefficient(ise, r[i], IF i < start THEN b + KYBER_Q ELSE b)

LEMMA ForwardBlock ==
    ASSUME NEW ise \in BOOLEAN, NEW b \in Nat, b <= 8 * KYBER_Q, NEW r,
           NEW len \in Nat \ {0}, NEW start \in Nat, start + 2 * len <= 256,
           UpTo(ise, r, start, b), NEW zeta \in 0..(KYBER_Q - 1)
    PROVE  UpTo(ise, NttBlock(ise, r, len, start, zeta), start + 2 * len, b)
<1> DEFINE t(j) == fqmul(ise, zeta, r[j + len])
           q == NttBlock(ise, r, len, start, zeta)
<1>1. b + KYBER_Q < h /\ b + KYBER_Q \in Nat /\ Indices = 0..255 /\ DOMAIN r = Indices
  BY NttNumbers DEF UpTo
<1>2. \A i \in Indices : q[i] = IF i \in start..(start + len - 1) THEN Plus(ise, r[i], t(i))
                               ELSE IF i \in (start + len)..(start + 2 * len - 1)
                               THEN Minus(ise, r[i - len], t(i - len)) ELSE r[i]
  BY <1>1 DEF NttBlock
<1>3. DOMAIN q = Indices
  BY <1>1 DEF NttBlock
<1> HIDE DEF q
<1>4. ASSUME NEW j \in start..(start + len - 1)
      PROVE  Coefficient(ise, Plus(ise, r[j], t(j)), b + KYBER_Q)
             /\ Coefficient(ise, Minus(ise, r[j], t(j)), b + KYBER_Q)
  <2>1. j \in Indices /\ j + len \in Indices /\ ~(j < start) /\ ~(j + len < start)
    BY <1>1
  <2>2. Coefficient(ise, r[j], b) /\ Coefficient(ise, r[j + len], b)
    BY <2>1 DEF UpTo
  <2>3. r[j + len] \in Int /\ (~ise => r[j + len] \in (1 - h)..(h - 1))
    BY <1>1, <2>2, NttNumbers DEF Coefficient
  <2>4. Coefficient(ise, t(j), KYBER_Q - 1)
    <3>1. zeta \in Int /\ zeta \in (-KYBER_Q)..KYBER_Q
      BY NttNumbers
    <3> QED
      BY <2>3, <3>1, ProductReduced
  <2>5. Coefficient(ise, t(j), KYBER_Q)
    <3>1. KYBER_Q - 1 \in Nat /\ KYBER_Q \in Nat /\ KYBER_Q - 1 <= KYBER_Q
      BY NttNumbers
    <3> QED
      BY <2>4, <3>1, CoefficientWithin
  <2> HIDE DEF t
  <2> QED
    BY <1>1, <2>2, <2>5, NttNumbers, SumFits
<1>5. \A i \in Indices : /\ i < start => Coefficient(ise, r[i], b + KYBER_Q)
                         /\ ~(i < start) => Coefficient(ise, r[i], b)
  BY Zenon DEF UpTo
<1>6. ASSUME NEW i \in Indices
      PROVE  Coefficient(ise, q[i], IF i < start + 2 * len THEN b + KYBER_Q ELSE b)
  <2>1. CASE i < start
    <3>1. /\ i \notin start..(start + len - 1) /\ i \notin (start + len)..(start + 2 * len - 1)
          /\ i < start + 2 * len
      BY <1>1, <2>1
    <3>2. q[i] = r[i] /\ i < start + 2 * len
      BY <1>2, <3>1
    <3>3. Coefficient(ise, r[i], b + KYBER_Q)
      BY <1>5, <2>1
    <3> QED
      BY <3>2, <3>3
  <2>2. CASE i \in start..(start + len - 1)
    <3>1. q[i] = Plus(ise, r[i], t(i)) /\ i < start + 2 * len
      BY <1>2, <2>2
    <3> HIDE DEF t
    <3> QED
      BY <1>4, <2>2, <3>1
  <2>3. CASE i \in (start + len)..(start + 2 * len - 1)
    <3>1. i - len \in start..(start + len - 1) /\ i \notin start..(start + len - 1)
          /\ i < start + 2 * len
      BY <2>3
    <3>2. q[i] = Minus(ise, r[i - len], t(i - len))
      BY <1>2, <2>3, <3>1
    <3> HIDE DEF t
    <3> QED
      BY <1>4, <3>1, <3>2
  <2>4. CASE i >= start + 2 * len
    <3>1. /\ i \notin start..(start + len - 1) /\ i \notin (start + len)..(start + 2 * len - 1)
          /\ ~(i < start + 2 * len) /\ ~(i < start)
      BY <1>1, <2>4
    <3>2. q[i] = r[i] /\ ~(i < start + 2 * len) /\ ~(i < start)
      BY <1>2, <3>1
    <3>3. Coefficient(ise, r[i], b)
      BY <1>5, <3>2
    <3> QED
      BY <3>2, <3>3
  <2> QED
    BY <1>1, <2>1, <2>2, <2>3, <2>4
<1> QED
  BY <1>3, <1>6 DEF UpTo, q

(***************************************************************************)
(* The loops of ntt are in layer l, with the blocks before start done; in  *)
(* layer 8, after the last one.  The number of the root follows from both. *)
(***************************************************************************)
LayerLen(l) == <<128, 64, 32, 16, 8, 4, 2, 1>>[l]

InLayer(ise, t, l) ==
    /\ t.len = LayerLen(l) /\ t.start \in Nat /\ t.start < 256 /\ (l = 8 => t.start = 0)
    /\ t.k \in Nat /\ t.k * (2 * t.len) = 256 + t.start
    /\ UpTo(ise, t.r, t.start, l * KYBER_Q)

Looping(ise, t) == \E l \in 1..8 : InLayer(ise, t, l)

Before(l, len, start, k) ==
    /\ len = LayerLen(l) /\ start \in Nat /\ start < 256
    /\ k \in Nat /\ k * (2 * len) = 256 + start

After(l, len, k, next) ==
    /\ len \in Nat \ {0} /\ len >= 2 /\ len \div 2 = LayerLen(l + 1)
    /\ next \in Nat /\ next <= 256 /\ k \in 1..127 /\ (k + 1) * (2 * len) = 256 + next
    /\ next = 256 => (k + 1) * (2 * LayerLen(l + 1)) = 256

LEMMA LoopNumbers ==
    ASSUME NEW l \in 1..7, NEW len, NEW start, NEW k, Before(l, len, start, k)
    PROVE  After(l, len, k, start + 2 * len)
<1>1. CASE l = 1
  BY <1>1, SMT DEF LayerLen, Before, After
<1>2. CASE l = 2
  BY <1>2, SMT DEF LayerLen, Before, After
<1>3. CASE l = 3
  BY <1>3, SMT DEF LayerLen, Before, After
<1>4. CASE l = 4
  BY <1>4, SMT DEF LayerLen, Before, After
<1>5. CASE l = 5
  BY <1>5, SMT DEF LayerLen, Before, After
<1>6. CASE l = 6
  BY <1>6, SMT DEF LayerLen, Before, After
<1>7. CASE l = 7
  BY <1>7, SMT DEF LayerLen, Before, After
<1> QED
  BY <1>1, <1>2, <1>3, <1>4, <1>5, <1>6, <1>7

LEMMA LayerBound ==
    ASSUME NEW l \in 1..8
    PROVE  /\ l * KYBER_Q \in Nat /\ l * KYBER_Q + KYBER_Q = (l + 1) * KYBER_Q
           /\ l * KYBER_Q <= 8 * KYBER_Q
  BY NttNumbers, SMT

LEMMA LoopStarts ==
    ASSUME NEW ise \in BOOLEAN, NEW r, Fits(ise, r, KYBER_Q)
    PROVE  Looping(ise, NttStart(r)) /\ NttStart(r).k = 1
<1> DEFINE t == NttStart(r)
<1>1. t.r = r /\ t.len = 128 /\ t.start = 0 /\ t.k = 1
  BY NttNumbers DEF NttStart
<1>2. UpTo(ise, r, 0, KYBER_Q)
  <2>1. \A i \in Indices : ~(i < 0)
    BY NttNumbers
  <2> QED
    BY <2>1 DEF UpTo, Fits
<1>3. 1 * KYBER_Q = KYBER_Q /\ LayerLen(1) = 128 /\ 1 * (2 * 128) = 256 + 0
  BY NttNumbers, SMT DEF LayerLen, Before, After
<1> HIDE DEF t
<1>4. InLayer(ise, t, 1)
  BY <1>1, <1>2, <1>3 DEF InLayer
<1> QED
  BY <1>1, <1>4 DEF Looping, t

LEMMA LoopSteps ==
    ASSUME NEW ise \in BOOLEAN, NEW t, Looping(ise, t), t.len >= 2
    PROVE  Looping(ise, NttStep(ise, t)) /\ NttStep(ise, t).k = t.k + 1
<1>1. PICK l \in 1..8 : InLayer(ise, t, l)
  BY DEF Looping
<1>2. l \in 1..7
  BY <1>1, SMT DEF InLayer, LayerLen
<1> DEFINE next == t.start + 2 * t.len
           u == NttStep(ise, t)
           r == NttBlock(ise, t.r, t.len, t.start, Zetas[ise][t.k])
<1>3. /\ t.len = LayerLen(l) /\ t.start \in Nat /\ t.start < 256
      /\ t.k \in Nat /\ t.k * (2 * t.len) = 256 + t.start
      /\ UpTo(ise, t.r, t.start, l * KYBER_Q)
  BY <1>1 DEF InLayer
<1>4. After(l, t.len, t.k, next)
  <2>1. Before(l, t.len, t.start, t.k)
    BY <1>3 DEF Before
  <2> QED
    BY <1>2, <2>1, LoopNumbers
<1>5. /\ t.len \in Nat \ {0} /\ t.len >= 2 /\ t.len \div 2 = LayerLen(l + 1)
      /\ next \in Nat /\ next <= 256 /\ t.k \in 1..127 /\ (t.k + 1) * (2 * t.len) = 256 + next
      /\ next = 256 => (t.k + 1) * (2 * LayerLen(l + 1)) = 256
  BY <1>2, <1>4 DEF After
<1>6. Zetas[ise][t.k] \in 0..(KYBER_Q - 1)
  <2>1. \A b \in BOOLEAN : \A k \in 1..127 : Canonical(Zetas[b][k])
    BY NttAssumption
  <2> QED
    BY <1>5, <2>1 DEF Canonical
<1>7. UpTo(ise, r, next, l * KYBER_Q)
  <2>1. l * KYBER_Q \in Nat /\ l * KYBER_Q <= 8 * KYBER_Q
    BY LayerBound
  <2> DEFINE b == l * KYBER_Q
             zeta == Zetas[ise][t.k]
  <2>2. b \in Nat /\ b <= 8 * KYBER_Q /\ zeta \in 0..(KYBER_Q - 1) /\ UpTo(ise, t.r, t.start, b)
    BY <1>3, <1>6, <2>1
  <2> HIDE DEF b, zeta
  <2>3. UpTo(ise, NttBlock(ise, t.r, t.len, t.start, zeta), t.start + 2 * t.len, b)
    BY <1>3, <1>5, <2>2, ForwardBlock
  <2> QED
    BY <2>3 DEF b, zeta
<1>8. u.r = r /\ u.k = t.k + 1
      /\ u.len = (IF next < 256 THEN t.len ELSE t.len \div 2)
      /\ u.start = (IF next < 256 THEN next ELSE 0)
  BY NttNumbers DEF NttStep
<1>9. next \in Nat /\ t.k + 1 \in Nat
  BY <1>3, <1>5
<1> HIDE DEF u, r, next
<1>10. CASE next < 256
  <2>1. InLayer(ise, u, l)
    BY <1>2, <1>3, <1>5, <1>7, <1>8, <1>9, <1>10 DEF InLayer
  <2> QED
    BY <1>8, <2>1 DEF Looping, u
<1>11. CASE next = 256
  <2>1. UpTo(ise, r, 0, (l + 1) * KYBER_Q)
    <3>1. \A i \in Indices : i < 256 /\ ~(i < 0)
      BY NttNumbers
    <3>2. DOMAIN r = Indices /\ \A i \in Indices : Coefficient(ise, r[i], l * KYBER_Q + KYBER_Q)
      BY <1>7, <1>11, <3>1 DEF UpTo
    <3> QED
      BY <3>1, <3>2, LayerBound DEF UpTo
  <2>2. u.r = r /\ u.k = t.k + 1 /\ u.start = 0 /\ u.len = LayerLen(l + 1)
    BY <1>5, <1>8, <1>11
  <2>3. InLayer(ise, u, l + 1)
    BY <1>5, <1>9, <1>11, <2>1, <2>2 DEF InLayer
  <2>4. l + 1 \in 1..8
    BY <1>2
  <2> QED
    BY <1>8, <2>3, <2>4 DEF Looping, u
<1> QED
  BY <1>5, <1>9, <1>10, <1>11

(* While the loops go on a coefficient is within the bound of its layer; then, of the last. *)
LEMMA LoopFits ==
    ASSUME NEW ise \in BOOLEAN, NEW t, NEW l \in 1..8, InLayer(ise, t, l)
    PROVE  Fits(ise, t.r, (l + 1) * KYBER_Q) /\ (l = 8 => Fits(ise, t.r, 8 * KYBER_Q))
<1>1. /\ DOMAIN t.r = Indices
      /\ \A i \in Indices :
            Coefficient(ise, t.r[i], IF i < t.start THEN l * KYBER_Q + KYBER_Q ELSE l * KYBER_Q)
  BY DEF InLayer, UpTo
<1>2. /\ l * KYBER_Q \in Nat /\ (l + 1) * KYBER_Q \in Nat /\ l * KYBER_Q <= (l + 1) * KYBER_Q
      /\ l * KYBER_Q + KYBER_Q = (l + 1) * KYBER_Q
  BY LayerBound, NttNumbers
<1>3. ASSUME NEW i \in Indices PROVE Coefficient(ise, t.r[i], (l + 1) * KYBER_Q)
  <2>1. CASE i < t.start
    <3>1. Coefficient(ise, t.r[i], l * KYBER_Q + KYBER_Q)
      BY <1>1, <2>1
    <3> QED
      BY <1>2, <3>1
  <2>2. CASE ~(i < t.start)
    <3>1. Coefficient(ise, t.r[i], l * KYBER_Q)
      BY <1>1, <2>2
    <3> QED
      BY <1>2, <3>1, CoefficientWithin
  <2> QED
    BY <2>1, <2>2
<1>4. ASSUME l = 8, NEW i \in Indices PROVE Coefficient(ise, t.r[i], 8 * KYBER_Q)
  <2>1. ~(i < t.start)
    BY <1>4, NttNumbers DEF InLayer
  <2> QED
    BY <1>1, <1>4, <2>1
<1> QED
  BY <1>1, <1>3, <1>4 DEF Fits

(* ntt folds the loops' body over all blocks: it ends when the layers do. *)
Blocks == KYBER_N \div 2 - 1

RunOfNtt(ise, r, u) ==
    \E xs : Runs("ntt", ise, NttStart(r), xs, u, Blocks) /\ ntt(ise, r) = u[Blocks].r

LEMMA NttRuns ==
    ASSUME NEW ise, NEW r
    PROVE  \E u : RunOfNtt(ise, r, u)
<1> DEFINE n == Blocks
<1>1. n \in Nat
  BY NttNumbers DEF Blocks
<1>2. n = KYBER_N \div 2 - 1
  BY DEF Blocks
<1> HIDE DEF n
<1> DEFINE xs == [b \in 1..n |-> b]
           t == NttStart(r)
           Chain(g) == g = [x \in SUBSET (1..n) |->
                             IF x = {} THEN t ELSE NttStep(ise, g[x \ {Max(x)}])]
           f == CHOOSE g : Chain(g)
<1>3. PICK g : Folded("ntt", ise, t, xs, g, n)
  BY <1>1, FoldExists
<1>4. Chain(g)
  BY <1>3 DEF Folded, FoldStep
<1>5. Chain(f)
  BY <1>4
<1>6. ntt(ise, r) = f[1..n].r
  BY <1>2 DEF ntt, FoldLeft, MapThenFoldSet
<1>7. Folded("ntt", ise, t, xs, f, n)
  BY <1>5 DEF Folded, FoldStep
<1> HIDE DEF f, t, xs
<1>8. PICK u : Runs("ntt", ise, t, xs, u, n) /\ u[n] = f[1..n]
  BY <1>1, <1>7, FoldRuns
<1> QED
  BY <1>6, <1>8 DEF t, n, RunOfNtt

LEMMA NttFits ==
    ASSUME NEW ise \in BOOLEAN, NEW r, Fits(ise, r, KYBER_Q)
    PROVE  Fits(ise, ntt(ise, r), 8 * KYBER_Q)
<1> DEFINE m == Blocks
<1>1. m = 127
  BY NttNumbers DEF Blocks
<1>2. PICK u : RunOfNtt(ise, r, u)
  BY NttRuns
<1>3. PICK xs : Runs("ntt", ise, NttStart(r), xs, u, m) /\ ntt(ise, r) = u[m].r
  BY <1>2 DEF RunOfNtt
<1> HIDE DEF m
<1> DEFINE S == {n \in Nat : n <= m => Looping(ise, u[n]) /\ u[n].k = n + 1}
<1>4. 0 \in S
  BY <1>1, <1>3, LoopStarts DEF Runs
<1>5. ASSUME NEW n \in Nat, n \in S PROVE n + 1 \in S
  <2>1. SUFFICES ASSUME n + 1 <= m PROVE Looping(ise, u[n + 1]) /\ u[n + 1].k = n + 2
    OBVIOUS
  <2>2. Looping(ise, u[n]) /\ u[n].k = n + 1 /\ n + 1 <= m
    BY <1>1, <1>5, <2>1
  <2>3. u[n + 1] = NttStep(ise, u[n])
    BY <1>1, <1>3, <2>1 DEF Runs, FoldStep
  <2>4. u[n].len >= 2
    <3>1. PICK l \in 1..8 : InLayer(ise, u[n], l)
      BY <2>2 DEF Looping
    <3>2. l # 8
      BY <1>1, <2>2, <3>1, SMT DEF InLayer, LayerLen
    <3> QED
      BY <3>1, <3>2, SMT DEF InLayer, LayerLen
  <2>5. Looping(ise, NttStep(ise, u[n])) /\ NttStep(ise, u[n]).k = u[n].k + 1
    BY <2>2, <2>4, LoopSteps
  <2> QED
    BY <2>2, <2>3, <2>5
<1> HIDE DEF S
<1>6. m \in S
  BY <1>1, <1>4, <1>5, SetInduction
<1>7. Looping(ise, u[m]) /\ u[m].k = 128
  BY <1>1, <1>6 DEF S
<1>8. PICK l \in 1..8 : InLayer(ise, u[m], l)
  BY <1>7 DEF Looping
<1>9. l = 8
  BY <1>7, <1>8, SMT DEF InLayer, LayerLen
<1> QED
  BY <1>3, <1>8, <1>9, LoopFits

LEMMA PolyReduceFits ==
    ASSUME NEW ise \in BOOLEAN, NEW b \in Nat, b < h, NEW r, Fits(ise, r, b)
    PROVE  /\ Fits(ise, poly_reduce(ise, r), KYBER_Q)
           /\ \A i \in Indices : poly_reduce(ise, r)[i] \in 0..KYBER_Q
<1>1. /\ DOMAIN poly_reduce(ise, r) = Indices
      /\ \A i \in Indices : poly_reduce(ise, r)[i] = Reduce(ise, r[i])
  BY DEF poly_reduce, Map, Fits
<1> QED
  BY <1>1, ReducedOnce DEF Fits

(* The second factor of the product: a monomial transformed. *)
LEMMA MonomialFits ==
    ASSUME NEW ise \in BOOLEAN, NEW n
    PROVE  Fits(ise, poly_ntt(ise, Monomial(n)), KYBER_Q)
<1>1. Fits(ise, Monomial(n), KYBER_Q)
  BY NttNumbers DEF Fits, Coefficient, Monomial
<1>2. Fits(ise, ntt(ise, Monomial(n)), 8 * KYBER_Q)
  BY <1>1, NttFits
<1>3. 8 * KYBER_Q \in Nat /\ 8 * KYBER_Q < h
  BY NttNumbers
<1> QED
  BY <1>2, <1>3, PolyReduceFits DEF poly_ntt

(***************************************************************************)
(* The product of two polynomials reduced, and the inverse transform: its  *)
(* sums are reduced at once, so every coefficient stays within Kyber's     *)
(* modulus.                                                                *)
(***************************************************************************)
LEMMA PairZetaFits ==
    ASSUME NEW ise \in BOOLEAN, NEW i \in Indices
    PROVE  PairZeta(ise, i) \in (-KYBER_Q)..KYBER_Q
<1>1. KYBER_N \div 4 + i \div 4 \in 1..127
  BY NttNumbers
<1> DEFINE k == KYBER_N \div 4 + i \div 4
<1>2. Zetas[ise][k] \in 0..(KYBER_Q - 1)
  <2>1. \A b \in BOOLEAN : \A n \in 1..127 : Canonical(Zetas[b][n])
    BY NttAssumption
  <2> HIDE DEF k
  <2> QED
    BY <1>1, <2>1 DEF Canonical, k
<1> QED
  BY <1>2, NttNumbers DEF PairZeta

LEMMA ProductOfFits ==
    ASSUME NEW ise \in BOOLEAN, NEW x, NEW y, Coefficient(ise, x, KYBER_Q), Coefficient(ise, y, KYBER_Q)
    PROVE  Coefficient(ise, fqmul(ise, x, y), KYBER_Q - 1)
<1>1. x \in Int /\ y \in Int
  BY CoefficientInt, NttNumbers
<1>2. ~ise => x \in (-KYBER_Q)..KYBER_Q /\ y \in (1 - h)..(h - 1)
  BY NttNumbers DEF Coefficient
<1> QED
  BY <1>1, <1>2, ProductReduced

LEMMA BasemulFits ==
    ASSUME NEW ise \in BOOLEAN, NEW a, NEW b, Fits(ise, a, KYBER_Q), Fits(ise, b, KYBER_Q)
    PROVE  Fits(ise, poly_basemul_montgomery(ise, a, b), 2 * KYBER_Q)
<1> DEFINE p == poly_basemul_montgomery(ise, a, b)
           pair(i) == BasemulPair(ise, a, b, i, PairZeta(ise, i))
<1>1. DOMAIN p = Indices
      /\ \A i \in Indices : p[i] = IF i % 2 = 0 THEN pair(i)[1] ELSE pair(i - 1)[2]
  BY DEF poly_basemul_montgomery, Fits
<1> HIDE DEF p
<1>2. ASSUME NEW x, NEW y, Coefficient(ise, x, KYBER_Q - 1), Coefficient(ise, y, KYBER_Q - 1)
      PROVE  Coefficient(ise, Plus(ise, x, y), 2 * KYBER_Q)
  <2>1. Coefficient(ise, Plus(ise, x, y), (KYBER_Q - 1) + (KYBER_Q - 1))
    <3>1. KYBER_Q - 1 \in Nat /\ (KYBER_Q - 1) + (KYBER_Q - 1) < h
      BY NttNumbers
    <3> QED
      BY <1>2, <3>1, SumFits
  <2>2. (KYBER_Q - 1) + (KYBER_Q - 1) \in Nat /\ 2 * KYBER_Q \in Nat
        /\ (KYBER_Q - 1) + (KYBER_Q - 1) <= 2 * KYBER_Q
    BY NttNumbers
  <2> QED
    BY <2>1, <2>2, CoefficientWithin
<1>3. ASSUME NEW i \in Indices, i + 1 \in Indices
      PROVE  Coefficient(ise, pair(i)[1], 2 * KYBER_Q) /\ Coefficient(ise, pair(i)[2], 2 * KYBER_Q)
  <2>1. /\ Coefficient(ise, a[i], KYBER_Q) /\ Coefficient(ise, a[i + 1], KYBER_Q)
        /\ Coefficient(ise, b[i], KYBER_Q) /\ Coefficient(ise, b[i + 1], KYBER_Q)
    BY <1>3 DEF Fits
  <2> DEFINE zeta == PairZeta(ise, i)
             top == fqmul(ise, a[i + 1], b[i + 1])
  <2>2. Coefficient(ise, top, KYBER_Q - 1)
    BY <2>1, ProductOfFits
  <2>3. zeta \in (-KYBER_Q)..KYBER_Q /\ zeta \in Int
    BY PairZetaFits, NttNumbers
  <2>4. Coefficient(ise, fqmul(ise, top, zeta), KYBER_Q - 1)
    <3>1. top \in Int /\ (~ise => top \in (-KYBER_Q)..KYBER_Q)
      BY <2>2, NttNumbers DEF Coefficient
    <3>2. zeta \in (1 - h)..(h - 1)
      BY <2>3, NttNumbers
    <3> HIDE DEF top, zeta
    <3> QED
      BY <2>3, <3>1, <3>2, ProductReduced
  <2>5. /\ pair(i)[1] = Plus(ise, fqmul(ise, top, zeta), fqmul(ise, a[i], b[i]))
        /\ pair(i)[2] = Plus(ise, fqmul(ise, a[i], b[i + 1]), fqmul(ise, a[i + 1], b[i]))
    BY DEF BasemulPair
  <2> HIDE DEF top, zeta
  <2> QED
    BY <1>2, <2>1, <2>4, <2>5, ProductOfFits
<1>4. ASSUME NEW i \in Indices PROVE Coefficient(ise, p[i], 2 * KYBER_Q)
  <2>1. CASE i % 2 = 0
    <3>1. i + 1 \in Indices
      BY <2>1, NttNumbers
    <3> QED
      BY <1>1, <1>3, <2>1, <3>1
  <2>2. CASE i % 2 # 0
    <3>1. i - 1 \in Indices /\ (i - 1) + 1 = i
      BY <2>2, NttNumbers
    <3> QED
      BY <1>1, <1>3, <2>2, <3>1
  <2> QED
    BY <2>1, <2>2
<1> QED
  BY <1>1, <1>4 DEF Fits, p

(* The coefficients between the layers of invntt. *)
Reduced(ise, r) == Fits(ise, r, KYBER_Q) /\ \A i \in Indices : r[i] \in (1 - KYBER_Q)..KYBER_Q

(* The loops of invntt: where they are, and the number of the root. *)
InvLen(l) == <<2, 4, 8, 16, 32, 64, 128, 256>>[l]

InInvLayer(ise, t, l) ==
    /\ t.len = InvLen(l) /\ t.start \in Nat /\ t.start < 256 /\ (l = 8 => t.start = 0)
    /\ t.k \in Nat /\ (t.k + 1) * (2 * t.len) + t.start = 512
    /\ Reduced(ise, t.r)

InvLooping(ise, t) == \E l \in 1..8 : InInvLayer(ise, t, l)

LEMMA InvBlockFits ==
    ASSUME NEW ise \in BOOLEAN, NEW r, Reduced(ise, r),
           NEW len \in Nat \ {0}, NEW start \in Nat, start + 2 * len <= 256,
           NEW zeta \in 0..(KYBER_Q - 1)
    PROVE  Reduced(ise, InvBlock(ise, r, len, start, zeta))
<1> DEFINE q == InvBlock(ise, r, len, start, zeta)
<1>1. Indices = 0..255 /\ DOMAIN r = Indices /\ DOMAIN q = Indices
  BY NttNumbers DEF Reduced, Fits, InvBlock
<1>2. \A i \in Indices :
          q[i] = IF i \in start..(start + len - 1) THEN Reduce(ise, Plus(ise, r[i], r[i + len]))
                 ELSE IF i \in (start + len)..(start + 2 * len - 1)
                      THEN fqmul(ise, zeta, Minus(ise, r[i], r[i - len]))
                 ELSE r[i]
  BY <1>1 DEF InvBlock
<1> HIDE DEF q
<1>3. ASSUME NEW x, NEW y, Coefficient(ise, x, KYBER_Q), Coefficient(ise, y, KYBER_Q)
      PROVE  /\ Coefficient(ise, Plus(ise, x, y), KYBER_Q + KYBER_Q)
             /\ Coefficient(ise, Minus(ise, x, y), KYBER_Q + KYBER_Q)
  BY <1>3, NttNumbers, SumFits
<1>4. ASSUME NEW i \in Indices PROVE Coefficient(ise, q[i], KYBER_Q) /\ q[i] \in (1 - KYBER_Q)..KYBER_Q
  <2>1. CASE i \in start..(start + len - 1)
    <3>1. i + len \in Indices
      BY <1>1, <2>1
    <3>2. Coefficient(ise, Plus(ise, r[i], r[i + len]), KYBER_Q + KYBER_Q)
      BY <1>3, <3>1 DEF Reduced, Fits
    <3>3. KYBER_Q + KYBER_Q \in Nat /\ KYBER_Q + KYBER_Q < h
      BY NttNumbers
    <3>4. /\ Coefficient(ise, Reduce(ise, Plus(ise, r[i], r[i + len])), KYBER_Q)
          /\ Reduce(ise, Plus(ise, r[i], r[i + len])) \in 0..KYBER_Q
      BY <3>2, <3>3, ReducedOnce
    <3>5. Coefficient(ise, q[i], KYBER_Q) /\ q[i] \in 0..KYBER_Q
      BY <1>2, <2>1, <3>4
    <3> QED
      BY <3>5, NttNumbers
  <2>2. CASE i \in (start + len)..(start + 2 * len - 1)
    <3>1. i - len \in Indices /\ i \notin start..(start + len - 1)
      BY <1>1, <2>2
    <3> DEFINE d == Minus(ise, r[i], r[i - len])
    <3>2. Coefficient(ise, d, KYBER_Q + KYBER_Q)
      BY <1>3, <3>1 DEF Reduced, Fits
    <3>3. q[i] = fqmul(ise, zeta, d)
      BY <1>2, <2>2, <3>1
    <3> HIDE DEF d
    <3>4. d \in Int /\ (~ise => d \in (1 - h)..(h - 1))
      BY <3>2, NttNumbers DEF Coefficient
    <3>5. zeta \in Int /\ zeta \in (-KYBER_Q)..KYBER_Q
      BY NttNumbers
    <3>6. Coefficient(ise, q[i], KYBER_Q - 1)
      BY <3>3, <3>4, <3>5, ProductReduced
    <3>7. KYBER_Q - 1 \in Nat /\ KYBER_Q \in Nat /\ KYBER_Q - 1 <= KYBER_Q
      BY NttNumbers
    <3>8. Coefficient(ise, q[i], KYBER_Q)
      BY <3>6, <3>7, CoefficientWithin
    <3>9. q[i] \in (1 - KYBER_Q)..KYBER_Q
      BY <3>6, NttNumbers DEF Coefficient
    <3> QED
      BY <3>8, <3>9
  <2>3. CASE i \notin start..(start + len - 1) /\ i \notin (start + len)..(start + 2 * len - 1)
    BY <1>2, <2>3 DEF Reduced, Fits
  <2> QED
    BY <2>1, <2>2, <2>3
<1> QED
  BY <1>1, <1>4 DEF Reduced, Fits, q

InvBefore(l, len, start, k) ==
    /\ len = InvLen(l) /\ start \in Nat /\ start < 256
    /\ k \in Nat /\ (k + 1) * (2 * len) + start = 512

InvAfter(l, len, k, next) ==
    /\ len \in Nat \ {0} /\ 2 * len = InvLen(l + 1)
    /\ next \in Nat /\ next <= 256 /\ k \in 1..127 /\ k * (2 * len) + next = 512
    /\ next = 256 => k * (2 * InvLen(l + 1)) = 512

LEMMA InvLoopNumbers ==
    ASSUME NEW l \in 1..7, NEW len, NEW start, NEW k, InvBefore(l, len, start, k)
    PROVE  InvAfter(l, len, k, start + 2 * len)
<1>1. CASE l = 1
  BY <1>1, SMT DEF InvLen, InvBefore, InvAfter
<1>2. CASE l = 2
  BY <1>2, SMT DEF InvLen, InvBefore, InvAfter
<1>3. CASE l = 3
  BY <1>3, SMT DEF InvLen, InvBefore, InvAfter
<1>4. CASE l = 4
  BY <1>4, SMT DEF InvLen, InvBefore, InvAfter
<1>5. CASE l = 5
  BY <1>5, SMT DEF InvLen, InvBefore, InvAfter
<1>6. CASE l = 6
  BY <1>6, SMT DEF InvLen, InvBefore, InvAfter
<1>7. CASE l = 7
  BY <1>7, SMT DEF InvLen, InvBefore, InvAfter
<1> QED
  BY <1>1, <1>2, <1>3, <1>4, <1>5, <1>6, <1>7

LEMMA RootCanonical ==
    ASSUME NEW ise \in BOOLEAN, NEW k \in 1..127
    PROVE  Zetas[ise][k] \in 0..(KYBER_Q - 1)
<1>1. \A b \in BOOLEAN : \A n \in 1..127 : Canonical(Zetas[b][n])
  BY NttAssumption
<1> QED
  BY <1>1 DEF Canonical

LEMMA InvLoopStarts ==
    ASSUME NEW ise \in BOOLEAN, NEW r, Reduced(ise, r)
    PROVE  InvLooping(ise, InvStart(r))
<1> DEFINE t == InvStart(r)
<1>1. t.r = r /\ t.len = 2 /\ t.start = 0 /\ t.k = 127
  BY NttNumbers DEF InvStart
<1>2. InvLen(1) = 2 /\ (127 + 1) * (2 * 2) + 0 = 512
  BY SMT DEF InvLen
<1> HIDE DEF t
<1>3. InInvLayer(ise, t, 1)
  BY <1>1, <1>2 DEF InInvLayer
<1> QED
  BY <1>3 DEF InvLooping, t

LEMMA InvLoopSteps ==
    ASSUME NEW ise \in BOOLEAN, NEW t, InvLooping(ise, t), t.len < 256
    PROVE  InvLooping(ise, InvStep(ise, t))
<1>1. PICK l \in 1..8 : InInvLayer(ise, t, l)
  BY DEF InvLooping
<1>2. l \in 1..7
  BY <1>1, SMT DEF InInvLayer, InvLen
<1> DEFINE next == t.start + 2 * t.len
           zeta == Zetas[ise][t.k]
           u == InvStep(ise, t)
           r == InvBlock(ise, t.r, t.len, t.start, zeta)
<1>3. /\ t.len = InvLen(l) /\ t.start \in Nat /\ t.start < 256
      /\ t.k \in Nat /\ (t.k + 1) * (2 * t.len) + t.start = 512
      /\ Reduced(ise, t.r)
  BY <1>1 DEF InInvLayer
<1>4. InvAfter(l, t.len, t.k, next)
  <2>1. InvBefore(l, t.len, t.start, t.k)
    BY <1>3 DEF InvBefore
  <2> QED
    BY <1>2, <2>1, InvLoopNumbers
<1>5. /\ t.len \in Nat \ {0} /\ 2 * t.len = InvLen(l + 1)
      /\ next \in Nat /\ next <= 256 /\ t.k \in 1..127 /\ t.k * (2 * t.len) + next = 512
      /\ next = 256 => t.k * (2 * InvLen(l + 1)) = 512
  BY <1>2, <1>4 DEF InvAfter
<1>6. zeta \in 0..(KYBER_Q - 1)
  <2>1. t.k \in 1..127
    BY <1>5
  <2> HIDE DEF next, u, r
  <2> QED
    BY <2>1, RootCanonical
<1> HIDE DEF zeta
<1>7. Reduced(ise, r)
  <2>1. t.start + 2 * t.len <= 256
    BY <1>5
  <2> QED
    BY <1>3, <1>5, <1>6, <2>1, InvBlockFits
<1>8. u.r = r /\ u.k = t.k - 1
      /\ u.len = (IF next < 256 THEN t.len ELSE 2 * t.len)
      /\ u.start = (IF next < 256 THEN next ELSE 0)
  BY NttNumbers DEF InvStep, zeta
<1>9. t.k - 1 \in Nat /\ (t.k - 1) + 1 = t.k
  BY <1>5
<1> HIDE DEF u, r, next
<1>10. CASE next < 256
  <2>1. InInvLayer(ise, u, l)
    BY <1>2, <1>3, <1>5, <1>7, <1>8, <1>9, <1>10 DEF InInvLayer
  <2> QED
    BY <1>8, <2>1 DEF InvLooping, u
<1>11. CASE next = 256
  <2>1. u.r = r /\ u.k = t.k - 1 /\ u.start = 0 /\ u.len = InvLen(l + 1)
    BY <1>5, <1>8, <1>11
  <2>2. (u.k + 1) * (2 * u.len) + 0 = 512
    <3>1. t.k * (2 * u.len) = 512
      BY <1>5, <1>11, <2>1
    <3> QED
      BY <1>9, <2>1, <3>1
  <2>3. l + 1 \in 1..8
    BY <1>2
  <2>4. InInvLayer(ise, u, l + 1)
    BY <1>7, <1>9, <2>1, <2>2 DEF InInvLayer
  <2> QED
    BY <2>3, <2>4 DEF InvLooping, u
<1> QED
  BY <1>5, <1>10, <1>11

(* The factor f of invntt leaves nothing to reduce. *)
LEMMA InvScaleFits ==
    ASSUME NEW ise \in BOOLEAN, NEW r, Reduced(ise, r)
    PROVE  /\ DOMAIN InvScale(ise, r) = Indices
           /\ \A i \in Indices : Coefficient(ise, InvScale(ise, r)[i], KYBER_Q - 1)
<1>1. /\ DOMAIN InvScale(ise, r) = Indices
      /\ \A i \in Indices : InvScale(ise, r)[i] = fqmul(ise, r[i], Scale[ise])
  BY DEF InvScale, Map, Reduced, Fits
<1>2. Coefficient(ise, Scale[ise], KYBER_Q)
  <2>1. \A b \in BOOLEAN : Canonical(Scale[b])
    BY NttAssumption
  <2> QED
    BY <2>1, NttNumbers DEF Canonical, Coefficient
<1>3. \A i \in Indices : Coefficient(ise, r[i], KYBER_Q)
  BY DEF Reduced, Fits
<1> QED
  BY <1>1, <1>2, <1>3, ProductOfFits

-----------------------------------------------------------------------------
(* A polynomial of noise as it is stored, and the product with a monomial. *)
LEMMA StoredFits ==
    ASSUME NEW ise \in BOOLEAN, NEW p \in Polynomials
    PROVE  Fits(ise, Stored(ise, p), KYBER_Q)
<1>1. p \in [Indices -> (1 - KYBER_Q)..(KYBER_Q - 1)]
  BY NttAssumption
<1>2. /\ DOMAIN Stored(ise, p) = Indices
      /\ \A i \in Indices : Stored(ise, p)[i] = IF ise THEN (p[i] - 0) % KYBER_Q ELSE p[i] - 0
  BY <1>1 DEF Stored, Map, Noise
<1>3. ASSUME NEW i \in Indices PROVE Coefficient(ise, Stored(ise, p)[i], KYBER_Q)
  <2>1. p[i] \in (1 - KYBER_Q)..(KYBER_Q - 1) /\ p[i] - 0 \in Int /\ p[i] - 0 = p[i]
    BY <1>1, NttNumbers
  <2>2. (p[i] - 0) % KYBER_Q \in 0..(KYBER_Q - 1)
    BY <2>1, NttNumbers, DivMod
  <2> QED
    BY <1>2, <2>1, <2>2, NttNumbers DEF Coefficient
<1> QED
  BY <1>2, <1>3 DEF Fits

LEMMA ProductFits ==
    ASSUME NEW ise \in BOOLEAN, NEW r, Fits(ise, r, KYBER_Q), NEW n
    PROVE  Reduced(ise, poly_reduce(ise, poly_basemul_montgomery(ise, r, poly_ntt(ise, Monomial(n)))))
<1> DEFINE p == poly_basemul_montgomery(ise, r, poly_ntt(ise, Monomial(n)))
<1>1. Fits(ise, p, 2 * KYBER_Q)
  BY MonomialFits, BasemulFits
<1>2. 2 * KYBER_Q \in Nat /\ 2 * KYBER_Q < h
  BY NttNumbers
<1> HIDE DEF p
<1>3. /\ Fits(ise, poly_reduce(ise, p), KYBER_Q)
      /\ \A i \in Indices : poly_reduce(ise, p)[i] \in 0..KYBER_Q
  BY <1>1, <1>2, PolyReduceFits
<1>4. 0..KYBER_Q \subseteq (1 - KYBER_Q)..KYBER_Q
  BY NttNumbers
<1>5. Reduced(ise, poly_reduce(ise, p))
  BY <1>3, <1>4 DEF Reduced
<1> QED
  BY <1>5 DEF p

(***************************************************************************)
(* What holds of the polynomial where the multiplication is.               *)
(***************************************************************************)
NttInv ==
    /\ ntt_ise \in BOOLEAN /\ (ntt_pc = "idle" => ntt_ise = FALSE)
    /\ ntt_pc \in {"idle", "ntt", "transformed", "invntt", "done"}
    /\ ntt_pc # "idle" => "r" \in DOMAIN transform
    /\ ntt_pc = "ntt" => Looping(ntt_ise, transform)
    /\ ntt_pc = "transformed" => /\ Fits(ntt_ise, transform.r, KYBER_Q)
                                 /\ \A i \in Indices : transform.r[i] \in 0..KYBER_Q
    /\ ntt_pc = "invntt" => InvLooping(ntt_ise, transform)
    /\ ntt_pc = "done" => \A i \in Indices : Coefficient(ntt_ise, transform.r[i], KYBER_Q - 1)

LEMMA NttInvInductive == NttInv /\ [NttNext]_nttVars => NttInv'
<1> SUFFICES ASSUME NttInv, [NttNext]_nttVars PROVE NttInv'
  OBVIOUS
<1>1. CASE NttBegin
  <2>1. PICK ise \in BOOLEAN, p \in Polynomials :
            ntt_ise' = ise /\ transform' = NttStart(Stored(ise, p)) /\ ntt_pc' = "ntt"
    BY <1>1 DEF NttBegin
  <2>2. Looping(ise, NttStart(Stored(ise, p)))
    BY StoredFits, LoopStarts
  <2>3. "r" \in DOMAIN NttStart(Stored(ise, p))
    BY DEF NttStart
  <2> QED
    BY <2>1, <2>2, <2>3 DEF NttInv
<1>2. CASE Forward
  <2>1. /\ ntt_pc = "ntt" /\ ntt_pc' = ntt_pc /\ ntt_ise' = ntt_ise
        /\ transform.len >= 2 /\ transform' = NttStep(ntt_ise, transform)
    BY <1>2 DEF Forward
  <2>2. Looping(ntt_ise, transform')
    BY <2>1, LoopSteps DEF NttInv
  <2>3. "r" \in DOMAIN transform'
    BY <2>1 DEF NttStep
  <2> QED
    BY <2>1, <2>2, <2>3 DEF NttInv
<1>3. CASE EndForward
  <2>1. /\ ntt_pc = "ntt" /\ ntt_pc' = "transformed" /\ ntt_ise' = ntt_ise /\ transform.len < 2
        /\ transform' = [transform EXCEPT !.r = poly_reduce(ntt_ise, @)]
    BY <1>3 DEF EndForward
  <2>2. PICK l \in 1..8 : InLayer(ntt_ise, transform, l)
    BY <2>1 DEF NttInv, Looping
  <2>3. l = 8
    BY <2>1, <2>2, SMT DEF InLayer, LayerLen
  <2>4. Fits(ntt_ise, transform.r, 8 * KYBER_Q)
    BY <2>2, <2>3, LoopFits DEF NttInv
  <2>5. "r" \in DOMAIN transform' /\ transform'.r = poly_reduce(ntt_ise, transform.r)
    BY <2>1 DEF NttInv
  <2>6. 8 * KYBER_Q \in Nat /\ 8 * KYBER_Q < h
    BY NttNumbers
  <2>7. Fits(ntt_ise, transform'.r, KYBER_Q) /\ \A i \in Indices : transform'.r[i] \in 0..KYBER_Q
    BY <2>4, <2>5, <2>6, PolyReduceFits DEF NttInv
  <2> QED
    BY <2>1, <2>5, <2>7 DEF NttInv
<1>4. CASE Multiply
  <2>1. /\ ntt_pc = "transformed" /\ ntt_pc' = "invntt" /\ ntt_ise' = ntt_ise
        /\ transform' = InvStart(poly_reduce(ntt_ise,
                poly_basemul_montgomery(ntt_ise, transform.r, poly_ntt(ntt_ise, Monomial(shift)))))
    BY <1>4 DEF Multiply
  <2>2. InvLooping(ntt_ise, transform')
    BY <2>1, ProductFits, InvLoopStarts DEF NttInv
  <2>3. "r" \in DOMAIN transform'
    BY <2>1 DEF InvStart
  <2> QED
    BY <2>1, <2>2, <2>3 DEF NttInv
<1>5. CASE Backward
  <2>1. /\ ntt_pc = "invntt" /\ ntt_pc' = ntt_pc /\ ntt_ise' = ntt_ise
        /\ transform.len < 256 /\ transform' = InvStep(ntt_ise, transform)
    BY <1>5, NttNumbers DEF Backward
  <2>2. InvLooping(ntt_ise, transform')
    BY <2>1, InvLoopSteps DEF NttInv
  <2>3. "r" \in DOMAIN transform'
    BY <2>1 DEF InvStep
  <2> QED
    BY <2>1, <2>2, <2>3 DEF NttInv
<1>6. CASE EndBackward
  <2>1. /\ ntt_pc = "invntt" /\ ntt_pc' = "done" /\ ntt_ise' = ntt_ise
        /\ transform' = [transform EXCEPT !.r = InvScale(ntt_ise, @)]
    BY <1>6 DEF EndBackward
  <2>2. "r" \in DOMAIN transform' /\ transform'.r = InvScale(ntt_ise, transform.r)
    BY <2>1 DEF NttInv
  <2>3. Reduced(ntt_ise, transform.r)
    BY <2>1 DEF NttInv, InvLooping, InInvLayer
  <2>4. \A i \in Indices : Coefficient(ntt_ise, transform'.r[i], KYBER_Q - 1)
    BY <2>2, <2>3, InvScaleFits DEF NttInv
  <2> QED
    BY <2>1, <2>2, <2>4 DEF NttInv
<1>7. CASE UNCHANGED nttVars
  BY <1>7 DEF NttInv, nttVars
<1> QED
  BY <1>1, <1>2, <1>3, <1>4, <1>5, <1>6, <1>7 DEF NttNext

LEMMA NttInvFits == NttInv => CoefficientsFit
<1> SUFFICES ASSUME NttInv PROVE CoefficientsFit
  OBVIOUS
<1>1. KYBER_Q \in Nat /\ KYBER_Q > 2
  BY NttNumbers
<1>2. CASE ntt_pc = "idle"
  BY <1>2 DEF NttInv, CoefficientsFit
<1>3. CASE ntt_pc = "ntt"
  <2>1. PICK l \in 1..8 : InLayer(ntt_ise, transform, l)
    BY <1>3 DEF NttInv, Looping
  <2>2. Fits(ntt_ise, transform.r, (l + 1) * KYBER_Q)
    BY <2>1, LoopFits DEF NttInv
  <2>3. ntt_ise => \A i \in Indices : Canonical(transform.r[i])
    BY <2>2 DEF Fits, Coefficient, Canonical
  <2>4. ASSUME NEW m \in DOMAIN Layers, transform.len = Layers[m], NEW i \in Indices
        PROVE  transform.r[i] \in (-(m + 1) * KYBER_Q)..((m + 1) * KYBER_Q)
    <3>1. m = l
      BY <2>1, <2>4, SMT DEF InLayer, LayerLen, Layers
    <3>2. Coefficient(ntt_ise, transform.r[i], (m + 1) * KYBER_Q)
      BY <2>2, <3>1 DEF Fits
    <3>3. /\ (m + 1) * KYBER_Q \in Nat /\ -(m + 1) * KYBER_Q = -((m + 1) * KYBER_Q)
          /\ KYBER_Q <= (m + 1) * KYBER_Q
      BY <1>1, <2>4, SMT DEF Layers
    <3> DEFINE b == (m + 1) * KYBER_Q
    <3>4. transform.r[i] \in (-b)..b
      <4>1. b \in Nat /\ KYBER_Q <= b /\ Coefficient(ntt_ise, transform.r[i], b)
        BY <3>2, <3>3
      <4> HIDE DEF b
      <4> QED
        BY <1>1, <4>1 DEF Coefficient
    <3> QED
      BY <3>3, <3>4
  <2> QED
    BY <1>3, <2>3, <2>4 DEF CoefficientsFit
<1>4. CASE ntt_pc = "transformed"
  BY <1>4 DEF NttInv, CoefficientsFit, Fits, Coefficient, Canonical
<1>5. CASE ntt_pc = "invntt"
  BY <1>5 DEF NttInv, InvLooping, InInvLayer, Reduced, CoefficientsFit, Fits, Coefficient, Canonical
<1>6. CASE ntt_pc = "done"
  BY <1>1, <1>6 DEF NttInv, CoefficientsFit, Coefficient, Canonical
<1> QED
  BY <1>2, <1>3, <1>4, <1>5, <1>6 DEF NttInv

(***************************************************************************)
(* No polynomial, whatever its coefficients below KYBER_Q in magnitude,    *)
(* leaves 16 bits on its way through ntt, basemul and invntt.              *)
(***************************************************************************)
THEOREM TransformFits == NttSpec => []CoefficientsFit
<1>1. NttInit => NttInv
  BY DEF NttInit, NttInv
<1> QED
  BY <1>1, NttInvInductive, NttInvFits, PTL DEF NttSpec

-----------------------------------------------------------------------------
(* The layouts: bits a word, and byte d of the bytes of section s, which its bits from 8 * d on make. *)
Formats == {1, 4, 5, 8, 10, 11, 12}

ByteOf(b, s, d) ==
    {BitIn(q, <<s, (8 * d + q) \div b, (8 * d + q) % b>>) : q \in 0..7}

PackedByte(sec, s, p) == ByteOf(sec.bits, s, p - sec.at)

(* Bytes that a group of words is unpacked from. *)
UnpackedBytes(b) == (Len(Unpack(b)) * b) \div 8

SectionBytes(sec) == (sec.words * sec.bits) \div 8

InSection(sec, p) == p \in sec.at..(sec.at + SectionBytes(sec) - 1)

(* The bytes of an object packed below byte end, ... *)
PackedBelow(o, bs, end) ==
    \A s \in 1..Len(Layout(o)), p \in 0..(Size(o) - 1) :
        InSection(Layout(o)[s], p) /\ p < end => bs[p] = PackedByte(Layout(o)[s], s, p)

(* ... the words of it unpacked before section sec, and below word end of that one, ... *)
ReadBelow(o, ws, sec, end) ==
    \A s \in 1..Len(Layout(o)), n \in Nat :
        n < Layout(o)[s].words /\ (s < sec \/ (s = sec /\ n < end)) => <<s, n>> \in DOMAIN ws

(* ... which all are words that were packed, ... *)
ReadRight(o, ws) == \A w \in DOMAIN ws : ws[w] = Word(w[1], w[2], Layout(o)[w[1]].bits)

(* ... and a group that is one of its section. *)
Within(o, sec, g, perGroup) ==
    /\ sec \in 1..Len(Layout(o)) /\ g \in Nat
    /\ g * perGroup < Layout(o)[sec].words

PackingInv ==
    /\ Within(object, section, group, PackedWords(Here.bits))
    /\ PackedBelow(object, bytes, Here.at + group * Len(Pack(Here.bits)))

UnpackingInv ==
    /\ Within(object, section, group, Len(Unpack(Here.bits)))
    /\ ReadBelow(object, words, section, group * Len(Unpack(Here.bits)))

PackInv ==
    /\ pack_pc \in {"idle", "packing", "unpacking", "done"}
    /\ pack_pc = "idle" => section = 1 /\ group = 0
    /\ pack_pc # "idle" => object \in Objects /\ DOMAIN bytes = 0..(Size(object) - 1)
    /\ pack_pc \in {"idle", "packing"} => DOMAIN words = {}
    /\ pack_pc = "packing" => PackingInv
    /\ pack_pc \in {"unpacking", "done"} => PackedBelow(object, bytes, Size(object))
    /\ pack_pc = "unpacking" => UnpackingInv
    /\ ReadRight(object, words) /\ EveryWordRead

-----------------------------------------------------------------------------
PackGroups(b, T, W) ==
    \/ b = 1 /\ T = 1 /\ W = 8
    \/ b = 4 /\ T = 4 /\ W = 8
    \/ b = 5 /\ T = 5 /\ W = 8
    \/ b = 8 /\ T = 1 /\ W = 1
    \/ b = 10 /\ T = 5 /\ W = 4
    \/ b = 11 /\ T = 11 /\ W = 8
    \/ b = 12 /\ T = 3 /\ W = 2

LEMMA PackArith ==
    ASSUME NEW b, NEW T, NEW W, PackGroups(b, T, W)
    PROVE  T \in Nat \ {0} /\ W \in Nat \ {0} /\ 8 * T = b * W
BY DEF PackGroups

LEMMA PackLengths == \A b \in Formats : PackGroups(b, Len(Pack(b)), PackedWords(b))
<1>1. PackGroups(1, Len(Pack(1)), PackedWords(1))
  <2>1. Len(Pack(1)) = 1
    BY DEF Pack, PackTable
  <2>2. PackedWords(1) = (8 * 1) \div 1
    BY <2>1 DEF PackedWords
  <2> QED
    BY <2>1, <2>2 DEF PackGroups
<1>2. PackGroups(4, Len(Pack(4)), PackedWords(4))
  <2>1. Len(Pack(4)) = 4
    BY DEF Pack, PackTable
  <2>2. PackedWords(4) = (8 * 4) \div 4
    BY <2>1 DEF PackedWords
  <2> QED
    BY <2>1, <2>2 DEF PackGroups
<1>3. PackGroups(5, Len(Pack(5)), PackedWords(5))
  <2>1. Len(Pack(5)) = 5
    BY DEF Pack, PackTable
  <2>2. PackedWords(5) = (8 * 5) \div 5
    BY <2>1 DEF PackedWords
  <2> QED
    BY <2>1, <2>2 DEF PackGroups
<1>4. PackGroups(8, Len(Pack(8)), PackedWords(8))
  <2>1. Len(Pack(8)) = 1
    BY DEF Pack, PackTable
  <2>2. PackedWords(8) = (8 * 1) \div 8
    BY <2>1 DEF PackedWords
  <2> QED
    BY <2>1, <2>2 DEF PackGroups
<1>5. PackGroups(10, Len(Pack(10)), PackedWords(10))
  <2>1. Len(Pack(10)) = 5
    BY DEF Pack, PackTable
  <2>2. PackedWords(10) = (8 * 5) \div 10
    BY <2>1 DEF PackedWords
  <2> QED
    BY <2>1, <2>2 DEF PackGroups
<1>6. PackGroups(11, Len(Pack(11)), PackedWords(11))
  <2>1. Len(Pack(11)) = 11
    BY DEF Pack, PackTable
  <2>2. PackedWords(11) = (8 * 11) \div 11
    BY <2>1 DEF PackedWords
  <2> QED
    BY <2>1, <2>2 DEF PackGroups
<1>7. PackGroups(12, Len(Pack(12)), PackedWords(12))
  <2>1. Len(Pack(12)) = 3
    BY DEF Pack, PackTable
  <2>2. PackedWords(12) = (8 * 3) \div 12
    BY <2>1 DEF PackedWords
  <2> QED
    BY <2>1, <2>2 DEF PackGroups
<1> QED
  BY <1>1, <1>2, <1>3, <1>4, <1>5, <1>6, <1>7 DEF Formats

UnpackGroups(b, U, B) ==
    \/ b = 1 /\ U = 8 /\ B = 1
    \/ b = 4 /\ U = 2 /\ B = 1
    \/ b = 5 /\ U = 8 /\ B = 5
    \/ b = 8 /\ U = 1 /\ B = 1
    \/ b = 10 /\ U = 4 /\ B = 5
    \/ b = 11 /\ U = 8 /\ B = 11
    \/ b = 12 /\ U = 2 /\ B = 3

LEMMA UnpackArith ==
    ASSUME NEW b, NEW U, NEW B, UnpackGroups(b, U, B)
    PROVE  U \in Nat \ {0} /\ B \in Nat \ {0} /\ b * U = 8 * B
BY DEF UnpackGroups

LEMMA UnpackLengths == \A b \in Formats : UnpackGroups(b, Len(Unpack(b)), UnpackedBytes(b))
<1>1. UnpackGroups(1, Len(Unpack(1)), UnpackedBytes(1))
  <2>1. Len(Unpack(1)) = 8
    BY DEF Unpack
  <2>2. UnpackedBytes(1) = (8 * 1) \div 8
    BY <2>1 DEF UnpackedBytes
  <2> QED
    BY <2>1, <2>2 DEF UnpackGroups
<1>2. UnpackGroups(4, Len(Unpack(4)), UnpackedBytes(4))
  <2>1. Len(Unpack(4)) = 2
    BY DEF Unpack
  <2>2. UnpackedBytes(4) = (2 * 4) \div 8
    BY <2>1 DEF UnpackedBytes
  <2> QED
    BY <2>1, <2>2 DEF UnpackGroups
<1>3. UnpackGroups(5, Len(Unpack(5)), UnpackedBytes(5))
  <2>1. Len(Unpack(5)) = 8
    BY DEF Unpack
  <2>2. UnpackedBytes(5) = (8 * 5) \div 8
    BY <2>1 DEF UnpackedBytes
  <2> QED
    BY <2>1, <2>2 DEF UnpackGroups
<1>4. UnpackGroups(8, Len(Unpack(8)), UnpackedBytes(8))
  <2>1. Len(Unpack(8)) = 1
    BY DEF Unpack
  <2>2. UnpackedBytes(8) = (1 * 8) \div 8
    BY <2>1 DEF UnpackedBytes
  <2> QED
    BY <2>1, <2>2 DEF UnpackGroups
<1>5. UnpackGroups(10, Len(Unpack(10)), UnpackedBytes(10))
  <2>1. Len(Unpack(10)) = 4
    BY DEF Unpack
  <2>2. UnpackedBytes(10) = (4 * 10) \div 8
    BY <2>1 DEF UnpackedBytes
  <2> QED
    BY <2>1, <2>2 DEF UnpackGroups
<1>6. UnpackGroups(11, Len(Unpack(11)), UnpackedBytes(11))
  <2>1. Len(Unpack(11)) = 8
    BY DEF Unpack
  <2>2. UnpackedBytes(11) = (8 * 11) \div 8
    BY <2>1 DEF UnpackedBytes
  <2> QED
    BY <2>1, <2>2 DEF UnpackGroups
<1>7. UnpackGroups(12, Len(Unpack(12)), UnpackedBytes(12))
  <2>1. Len(Unpack(12)) = 2
    BY DEF Unpack
  <2>2. UnpackedBytes(12) = (2 * 12) \div 8
    BY <2>1 DEF UnpackedBytes
  <2> QED
    BY <2>1, <2>2 DEF UnpackGroups
<1> QED
  BY <1>1, <1>2, <1>3, <1>4, <1>5, <1>6, <1>7 DEF Formats

LEMMA PackEntries ==
    ASSUME NEW b \in Formats, NEW i \in 0..(Len(Pack(b)) - 1)
    PROVE  /\ \A t \in Pack(b)[i + 1] :
                 \E j \in 0..(PackedWords(b) - 1) : t = <<j, b * j - 8 * i>>
           /\ \A j \in 0..(PackedWords(b) - 1), c \in 0..(b - 1), q \in 0..7 :
                 b * j + c = 8 * i + q => <<j, b * j - 8 * i>> \in Pack(b)[i + 1]
<1>1. CASE b = 1
  <2>1. i = 0 /\ Pack(1)[1] = {<<j, j>> : j \in 0..7} /\ PackedWords(1) = 8
    BY <1>1, PackLengths DEF PackGroups, Pack, PackTable
  <2> QED
    BY <1>1, <2>1
<1>2. CASE b = 4
  <2>1. Len(Pack(b)) = 4 /\ PackedWords(b) = 8
    BY <1>2, PackLengths DEF PackGroups
  <2>2. i \in {0, 1, 2, 3}
    BY <2>1
  <2>3. CASE i = 0
    <3>1. Pack(b)[i + 1] = {<<0, 0>>, <<1, 4>>}
      BY <1>2, <2>3 DEF Pack, PackTable
    <3> QED
      BY <1>2, <2>1, <2>3, <3>1
  <2>4. CASE i = 1
    <3>1. Pack(b)[i + 1] = {<<2, 0>>, <<3, 4>>}
      BY <1>2, <2>4 DEF Pack, PackTable
    <3> QED
      BY <1>2, <2>1, <2>4, <3>1
  <2>5. CASE i = 2
    <3>1. Pack(b)[i + 1] = {<<4, 0>>, <<5, 4>>}
      BY <1>2, <2>5 DEF Pack, PackTable
    <3> QED
      BY <1>2, <2>1, <2>5, <3>1
  <2>6. CASE i = 3
    <3>1. Pack(b)[i + 1] = {<<6, 0>>, <<7, 4>>}
      BY <1>2, <2>6 DEF Pack, PackTable
    <3> QED
      BY <1>2, <2>1, <2>6, <3>1
  <2> QED
    BY <2>2, <2>3, <2>4, <2>5, <2>6
<1>3. CASE b = 5
  <2>1. Len(Pack(b)) = 5 /\ PackedWords(b) = 8
    BY <1>3, PackLengths DEF PackGroups
  <2>2. i \in {0, 1, 2, 3, 4}
    BY <2>1
  <2>3. CASE i = 0
    <3>1. Pack(b)[i + 1] = {<<0, 0>>, <<1, 5>>}
      BY <1>3, <2>3 DEF Pack, PackTable
    <3> QED
      BY <1>3, <2>1, <2>3, <3>1
  <2>4. CASE i = 1
    <3>1. Pack(b)[i + 1] = {<<1, -3>>, <<2, 2>>, <<3, 7>>}
      BY <1>3, <2>4 DEF Pack, PackTable
    <3> QED
      BY <1>3, <2>1, <2>4, <3>1
  <2>5. CASE i = 2
    <3>1. Pack(b)[i + 1] = {<<3, -1>>, <<4, 4>>}
      BY <1>3, <2>5 DEF Pack, PackTable
    <3> QED
      BY <1>3, <2>1, <2>5, <3>1
  <2>6. CASE i = 3
    <3>1. Pack(b)[i + 1] = {<<4, -4>>, <<5, 1>>, <<6, 6>>}
      BY <1>3, <2>6 DEF Pack, PackTable
    <3> QED
      BY <1>3, <2>1, <2>6, <3>1
  <2>7. CASE i = 4
    <3>1. Pack(b)[i + 1] = {<<6, -2>>, <<7, 3>>}
      BY <1>3, <2>7 DEF Pack, PackTable
    <3> QED
      BY <1>3, <2>1, <2>7, <3>1
  <2> QED
    BY <2>2, <2>3, <2>4, <2>5, <2>6, <2>7
<1>4. CASE b = 8
  <2>1. Len(Pack(b)) = 1 /\ PackedWords(b) = 1
    BY <1>4, PackLengths DEF PackGroups
  <2>2. Pack(b)[i + 1] = {<<0, 0>>} /\ i = 0
    BY <1>4, <2>1 DEF Pack, PackTable
  <2> QED
    BY <1>4, <2>1, <2>2
<1>5. CASE b = 10
  <2>1. Len(Pack(b)) = 5 /\ PackedWords(b) = 4
    BY <1>5, PackLengths DEF PackGroups
  <2>2. i \in {0, 1, 2, 3, 4}
    BY <2>1
  <2>3. CASE i = 0
    <3>1. Pack(b)[i + 1] = {<<0, 0>>}
      BY <1>5, <2>3 DEF Pack, PackTable
    <3>2. \A j \in 0..3, c \in 0..9, q \in 0..7 :
              10 * j + c = 0 + q => j = 0
      OBVIOUS
    <3>3. 10 * 0 - 0 = 0
      OBVIOUS
    <3>4. \A t \in Pack(b)[i + 1] : t = <<0, 10 * 0 - 0>>
      BY <3>1, <3>3
    <3>5. <<0, 10 * 0 - 0>> \in Pack(b)[i + 1]
      BY <3>1, <3>3
    <3> QED
      BY <1>5, <2>1, <2>3, <3>2, <3>4, <3>5
  <2>4. CASE i = 1
    <3>1. Pack(b)[i + 1] = {<<0, -8>>, <<1, 2>>}
      BY <1>5, <2>4 DEF Pack, PackTable
    <3> QED
      BY <1>5, <2>1, <2>4, <3>1
  <2>5. CASE i = 2
    <3>1. Pack(b)[i + 1] = {<<1, -6>>, <<2, 4>>}
      BY <1>5, <2>5 DEF Pack, PackTable
    <3> QED
      BY <1>5, <2>1, <2>5, <3>1
  <2>6. CASE i = 3
    <3>1. Pack(b)[i + 1] = {<<2, -4>>, <<3, 6>>}
      BY <1>5, <2>6 DEF Pack, PackTable
    <3> QED
      BY <1>5, <2>1, <2>6, <3>1
  <2>7. CASE i = 4
    <3>1. Pack(b)[i + 1] = {<<3, -2>>}
      BY <1>5, <2>7 DEF Pack, PackTable
    <3>2. \A j \in 0..3, c \in 0..9, q \in 0..7 :
              10 * j + c = 32 + q => j = 3
      OBVIOUS
    <3>3. 10 * 3 - 32 = -2
      OBVIOUS
    <3>4. \A t \in Pack(b)[i + 1] : t = <<3, 10 * 3 - 32>>
      BY <3>1, <3>3
    <3>5. <<3, 10 * 3 - 32>> \in Pack(b)[i + 1]
      BY <3>1, <3>3
    <3> QED
      BY <1>5, <2>1, <2>7, <3>2, <3>4, <3>5
  <2> QED
    BY <2>2, <2>3, <2>4, <2>5, <2>6, <2>7
<1>6. CASE b = 11
  <2>1. Len(Pack(b)) = 11 /\ PackedWords(b) = 8
    BY <1>6, PackLengths DEF PackGroups
  <2>2. i \in {0, 1, 2, 3, 4, 5, 6, 7, 8, 9, 10}
    BY <2>1
  <2>3. CASE i = 0
    <3>1. Pack(b)[i + 1] = {<<0, 0>>}
      BY <1>6, <2>3 DEF Pack, PackTable
    <3>2. \A j \in 0..7, c \in 0..10, q \in 0..7 :
              11 * j + c = 0 + q => j = 0
      OBVIOUS
    <3>3. 11 * 0 - 0 = 0
      OBVIOUS
    <3>4. \A t \in Pack(b)[i + 1] : t = <<0, 11 * 0 - 0>>
      BY <3>1, <3>3
    <3>5. <<0, 11 * 0 - 0>> \in Pack(b)[i + 1]
      BY <3>1, <3>3
    <3> QED
      BY <1>6, <2>1, <2>3, <3>2, <3>4, <3>5
  <2>4. CASE i = 1
    <3>1. Pack(b)[i + 1] = {<<0, -8>>, <<1, 3>>}
      BY <1>6, <2>4 DEF Pack, PackTable
    <3> QED
      BY <1>6, <2>1, <2>4, <3>1
  <2>5. CASE i = 2
    <3>1. Pack(b)[i + 1] = {<<1, -5>>, <<2, 6>>}
      BY <1>6, <2>5 DEF Pack, PackTable
    <3> QED
      BY <1>6, <2>1, <2>5, <3>1
  <2>6. CASE i = 3
    <3>1. Pack(b)[i + 1] = {<<2, -2>>}
      BY <1>6, <2>6 DEF Pack, PackTable
    <3>2. \A j \in 0..7, c \in 0..10, q \in 0..7 :
              11 * j + c = 24 + q => j = 2
      OBVIOUS
    <3>3. 11 * 2 - 24 = -2
      OBVIOUS
    <3>4. \A t \in Pack(b)[i + 1] : t = <<2, 11 * 2 - 24>>
      BY <3>1, <3>3
    <3>5. <<2, 11 * 2 - 24>> \in Pack(b)[i + 1]
      BY <3>1, <3>3
    <3> QED
      BY <1>6, <2>1, <2>6, <3>2, <3>4, <3>5
  <2>7. CASE i = 4
    <3>1. Pack(b)[i + 1] = {<<2, -10>>, <<3, 1>>}
      BY <1>6, <2>7 DEF Pack, PackTable
    <3> QED
      BY <1>6, <2>1, <2>7, <3>1
  <2>8. CASE i = 5
    <3>1. Pack(b)[i + 1] = {<<3, -7>>, <<4, 4>>}
      BY <1>6, <2>8 DEF Pack, PackTable
    <3> QED
      BY <1>6, <2>1, <2>8, <3>1
  <2>9. CASE i = 6
    <3>1. Pack(b)[i + 1] = {<<4, -4>>, <<5, 7>>}
      BY <1>6, <2>9 DEF Pack, PackTable
    <3> QED
      BY <1>6, <2>1, <2>9, <3>1
  <2>10. CASE i = 7
    <3>1. Pack(b)[i + 1] = {<<5, -1>>}
      BY <1>6, <2>10 DEF Pack, PackTable
    <3>2. \A j \in 0..7, c \in 0..10, q \in 0..7 :
              11 * j + c = 56 + q => j = 5
      OBVIOUS
    <3>3. 11 * 5 - 56 = -1
      OBVIOUS
    <3>4. \A t \in Pack(b)[i + 1] : t = <<5, 11 * 5 - 56>>
      BY <3>1, <3>3
    <3>5. <<5, 11 * 5 - 56>> \in Pack(b)[i + 1]
      BY <3>1, <3>3
    <3> QED
      BY <1>6, <2>1, <2>10, <3>2, <3>4, <3>5
  <2>11. CASE i = 8
    <3>1. Pack(b)[i + 1] = {<<5, -9>>, <<6, 2>>}
      BY <1>6, <2>11 DEF Pack, PackTable
    <3> QED
      BY <1>6, <2>1, <2>11, <3>1
  <2>12. CASE i = 9
    <3>1. Pack(b)[i + 1] = {<<6, -6>>, <<7, 5>>}
      BY <1>6, <2>12 DEF Pack, PackTable
    <3> QED
      BY <1>6, <2>1, <2>12, <3>1
  <2>13. CASE i = 10
    <3>1. Pack(b)[i + 1] = {<<7, -3>>}
      BY <1>6, <2>13 DEF Pack, PackTable
    <3>2. \A j \in 0..7, c \in 0..10, q \in 0..7 :
              11 * j + c = 80 + q => j = 7
      OBVIOUS
    <3>3. 11 * 7 - 80 = -3
      OBVIOUS
    <3>4. \A t \in Pack(b)[i + 1] : t = <<7, 11 * 7 - 80>>
      BY <3>1, <3>3
    <3>5. <<7, 11 * 7 - 80>> \in Pack(b)[i + 1]
      BY <3>1, <3>3
    <3> QED
      BY <1>6, <2>1, <2>13, <3>2, <3>4, <3>5
  <2> QED
    BY <2>2, <2>3, <2>4, <2>5, <2>6, <2>7, <2>8, <2>9, <2>10, <2>11, <2>12, <2>13
<1>7. CASE b = 12
  <2>1. Len(Pack(b)) = 3 /\ PackedWords(b) = 2
    BY <1>7, PackLengths DEF PackGroups
  <2>2. i \in {0, 1, 2}
    BY <2>1
  <2>3. CASE i = 0
    <3>1. Pack(b)[i + 1] = {<<0, 0>>}
      BY <1>7, <2>3 DEF Pack, PackTable
    <3>2. \A j \in 0..1, c \in 0..11, q \in 0..7 :
              12 * j + c = 0 + q => j = 0
      OBVIOUS
    <3>3. 12 * 0 - 0 = 0
      OBVIOUS
    <3>4. \A t \in Pack(b)[i + 1] : t = <<0, 12 * 0 - 0>>
      BY <3>1, <3>3
    <3>5. <<0, 12 * 0 - 0>> \in Pack(b)[i + 1]
      BY <3>1, <3>3
    <3> QED
      BY <1>7, <2>1, <2>3, <3>2, <3>4, <3>5
  <2>4. CASE i = 1
    <3>1. Pack(b)[i + 1] = {<<0, -8>>, <<1, 4>>}
      BY <1>7, <2>4 DEF Pack, PackTable
    <3> QED
      BY <1>7, <2>1, <2>4, <3>1
  <2>5. CASE i = 2
    <3>1. Pack(b)[i + 1] = {<<1, -4>>}
      BY <1>7, <2>5 DEF Pack, PackTable
    <3>2. \A j \in 0..1, c \in 0..11, q \in 0..7 :
              12 * j + c = 16 + q => j = 1
      OBVIOUS
    <3>3. 12 * 1 - 16 = -4
      OBVIOUS
    <3>4. \A t \in Pack(b)[i + 1] : t = <<1, 12 * 1 - 16>>
      BY <3>1, <3>3
    <3>5. <<1, 12 * 1 - 16>> \in Pack(b)[i + 1]
      BY <3>1, <3>3
    <3> QED
      BY <1>7, <2>1, <2>5, <3>2, <3>4, <3>5
  <2> QED
    BY <2>2, <2>3, <2>4, <2>5
<1> QED
  BY <1>1, <1>2, <1>3, <1>4, <1>5, <1>6, <1>7 DEF Formats

LEMMA UnpackEntries ==
    ASSUME NEW b \in Formats, NEW j \in 0..(Len(Unpack(b)) - 1)
    PROVE  /\ \A t \in Unpack(b)[j + 1] :
                 \E i \in 0..(UnpackedBytes(b) - 1) : t = <<i, 8 * i - b * j>>
           /\ \A i \in 0..(UnpackedBytes(b) - 1), c \in 0..(b - 1), q \in 0..7 :
                 b * j + c = 8 * i + q => <<i, 8 * i - b * j>> \in Unpack(b)[j + 1]
<1>1. CASE b = 1
  <2>1. Len(Unpack(b)) = 8 /\ UnpackedBytes(b) = 1
    BY <1>1, UnpackLengths DEF UnpackGroups
  <2>2. j \in {0, 1, 2, 3, 4, 5, 6, 7}
    BY <2>1
  <2>3. CASE j = 0
    <3>1. Unpack(b)[j + 1] = {<<0, 0>>}
      BY <1>1, <2>3 DEF Unpack
    <3> QED
      BY <1>1, <2>1, <2>3, <3>1
  <2>4. CASE j = 1
    <3>1. Unpack(b)[j + 1] = {<<0, -1>>}
      BY <1>1, <2>4 DEF Unpack
    <3> QED
      BY <1>1, <2>1, <2>4, <3>1
  <2>5. CASE j = 2
    <3>1. Unpack(b)[j + 1] = {<<0, -2>>}
      BY <1>1, <2>5 DEF Unpack
    <3> QED
      BY <1>1, <2>1, <2>5, <3>1
  <2>6. CASE j = 3
    <3>1. Unpack(b)[j + 1] = {<<0, -3>>}
      BY <1>1, <2>6 DEF Unpack
    <3> QED
      BY <1>1, <2>1, <2>6, <3>1
  <2>7. CASE j = 4
    <3>1. Unpack(b)[j + 1] = {<<0, -4>>}
      BY <1>1, <2>7 DEF Unpack
    <3> QED
      BY <1>1, <2>1, <2>7, <3>1
  <2>8. CASE j = 5
    <3>1. Unpack(b)[j + 1] = {<<0, -5>>}
      BY <1>1, <2>8 DEF Unpack
    <3> QED
      BY <1>1, <2>1, <2>8, <3>1
  <2>9. CASE j = 6
    <3>1. Unpack(b)[j + 1] = {<<0, -6>>}
      BY <1>1, <2>9 DEF Unpack
    <3> QED
      BY <1>1, <2>1, <2>9, <3>1
  <2>10. CASE j = 7
    <3>1. Unpack(b)[j + 1] = {<<0, -7>>}
      BY <1>1, <2>10 DEF Unpack
    <3> QED
      BY <1>1, <2>1, <2>10, <3>1
  <2> QED
    BY <2>2, <2>3, <2>4, <2>5, <2>6, <2>7, <2>8, <2>9, <2>10
<1>2. CASE b = 4
  <2>1. Len(Unpack(b)) = 2 /\ UnpackedBytes(b) = 1
    BY <1>2, UnpackLengths DEF UnpackGroups
  <2>2. j \in {0, 1}
    BY <2>1
  <2>3. CASE j = 0
    <3>1. Unpack(b)[j + 1] = {<<0, 0>>}
      BY <1>2, <2>3 DEF Unpack
    <3> QED
      BY <1>2, <2>1, <2>3, <3>1
  <2>4. CASE j = 1
    <3>1. Unpack(b)[j + 1] = {<<0, -4>>}
      BY <1>2, <2>4 DEF Unpack
    <3> QED
      BY <1>2, <2>1, <2>4, <3>1
  <2> QED
    BY <2>2, <2>3, <2>4
<1>3. CASE b = 5
  <2>1. Len(Unpack(b)) = 8 /\ UnpackedBytes(b) = 5
    BY <1>3, UnpackLengths DEF UnpackGroups
  <2>2. j \in {0, 1, 2, 3, 4, 5, 6, 7}
    BY <2>1
  <2>3. CASE j = 0
    <3>1. Unpack(b)[j + 1] = {<<0, 0>>}
      BY <1>3, <2>3 DEF Unpack
    <3> QED
      BY <1>3, <2>1, <2>3, <3>1
  <2>4. CASE j = 1
    <3>1. Unpack(b)[j + 1] = {<<0, -5>>, <<1, 3>>}
      BY <1>3, <2>4 DEF Unpack
    <3> QED
      BY <1>3, <2>1, <2>4, <3>1
  <2>5. CASE j = 2
    <3>1. Unpack(b)[j + 1] = {<<1, -2>>}
      BY <1>3, <2>5 DEF Unpack
    <3> QED
      BY <1>3, <2>1, <2>5, <3>1
  <2>6. CASE j = 3
    <3>1. Unpack(b)[j + 1] = {<<1, -7>>, <<2, 1>>}
      BY <1>3, <2>6 DEF Unpack
    <3> QED
      BY <1>3, <2>1, <2>6, <3>1
  <2>7. CASE j = 4
    <3>1. Unpack(b)[j + 1] = {<<2, -4>>, <<3, 4>>}
      BY <1>3, <2>7 DEF Unpack
    <3> QED
      BY <1>3, <2>1, <2>7, <3>1
  <2>8. CASE j = 5
    <3>1. Unpack(b)[j + 1] = {<<3, -1>>}
      BY <1>3, <2>8 DEF Unpack
    <3> QED
      BY <1>3, <2>1, <2>8, <3>1
  <2>9. CASE j = 6
    <3>1. Unpack(b)[j + 1] = {<<3, -6>>, <<4, 2>>}
      BY <1>3, <2>9 DEF Unpack
    <3> QED
      BY <1>3, <2>1, <2>9, <3>1
  <2>10. CASE j = 7
    <3>1. Unpack(b)[j + 1] = {<<4, -3>>}
      BY <1>3, <2>10 DEF Unpack
    <3> QED
      BY <1>3, <2>1, <2>10, <3>1
  <2> QED
    BY <2>2, <2>3, <2>4, <2>5, <2>6, <2>7, <2>8, <2>9, <2>10
<1>4. CASE b = 8
  <2>1. Len(Unpack(b)) = 1 /\ UnpackedBytes(b) = 1
    BY <1>4, UnpackLengths DEF UnpackGroups
  <2>2. Unpack(b)[j + 1] = {<<0, 0>>} /\ j = 0
    BY <1>4, <2>1 DEF Unpack
  <2> QED
    BY <1>4, <2>1, <2>2
<1>5. CASE b = 10
  <2>1. Len(Unpack(b)) = 4 /\ UnpackedBytes(b) = 5
    BY <1>5, UnpackLengths DEF UnpackGroups
  <2>2. j \in {0, 1, 2, 3}
    BY <2>1
  <2>3. CASE j = 0
    <3>1. Unpack(b)[j + 1] = {<<0, 0>>, <<1, 8>>}
      BY <1>5, <2>3 DEF Unpack
    <3> QED
      BY <1>5, <2>1, <2>3, <3>1
  <2>4. CASE j = 1
    <3>1. Unpack(b)[j + 1] = {<<1, -2>>, <<2, 6>>}
      BY <1>5, <2>4 DEF Unpack
    <3> QED
      BY <1>5, <2>1, <2>4, <3>1
  <2>5. CASE j = 2
    <3>1. Unpack(b)[j + 1] = {<<2, -4>>, <<3, 4>>}
      BY <1>5, <2>5 DEF Unpack
    <3> QED
      BY <1>5, <2>1, <2>5, <3>1
  <2>6. CASE j = 3
    <3>1. Unpack(b)[j + 1] = {<<3, -6>>, <<4, 2>>}
      BY <1>5, <2>6 DEF Unpack
    <3> QED
      BY <1>5, <2>1, <2>6, <3>1
  <2> QED
    BY <2>2, <2>3, <2>4, <2>5, <2>6
<1>6. CASE b = 11
  <2>1. Len(Unpack(b)) = 8 /\ UnpackedBytes(b) = 11
    BY <1>6, UnpackLengths DEF UnpackGroups
  <2>2. j \in {0, 1, 2, 3, 4, 5, 6, 7}
    BY <2>1
  <2>3. CASE j = 0
    <3>1. Unpack(b)[j + 1] = {<<0, 0>>, <<1, 8>>}
      BY <1>6, <2>3 DEF Unpack
    <3> QED
      BY <1>6, <2>1, <2>3, <3>1
  <2>4. CASE j = 1
    <3>1. Unpack(b)[j + 1] = {<<1, -3>>, <<2, 5>>}
      BY <1>6, <2>4 DEF Unpack
    <3> QED
      BY <1>6, <2>1, <2>4, <3>1
  <2>5. CASE j = 2
    <3>1. Unpack(b)[j + 1] = {<<2, -6>>, <<3, 2>>, <<4, 10>>}
      BY <1>6, <2>5 DEF Unpack
    <3> QED
      BY <1>6, <2>1, <2>5, <3>1
  <2>6. CASE j = 3
    <3>1. Unpack(b)[j + 1] = {<<4, -1>>, <<5, 7>>}
      BY <1>6, <2>6 DEF Unpack
    <3> QED
      BY <1>6, <2>1, <2>6, <3>1
  <2>7. CASE j = 4
    <3>1. Unpack(b)[j + 1] = {<<5, -4>>, <<6, 4>>}
      BY <1>6, <2>7 DEF Unpack
    <3> QED
      BY <1>6, <2>1, <2>7, <3>1
  <2>8. CASE j = 5
    <3>1. Unpack(b)[j + 1] = {<<6, -7>>, <<7, 1>>, <<8, 9>>}
      BY <1>6, <2>8 DEF Unpack
    <3> QED
      BY <1>6, <2>1, <2>8, <3>1
  <2>9. CASE j = 6
    <3>1. Unpack(b)[j + 1] = {<<8, -2>>, <<9, 6>>}
      BY <1>6, <2>9 DEF Unpack
    <3> QED
      BY <1>6, <2>1, <2>9, <3>1
  <2>10. CASE j = 7
    <3>1. Unpack(b)[j + 1] = {<<9, -5>>, <<10, 3>>}
      BY <1>6, <2>10 DEF Unpack
    <3> QED
      BY <1>6, <2>1, <2>10, <3>1
  <2> QED
    BY <2>2, <2>3, <2>4, <2>5, <2>6, <2>7, <2>8, <2>9, <2>10
<1>7. CASE b = 12
  <2>1. Len(Unpack(b)) = 2 /\ UnpackedBytes(b) = 3
    BY <1>7, UnpackLengths DEF UnpackGroups
  <2>2. j \in {0, 1}
    BY <2>1
  <2>3. CASE j = 0
    <3>1. Unpack(b)[j + 1] = {<<0, 0>>, <<1, 8>>}
      BY <1>7, <2>3 DEF Unpack
    <3> QED
      BY <1>7, <2>1, <2>3, <3>1
  <2>4. CASE j = 1
    <3>1. Unpack(b)[j + 1] = {<<1, -4>>, <<2, 4>>}
      BY <1>7, <2>4 DEF Unpack
    <3> QED
      BY <1>7, <2>1, <2>4, <3>1
  <2> QED
    BY <2>2, <2>3, <2>4
<1> QED
  BY <1>1, <1>2, <1>3, <1>4, <1>5, <1>6, <1>7 DEF Formats
-----------------------------------------------------------------------------
(* Words put together give the bits of each that are shifted into the width. *)
Puts(x, y, amount, width) ==
    /\ y.place + amount >= 0 /\ y.place + amount < width
    /\ x = BitIn(y.place + amount, y.from)

LEMMA CombinedFrom ==
    ASSUME NEW terms, NEW ws, NEW width, NEW x \in Combine(terms, ws, width)
    PROVE  \E t \in terms : \E y \in ws[t[1]] : Puts(x, y, t[2], width)
BY DEF Combine, Low, Shift, BitIn, Puts

LEMMA CombinedHas ==
    ASSUME NEW terms, NEW ws, NEW width, NEW x, NEW t \in terms, NEW y \in ws[t[1]],
           Puts(x, y, t[2], width)
    PROVE  x \in Combine(terms, ws, width)
BY DEF Combine, Low, Shift, BitIn, Puts

LEMMA ProductNat ==
    ASSUME NEW a \in Nat, NEW b \in Nat
    PROVE  a * b \in Nat
OBVIOUS

LEMMA DivNat ==
    ASSUME NEW d \in Nat, d > 0, NEW n \in Nat
    PROVE  n \div d \in Nat
  BY SMT

(* Bit c of word n is bit q of byte d of the section; what shifts a word to a byte, and back. *)
IsBit(b, n, c, d, q) == n * b + c = 8 * d + q
Moved(place, amount, to) == place + amount = to
ToByte(b, j, i) == b * j - 8 * i
ToWord(b, j, i) == 8 * i - b * j

BitOfByte(x, b, s, d, q, n, c) == IsBit(b, n, c, d, q) /\ x = BitIn(q, <<s, n, c>>)

LEMMA PackedByteBits ==
    ASSUME NEW b \in Nat, b > 0, NEW s, NEW d \in Nat, NEW x
    PROVE  x \in ByteOf(b, s, d) <=>
               \E q \in 0..7, n \in Nat, c \in 0..(b - 1) : BitOfByte(x, b, s, d, q, n, c)
<1>1. ByteOf(b, s, d) =
          {BitIn(q, <<s, (8 * d + q) \div b, (8 * d + q) % b>>) : q \in 0..7}
  BY DEF ByteOf
<1>2. ASSUME NEW q \in 0..7
      PROVE  /\ (8 * d + q) \div b \in Nat /\ (8 * d + q) % b \in 0..(b - 1)
             /\ IsBit(b, (8 * d + q) \div b, (8 * d + q) % b, d, q)
  <2> DEFINE m == 8 * d + q
  <2>1. m \in Nat
    OBVIOUS
  <2> HIDE DEF m
  <2>2. m \div b \in Nat /\ m % b \in 0..(b - 1) /\ m = (m \div b) * b + (m % b)
    BY <2>1, DivMod, DivNat
  <2> QED
    BY <2>2 DEF m, IsBit
<1>3. ASSUME NEW q \in 0..7, NEW n \in Nat, NEW c \in 0..(b - 1), IsBit(b, n, c, d, q)
      PROVE  n = (8 * d + q) \div b /\ c = (8 * d + q) % b
  BY <1>3, DivModUnique DEF IsBit
<1>4. ASSUME x \in ByteOf(b, s, d)
      PROVE  \E q \in 0..7, n \in Nat, c \in 0..(b - 1) :
                 IsBit(b, n, c, d, q) /\ x = BitIn(q, <<s, n, c>>)
  <2>1. PICK q \in 0..7 : x = BitIn(q, <<s, (8 * d + q) \div b, (8 * d + q) % b>>)
    BY <1>1, <1>4
  <2> QED
    BY <1>2, <2>1
<1>5. ASSUME NEW q \in 0..7, NEW n \in Nat, NEW c \in 0..(b - 1),
             IsBit(b, n, c, d, q), x = BitIn(q, <<s, n, c>>)
      PROVE  x \in ByteOf(b, s, d)
  <2>1. n = (8 * d + q) \div b /\ c = (8 * d + q) % b
    BY <1>3, <1>5
  <2>2. x = BitIn(q, <<s, (8 * d + q) \div b, (8 * d + q) % b>>)
    BY <1>5, <2>1
  <2> QED
    BY <1>1, <2>2
<1> QED
  BY <1>4, <1>5 DEF BitOfByte

LEMMA ByteFrom ==
    ASSUME NEW b \in Nat, b > 0, NEW s, NEW d \in Nat, NEW x \in ByteOf(b, s, d)
    PROVE  \E q \in 0..7, n \in Nat, c \in 0..(b - 1) : BitOfByte(x, b, s, d, q, n, c)
BY PackedByteBits

LEMMA ByteHas ==
    ASSUME NEW b \in Nat, b > 0, NEW s, NEW d \in Nat, NEW x,
           NEW q \in 0..7, NEW n \in Nat, NEW c \in 0..(b - 1), BitOfByte(x, b, s, d, q, n, c)
    PROVE  x \in ByteOf(b, s, d)
BY PackedByteBits

(***************************************************************************)
(* The bits of a group of words, which are from word base on, are those of *)
(* the bytes of the group, of which byte i is byte d of the section.       *)
(***************************************************************************)
PackAligned(b, W, i, d, base) ==
    /\ \A j \in 0..(W - 1) : ToByte(b, j, i) \in Int
    /\ \A j \in 0..(W - 1), c \in 0..(b - 1), q \in 0..7 :
          Moved(c, ToByte(b, j, i), q) => base + j \in Nat /\ IsBit(b, base + j, c, d, q)
    /\ \A n \in Nat, c \in 0..(b - 1), q \in 0..7 :
          IsBit(b, n, c, d, q) =>
              \E j \in 0..(W - 1) : n = base + j /\ Moved(c, ToByte(b, j, i), q)

(* And word j of a group, which is word n, has its bits in the bytes from d on. *)
UnpackAligned(b, B, j, d, n) ==
    /\ \A i \in 0..(B - 1) : ToWord(b, j, i) \in Int
    /\ \A i \in 0..(B - 1), q \in 0..7, m \in Nat, e \in 0..(b - 1), c \in 0..(b - 1) :
          IsBit(b, m, e, d + i, q) /\ Moved(q, ToWord(b, j, i), c) => m = n /\ e = c
    /\ \A c \in 0..(b - 1) : \E i \in 0..(B - 1), q \in 0..7 :
          Moved(q, ToWord(b, j, i), c) /\ IsBit(b, n, c, d + i, q)

LEMMA PackGroupBits ==
    ASSUME NEW b, NEW T, NEW W, PackGroups(b, T, W), NEW g \in Nat, NEW i \in 0..(T - 1)
    PROVE  PackAligned(b, W, i, g * T + i, g * W)
<1> SUFFICES ASSUME NEW c \in 0..(b - 1), NEW q \in 0..7
             PROVE  /\ \A j \in 0..(W - 1) : b * j - 8 * i \in Int
                    /\ \A j \in 0..(W - 1) :
                          c + (b * j - 8 * i) = q =>
                              g * W + j \in Nat /\ (g * W + j) * b + c = 8 * (g * T + i) + q
                    /\ \A n \in Nat : n * b + c = 8 * (g * T + i) + q =>
                           \E j \in 0..(W - 1) : n = g * W + j /\ c + (b * j - 8 * i) = q
  <2>1. b \in Nat /\ b > 0 /\ T \in Nat /\ W \in Nat
    BY DEF PackGroups
  <2>2. \A j \in 0..(W - 1) : b * j - 8 * i \in Int
    BY <2>1
  <2> QED
    BY <2>2 DEF PackAligned, ToByte, IsBit, Moved
<1>1. CASE b = 1 /\ T = 1 /\ W = 8
  BY <1>1
<1>2. CASE b = 4 /\ T = 4 /\ W = 8
  BY <1>2
<1>3. CASE b = 5 /\ T = 5 /\ W = 8
  BY <1>3
<1>4. CASE b = 8 /\ T = 1 /\ W = 1
  BY <1>4
<1>5. CASE b = 10 /\ T = 5 /\ W = 4
  BY <1>5
<1>6. CASE b = 11 /\ T = 11 /\ W = 8
  BY <1>6
<1>7. CASE b = 12 /\ T = 3 /\ W = 2
  BY <1>7
<1> QED
  BY <1>1, <1>2, <1>3, <1>4, <1>5, <1>6, <1>7 DEF PackGroups

LEMMA UnpackGroupBits ==
    ASSUME NEW b, NEW U, NEW B, UnpackGroups(b, U, B), NEW g \in Nat, NEW j \in 0..(U - 1)
    PROVE  UnpackAligned(b, B, j, g * B, g * U + j)
<1>1. ASSUME NEW c \in 0..(b - 1)
      PROVE  \E i \in 0..(B - 1), q \in 0..7 :
                 q + (8 * i - b * j) = c /\ (g * U + j) * b + c = 8 * (g * B + i) + q
  <2> DEFINE i == (b * j + c) \div 8
             q == (b * j + c) % 8
  <2>1. CASE b = 1 /\ U = 8 /\ B = 1
    <3>1. i \in 0..0 /\ q \in 0..7 /\ 1 * j + c = 8 * i + q
      BY <2>1
    <3> HIDE DEF i, q
    <3>2. q + (8 * i - 1 * j) = c /\ (g * 8 + j) * 1 + c = 8 * (g * 1 + i) + q
      BY <2>1, <3>1
    <3> QED
      BY <2>1, <3>1, <3>2
  <2>2. CASE b = 4 /\ U = 2 /\ B = 1
    <3>1. i \in 0..0 /\ q \in 0..7 /\ 4 * j + c = 8 * i + q
      BY <2>2
    <3> HIDE DEF i, q
    <3>2. q + (8 * i - 4 * j) = c /\ (g * 2 + j) * 4 + c = 8 * (g * 1 + i) + q
      BY <2>2, <3>1
    <3> QED
      BY <2>2, <3>1, <3>2
  <2>3. CASE b = 5 /\ U = 8 /\ B = 5
    <3>1. i \in 0..4 /\ q \in 0..7 /\ 5 * j + c = 8 * i + q
      BY <2>3
    <3> HIDE DEF i, q
    <3>2. q + (8 * i - 5 * j) = c /\ (g * 8 + j) * 5 + c = 8 * (g * 5 + i) + q
      BY <2>3, <3>1
    <3> QED
      BY <2>3, <3>1, <3>2
  <2>4. CASE b = 8 /\ U = 1 /\ B = 1
    <3>1. i \in 0..0 /\ q \in 0..7 /\ 8 * j + c = 8 * i + q
      BY <2>4
    <3> HIDE DEF i, q
    <3>2. q + (8 * i - 8 * j) = c /\ (g * 1 + j) * 8 + c = 8 * (g * 1 + i) + q
      BY <2>4, <3>1
    <3> QED
      BY <2>4, <3>1, <3>2
  <2>5. CASE b = 10 /\ U = 4 /\ B = 5
    <3>1. i \in 0..4 /\ q \in 0..7 /\ 10 * j + c = 8 * i + q
      BY <2>5
    <3> HIDE DEF i, q
    <3>2. q + (8 * i - 10 * j) = c /\ (g * 4 + j) * 10 + c = 8 * (g * 5 + i) + q
      BY <2>5, <3>1
    <3> QED
      BY <2>5, <3>1, <3>2
  <2>6. CASE b = 11 /\ U = 8 /\ B = 11
    <3>1. i \in 0..10 /\ q \in 0..7 /\ 11 * j + c = 8 * i + q
      BY <2>6
    <3> HIDE DEF i, q
    <3>2. q + (8 * i - 11 * j) = c /\ (g * 8 + j) * 11 + c = 8 * (g * 11 + i) + q
      BY <2>6, <3>1
    <3> QED
      BY <2>6, <3>1, <3>2
  <2>7. CASE b = 12 /\ U = 2 /\ B = 3
    <3>1. i \in 0..2 /\ q \in 0..7 /\ 12 * j + c = 8 * i + q
      BY <2>7
    <3> HIDE DEF i, q
    <3>2. q + (8 * i - 12 * j) = c /\ (g * 2 + j) * 12 + c = 8 * (g * 3 + i) + q
      BY <2>7, <3>1
    <3> QED
      BY <2>7, <3>1, <3>2
  <2> QED
    BY <2>1, <2>2, <2>3, <2>4, <2>5, <2>6, <2>7 DEF UnpackGroups
<1>2. ASSUME NEW i \in 0..(B - 1), NEW q \in 0..7, NEW m \in Nat, NEW e \in 0..(b - 1),
             NEW c \in 0..(b - 1), m * b + e = 8 * (g * B + i) + q, q + (8 * i - b * j) = c
      PROVE  m = g * U + j /\ e = c
  <2>1. CASE b = 1 /\ U = 8 /\ B = 1
    <3>1. m * 1 + e = (g * 8 + j) * 1 + c /\ e \in 0..0 /\ c \in 0..0 /\ j \in Nat
      BY <1>2, <2>1
    <3> QED
      BY <2>1, <3>1
  <2>2. CASE b = 4 /\ U = 2 /\ B = 1
    <3>1. m * 4 + e = (g * 2 + j) * 4 + c /\ e \in 0..3 /\ c \in 0..3 /\ j \in Nat
      BY <1>2, <2>2
    <3> QED
      BY <2>2, <3>1
  <2>3. CASE b = 5 /\ U = 8 /\ B = 5
    <3>1. m * 5 + e = (g * 8 + j) * 5 + c /\ e \in 0..4 /\ c \in 0..4 /\ j \in Nat
      BY <1>2, <2>3
    <3> QED
      BY <2>3, <3>1
  <2>4. CASE b = 8 /\ U = 1 /\ B = 1
    <3>1. m * 8 + e = (g * 1 + j) * 8 + c /\ e \in 0..7 /\ c \in 0..7 /\ j \in Nat
      BY <1>2, <2>4
    <3> QED
      BY <2>4, <3>1
  <2>5. CASE b = 10 /\ U = 4 /\ B = 5
    <3>1. m * 10 + e = (g * 4 + j) * 10 + c /\ e \in 0..9 /\ c \in 0..9 /\ j \in Nat
      BY <1>2, <2>5
    <3> QED
      BY <2>5, <3>1
  <2>6. CASE b = 11 /\ U = 8 /\ B = 11
    <3>1. m * 11 + e = (g * 8 + j) * 11 + c /\ e \in 0..10 /\ c \in 0..10 /\ j \in Nat
      BY <1>2, <2>6
    <3> QED
      BY <2>6, <3>1
  <2>7. CASE b = 12 /\ U = 2 /\ B = 3
    <3>1. m * 12 + e = (g * 2 + j) * 12 + c /\ e \in 0..11 /\ c \in 0..11 /\ j \in Nat
      BY <1>2, <2>7
    <3> QED
      BY <2>7, <3>1
  <2> QED
    BY <2>1, <2>2, <2>3, <2>4, <2>5, <2>6, <2>7 DEF UnpackGroups
<1>3. \A i \in 0..(B - 1) : 8 * i - b * j \in Int
  <2>1. b \in Nat /\ U \in Nat /\ B \in Nat
    BY DEF UnpackGroups
  <2> QED
    BY <2>1
<1> QED
  BY <1>1, <1>2, <1>3 DEF UnpackAligned, ToWord, IsBit, Moved

(* What the tables say of a byte and of a word. *)
PackRow(table, b, W, i) ==
    /\ \A t \in table : \E j \in 0..(W - 1) : t = <<j, ToByte(b, j, i)>>
    /\ \A j \in 0..(W - 1), c \in 0..(b - 1), q \in 0..7 :
          Moved(c, ToByte(b, j, i), q) => <<j, ToByte(b, j, i)>> \in table

UnpackRow(table, b, B, j) ==
    /\ \A t \in table : \E i \in 0..(B - 1) : t = <<i, ToWord(b, j, i)>>
    /\ \A i \in 0..(B - 1), c \in 0..(b - 1), q \in 0..7 :
          Moved(q, ToWord(b, j, i), c) => <<i, ToWord(b, j, i)>> \in table

(* The words that a group is made of, and the bytes that it is read from. *)
WordsFrom(made, b, W, s, base) == \A j \in 0..(W - 1) : made[j] = Word(s, base + j, b)
BytesFrom(read, b, B, s, d) == \A i \in 0..(B - 1) : read[i] = ByteOf(b, s, d + i)

(* A group of bytes is made of the bits that belong there. *)
LEMMA GroupPacked ==
    ASSUME NEW b \in Nat, b > 0, NEW W \in Nat, NEW i, NEW d \in Nat, NEW base \in Nat,
           PackAligned(b, W, i, d, base), NEW s,
           NEW table, PackRow(table, b, W, i),
           NEW made, WordsFrom(made, b, W, s, base)
    PROVE  Combine(table, made, 8) = ByteOf(b, s, d)
<1>1. ASSUME NEW j \in 0..(W - 1), NEW c \in 0..(b - 1), NEW q \in 0..7,
             Moved(c, ToByte(b, j, i), q)
      PROVE  base + j \in Nat /\ IsBit(b, base + j, c, d, q) /\ <<j, ToByte(b, j, i)>> \in table
  <2>1. base + j \in Nat /\ IsBit(b, base + j, c, d, q)
    BY <1>1, Zenon DEF PackAligned
  <2>2. <<j, ToByte(b, j, i)>> \in table
    BY <1>1, Zenon DEF PackRow
  <2> QED
    BY <2>1, <2>2
<1>2. ASSUME NEW x \in Combine(table, made, 8) PROVE x \in ByteOf(b, s, d)
  <2>1. PICK t \in table : \E y \in made[t[1]] : Puts(x, y, t[2], 8)
    BY <1>2, CombinedFrom, Zenon
  <2>2. PICK j \in 0..(W - 1) : t = <<j, ToByte(b, j, i)>>
    BY Zenon DEF PackRow
  <2>3. t[1] = j /\ t[2] = ToByte(b, j, i)
    BY <2>2
  <2>4. made[t[1]] = Word(s, base + j, b)
    BY <2>3, Zenon DEF WordsFrom
  <2>5. PICK y \in Word(s, base + j, b) : Puts(x, y, ToByte(b, j, i), 8)
    BY <2>1, <2>3, <2>4, Zenon
  <2>6. PICK c \in 0..(b - 1) : y = BitIn(c, <<s, base + j, c>>)
    BY Zenon DEF Word
  <2>7. y.place = c /\ y.from = <<s, base + j, c>>
    BY <2>6 DEF BitIn
  <2> DEFINE q == c + ToByte(b, j, i)
  <2>8. x = BitIn(q, <<s, base + j, c>>) /\ q >= 0 /\ q < 8
    BY <2>5, <2>7, Zenon DEF Puts
  <2>9. ToByte(b, j, i) \in Int
    BY Zenon DEF PackAligned
  <2>10. q \in 0..7 /\ Moved(c, ToByte(b, j, i), q)
    <3>1. Moved(c, ToByte(b, j, i), q)
      BY Zenon DEF Moved
    <3> HIDE DEF q
    <3>2. q \in Int
      BY <2>9 DEF q
    <3> QED
      BY <2>8, <3>1, <3>2
  <2> HIDE DEF q
  <2>11. base + j \in Nat /\ IsBit(b, base + j, c, d, q)
    BY <1>1, <2>10, Zenon
  <2>12. BitOfByte(x, b, s, d, q, base + j, c)
    BY <2>8, <2>11, Zenon DEF BitOfByte
  <2> QED
    BY <2>10, <2>11, <2>12, ByteHas, Zenon
<1>3. ASSUME NEW x \in ByteOf(b, s, d) PROVE x \in Combine(table, made, 8)
  <2>1. PICK q \in 0..7, n \in Nat, c \in 0..(b - 1) : BitOfByte(x, b, s, d, q, n, c)
    BY <1>3, ByteFrom, Zenon
  <2>2. IsBit(b, n, c, d, q) /\ x = BitIn(q, <<s, n, c>>)
    BY <2>1, Zenon DEF BitOfByte
  <2>3. PICK j \in 0..(W - 1) : n = base + j /\ Moved(c, ToByte(b, j, i), q)
    BY <2>2, Zenon DEF PackAligned
  <2>4. <<j, ToByte(b, j, i)>> \in table
    BY <1>1, <2>3, Zenon
  <2> DEFINE y == BitIn(c, <<s, n, c>>)
             t == <<j, ToByte(b, j, i)>>
  <2>5. y \in made[j]
    <3>1. made[j] = Word(s, n, b)
      BY <2>3, Zenon DEF WordsFrom
    <3> QED
      BY <3>1, Zenon DEF Word
  <2>6. y.place = c /\ y.from = <<s, n, c>>
    BY DEF BitIn
  <2>7. t[1] = j /\ t[2] = ToByte(b, j, i)
    OBVIOUS
  <2>8. t \in table
    BY <2>4, Zenon
  <2> HIDE DEF y, t
  <2>9. y.place + t[2] = q
    BY <2>3, <2>6, <2>7, Zenon DEF Moved
  <2>10. q >= 0 /\ q < 8
    OBVIOUS
  <2>11. y \in made[t[1]] /\ Puts(x, y, t[2], 8)
    BY <2>2, <2>5, <2>6, <2>7, <2>9, <2>10, Zenon DEF Puts
  <2> QED
    BY <2>8, <2>11, CombinedHas, Zenon
<1> QED
  BY <1>2, <1>3, Zenon

(* And a word unpacked from such bytes is the one that was packed. *)
LEMMA GroupUnpacked ==
    ASSUME NEW b \in Nat, b > 0, NEW B \in Nat, NEW j, NEW d \in Nat, NEW n \in Nat,
           UnpackAligned(b, B, j, d, n), NEW s,
           NEW table, UnpackRow(table, b, B, j),
           NEW read, BytesFrom(read, b, B, s, d)
    PROVE  Combine(table, read, b) = Word(s, n, b)
<1>1. ASSUME NEW i \in 0..(B - 1) PROVE d + i \in Nat /\ read[i] = ByteOf(b, s, d + i)
  BY DEF BytesFrom
<1>2. ASSUME NEW x \in Combine(table, read, b) PROVE x \in Word(s, n, b)
  <2>1. PICK t \in table : \E y \in read[t[1]] : Puts(x, y, t[2], b)
    BY <1>2, CombinedFrom, Zenon
  <2>2. PICK i \in 0..(B - 1) : t = <<i, ToWord(b, j, i)>>
    BY Zenon DEF UnpackRow
  <2>3. t[1] = i /\ t[2] = ToWord(b, j, i)
    BY <2>2
  <2>4. PICK y \in ByteOf(b, s, d + i) : Puts(x, y, ToWord(b, j, i), b)
    BY <1>1, <2>1, <2>3, Zenon
  <2>5. PICK q \in 0..7, m \in Nat, e \in 0..(b - 1) : BitOfByte(y, b, s, d + i, q, m, e)
    BY <1>1, ByteFrom, Zenon
  <2>6. IsBit(b, m, e, d + i, q) /\ y = BitIn(q, <<s, m, e>>)
    BY <2>5, Zenon DEF BitOfByte
  <2>7. y.place = q /\ y.from = <<s, m, e>>
    BY <2>6 DEF BitIn
  <2> DEFINE c == q + ToWord(b, j, i)
  <2>8. x = BitIn(c, <<s, m, e>>) /\ c >= 0 /\ c < b
    BY <2>4, <2>7, Zenon DEF Puts
  <2>9. ToWord(b, j, i) \in Int
    BY Zenon DEF UnpackAligned
  <2>10. c \in 0..(b - 1) /\ Moved(q, ToWord(b, j, i), c)
    <3>1. Moved(q, ToWord(b, j, i), c)
      BY Zenon DEF Moved
    <3> HIDE DEF c
    <3>2. c \in Int
      BY <2>9 DEF c
    <3> QED
      BY <2>8, <3>1, <3>2
  <2> HIDE DEF c
  <2>11. m = n /\ e = c
    BY <2>6, <2>10, Zenon DEF UnpackAligned
  <2> QED
    BY <2>8, <2>10, <2>11, Zenon DEF Word
<1>3. ASSUME NEW x \in Word(s, n, b) PROVE x \in Combine(table, read, b)
  <2>1. PICK c \in 0..(b - 1) : x = BitIn(c, <<s, n, c>>)
    BY <1>3, Zenon DEF Word
  <2>2. PICK i \in 0..(B - 1), q \in 0..7 :
            Moved(q, ToWord(b, j, i), c) /\ IsBit(b, n, c, d + i, q)
    BY Zenon DEF UnpackAligned
  <2> DEFINE y == BitIn(q, <<s, n, c>>)
             t == <<i, ToWord(b, j, i)>>
  <2>3. y \in read[i]
    <3>1. BitOfByte(y, b, s, d + i, q, n, c)
      BY <2>2, Zenon DEF BitOfByte
    <3> HIDE DEF y
    <3>2. y \in ByteOf(b, s, d + i)
      BY <1>1, <3>1, ByteHas, Zenon
    <3> QED
      BY <1>1, <3>2, Zenon
  <2>4. <<i, ToWord(b, j, i)>> \in table
    BY <2>2, Zenon DEF UnpackRow
  <2>5. y.place = q /\ y.from = <<s, n, c>>
    BY DEF BitIn
  <2>6. t[1] = i /\ t[2] = ToWord(b, j, i) /\ t \in table
    BY <2>4
  <2> HIDE DEF y, t
  <2>7. y.place + t[2] = c
    BY <2>2, <2>5, <2>6, Zenon DEF Moved
  <2>8. c >= 0 /\ c < b
    OBVIOUS
  <2>9. y \in read[t[1]] /\ Puts(x, y, t[2], b)
    BY <2>1, <2>3, <2>5, <2>6, <2>7, <2>8, Zenon DEF Puts
  <2> QED
    BY <2>6, <2>9, CombinedHas, Zenon
<1> QED
  BY <1>2, <1>3, Zenon

(* A byte of a group of words is that byte of the section. *)
LEMMA PackedGroup ==
    ASSUME NEW b \in Formats, NEW g \in Nat, NEW i \in 0..(Len(Pack(b)) - 1), NEW s, NEW made,
           WordsFrom(made, b, PackedWords(b), s, g * PackedWords(b))
    PROVE  Combine(Pack(b)[i + 1], made, 8) = ByteOf(b, s, g * Len(Pack(b)) + i)
<1> DEFINE T == Len(Pack(b))
           W == PackedWords(b)
<1>1. PackGroups(b, T, W)
  BY PackLengths
<1>2. b \in Nat /\ b > 0
  BY DEF Formats
<1>3. PackRow(Pack(b)[i + 1], b, W, i)
  <2>1. \A t \in Pack(b)[i + 1] : \E j \in 0..(W - 1) : t = <<j, ToByte(b, j, i)>>
    BY PackEntries DEF ToByte
  <2>2. ASSUME NEW j \in 0..(W - 1), NEW c \in 0..(b - 1), NEW q \in 0..7, Moved(c, ToByte(b, j, i), q)
        PROVE  <<j, ToByte(b, j, i)>> \in Pack(b)[i + 1]
    <3>1. W \in Nat /\ T \in Nat
      BY <1>1, PackArith
    <3>2. b * j \in Nat /\ i \in Nat
      BY <1>2, <3>1
    <3>3. b * j + c = 8 * i + q
      BY <1>2, <2>2, <3>2 DEF Moved, ToByte
    <3> QED
      BY <3>3, PackEntries DEF ToByte
  <2> QED
    BY <2>1, <2>2 DEF PackRow
<1> HIDE DEF T, W
<1>4. T \in Nat /\ W \in Nat /\ i \in 0..(T - 1)
  BY <1>1, PackArith DEF T
<1>5. PackAligned(b, W, i, g * T + i, g * W)
  BY <1>1, <1>4, PackGroupBits
<1>6. g * T \in Nat /\ g * W \in Nat
  BY <1>4, ProductNat
<1>7. g * T + i \in Nat
  BY <1>4, <1>6
<1>8. WordsFrom(made, b, W, s, g * W)
  BY DEF W
<1>9. Combine(Pack(b)[i + 1], made, 8) = ByteOf(b, s, g * T + i)
  <2>1. PICK d \in Nat : d = g * T + i
    BY <1>7
  <2>2. PICK base \in Nat : base = g * W
    BY <1>6
  <2>3. PICK table : table = Pack(b)[i + 1]
    OBVIOUS
  <2>4. PackRow(table, b, W, i) /\ PackAligned(b, W, i, d, base) /\ WordsFrom(made, b, W, s, base)
    BY <1>3, <1>5, <1>8, <2>1, <2>2, <2>3, Zenon
  <2>5. Combine(table, made, 8) = ByteOf(b, s, d)
    BY <1>2, <1>4, <2>4, GroupPacked
  <2> QED
    BY <2>1, <2>3, <2>5, Zenon
<1> QED
  BY <1>9 DEF T

(* And a word of a group of bytes is that word of the section. *)
LEMMA UnpackedGroup ==
    ASSUME NEW b \in Formats, NEW g \in Nat, NEW j \in 0..(Len(Unpack(b)) - 1), NEW s, NEW read,
           BytesFrom(read, b, UnpackedBytes(b), s, g * UnpackedBytes(b))
    PROVE  Combine(Unpack(b)[j + 1], read, b) = Word(s, g * Len(Unpack(b)) + j, b)
<1> DEFINE U == Len(Unpack(b))
           B == UnpackedBytes(b)
<1>1. UnpackGroups(b, U, B)
  BY UnpackLengths
<1>2. b \in Nat /\ b > 0
  BY DEF Formats
<1>3. UnpackRow(Unpack(b)[j + 1], b, B, j)
  <2>1. \A t \in Unpack(b)[j + 1] : \E i \in 0..(B - 1) : t = <<i, ToWord(b, j, i)>>
    BY UnpackEntries DEF ToWord
  <2>2. ASSUME NEW i \in 0..(B - 1), NEW c \in 0..(b - 1), NEW q \in 0..7, Moved(q, ToWord(b, j, i), c)
        PROVE  <<i, ToWord(b, j, i)>> \in Unpack(b)[j + 1]
    <3>1. B \in Nat /\ U \in Nat
      BY <1>1, UnpackArith
    <3>2. j \in Nat /\ i \in Nat
      BY <3>1
    <3>3. b * j \in Nat
      BY <1>2, <3>2, ProductNat
    <3>4. b * j + c = 8 * i + q
      BY <1>2, <2>2, <3>2, <3>3 DEF Moved, ToWord
    <3> QED
      BY <3>4, UnpackEntries DEF ToWord
  <2> QED
    BY <2>1, <2>2 DEF UnpackRow
<1> HIDE DEF U, B
<1>4. U \in Nat /\ B \in Nat /\ j \in 0..(U - 1)
  BY <1>1, UnpackArith DEF U
<1>5. UnpackAligned(b, B, j, g * B, g * U + j)
  BY <1>1, <1>4, UnpackGroupBits
<1>6. g * B \in Nat /\ g * U \in Nat
  BY <1>4, ProductNat
<1>7. g * U + j \in Nat
  BY <1>4, <1>6
<1>8. BytesFrom(read, b, B, s, g * B)
  BY DEF B
<1>9. Combine(Unpack(b)[j + 1], read, b) = Word(s, g * U + j, b)
  <2>1. PICK d \in Nat : d = g * B
    BY <1>6
  <2>2. PICK n \in Nat : n = g * U + j
    BY <1>7
  <2>3. PICK table : table = Unpack(b)[j + 1]
    OBVIOUS
  <2>4. UnpackRow(table, b, B, j) /\ UnpackAligned(b, B, j, d, n) /\ BytesFrom(read, b, B, s, d)
    BY <1>3, <1>5, <1>8, <2>1, <2>2, <2>3, Zenon
  <2>5. Combine(table, read, b) = Word(s, n, b)
    BY <1>2, <1>4, <2>4, GroupUnpacked
  <2> QED
    BY <2>2, <2>3, <2>5, Zenon
<1> QED
  BY <1>9 DEF U

-----------------------------------------------------------------------------
(* A section holds whole groups of words, as packed and as unpacked. *)
SectionRight(sec) ==
    /\ sec.bits \in Formats /\ sec.at \in Nat /\ sec.words \in Nat \ {0}
    /\ sec.words % PackedWords(sec.bits) = 0

LEMMA SectionGroups ==
    ASSUME NEW sec, SectionRight(sec)
    PROVE  /\ \E k \in Nat \ {0} : /\ sec.words = k * PackedWords(sec.bits)
                                   /\ SectionBytes(sec) = k * Len(Pack(sec.bits))
           /\ \E k \in Nat \ {0} : /\ sec.words = k * Len(Unpack(sec.bits))
                                   /\ SectionBytes(sec) = k * UnpackedBytes(sec.bits)
           /\ SectionBytes(sec) \in Nat \ {0}
<1> DEFINE b == sec.bits
           n == sec.words
           T == Len(Pack(b))
           W == PackedWords(b)
           U == Len(Unpack(b))
           B == UnpackedBytes(b)
<1>1. PackGroups(b, T, W) /\ UnpackGroups(b, U, B)
  BY PackLengths, UnpackLengths DEF SectionRight
<1>2. n \in Nat \ {0} /\ n % W = 0 /\ SectionBytes(sec) = (n * b) \div 8
  BY DEF SectionRight, SectionBytes
<1> HIDE DEF b, n, T, W, U, B
<1>3. W \in Nat \ {0}
  BY <1>1, PackArith
<1>4. PICK k : k = n \div W
  OBVIOUS
<1>5. k \in Nat /\ n = k * W
  <2>1. n = (n \div W) * W + (n % W) /\ n \div W \in Nat
    BY <1>2, <1>3, DivMod, DivNat
  <2> QED
    BY <1>2, <1>3, <1>4, <2>1
<1>6. k # 0
  BY <1>2, <1>3, <1>5
<1>7. /\ SectionBytes(sec) = k * T /\ k * T \in Nat \ {0}
      /\ \E m \in Nat \ {0} : n = m * U /\ k * T = m * B
  <2>1. CASE b = 1 /\ T = 1 /\ W = 8
    BY <1>1, <1>2, <1>5, <1>6, <2>1 DEF UnpackGroups
  <2>2. CASE b = 4 /\ T = 4 /\ W = 8
    <3>1. n = (4 * k) * 2 /\ k * 4 = (4 * k) * 1 /\ 4 * k \in Nat \ {0} /\ U = 2 /\ B = 1
      BY <1>1, <1>5, <1>6, <2>2 DEF UnpackGroups
    <3>2. (n * 4) \div 8 = k * 4
      BY <1>5, <2>2
    <3> QED
      BY <1>2, <1>5, <1>6, <2>2, <3>1, <3>2
  <2>3. CASE b = 5 /\ T = 5 /\ W = 8
    BY <1>1, <1>2, <1>5, <1>6, <2>3 DEF UnpackGroups
  <2>4. CASE b = 8 /\ T = 1 /\ W = 1
    BY <1>1, <1>2, <1>5, <1>6, <2>4 DEF UnpackGroups
  <2>5. CASE b = 10 /\ T = 5 /\ W = 4
    BY <1>1, <1>2, <1>5, <1>6, <2>5 DEF UnpackGroups
  <2>6. CASE b = 11 /\ T = 11 /\ W = 8
    BY <1>1, <1>2, <1>5, <1>6, <2>6 DEF UnpackGroups
  <2>7. CASE b = 12 /\ T = 3 /\ W = 2
    BY <1>1, <1>2, <1>5, <1>6, <2>7 DEF UnpackGroups
  <2> QED
    BY <1>1, <2>1, <2>2, <2>3, <2>4, <2>5, <2>6, <2>7 DEF PackGroups
<1> QED
  BY <1>5, <1>6, <1>7 DEF b, n, T, W, U, B

(***************************************************************************)
(* The sections of a layout are whole, and lie one after another from the  *)
(* first byte of the object to its last.                                   *)
(***************************************************************************)
SectionAfter(L, size, s) == IF s = Len(L) THEN size ELSE L[s + 1].at

Tiled(L, size) ==
    /\ Len(L) \in Nat \ {0} /\ size \in Nat
    /\ L[1].at = 0
    /\ \A s \in 1..Len(L) : SectionRight(L[s]) /\ L[s].at + SectionBytes(L[s]) = SectionAfter(L, size, s)

LEMMA Sizes ==
    \E c \in Nat \ {0}, m \in Nat \ {0} :
        /\ Coefficients = 8 * c /\ KYBER_K * Coefficients = 8 * m
        /\ POLYBYTES = 12 * c /\ POLYVECBYTES = 12 * m /\ m = KYBER_K * c
<1>1. KYBER_K \in Nat \ {0} /\ Coefficients \in Nat \ {0} /\ Coefficients % 8 = 0
  BY PackAssumption
<1>2. PICK c \in Nat \ {0} : Coefficients = 8 * c
  BY <1>1
<1>3. PICK m \in Nat \ {0} : m = KYBER_K * c
  BY <1>1, <1>2
<1>4. POLYBYTES = 12 * c
  BY <1>2 DEF POLYBYTES
<1>5. KYBER_K * (8 * c) = 8 * m /\ KYBER_K * (12 * c) = 12 * m
  BY <1>1, <1>2, <1>3
<1> QED
  BY <1>2, <1>3, <1>4, <1>5 DEF POLYVECBYTES

LEMMA SectionIs ==
    ASSUME NEW bits, NEW at, NEW ws
    PROVE  /\ Section(bits, at, ws).bits = bits /\ Section(bits, at, ws).at = at
           /\ Section(bits, at, ws).words = ws
           /\ SectionBytes(Section(bits, at, ws)) = (ws * bits) \div 8
BY DEF Section, SectionBytes

LEMMA PolyvecTiled ==
    /\ polyvec_tobytes \in Seq({polyvec_tobytes[i] : i \in 1..KYBER_K})
    /\ Len(polyvec_tobytes) = KYBER_K
    /\ \A i \in 1..KYBER_K :
          /\ SectionRight(polyvec_tobytes[i])
          /\ polyvec_tobytes[i].at = (i - 1) * POLYBYTES
          /\ polyvec_tobytes[i].at + SectionBytes(polyvec_tobytes[i]) = i * POLYBYTES
<1>1. KYBER_K \in Nat \ {0}
  BY PackAssumption
<1>2. PICK c \in Nat \ {0} : Coefficients = 8 * c /\ POLYBYTES = 12 * c
  BY Sizes
<1>3. PackedWords(12) = 2
  BY PackLengths DEF PackGroups, Formats
<1>4. ASSUME NEW i \in 1..KYBER_K
      PROVE  /\ SectionRight(polyvec_tobytes[i])
             /\ polyvec_tobytes[i].at = (i - 1) * POLYBYTES
             /\ polyvec_tobytes[i].at + SectionBytes(polyvec_tobytes[i]) = i * POLYBYTES
  <2>1. polyvec_tobytes[i] = Section(12, (i - 1) * POLYBYTES, Coefficients)
    BY DEF polyvec_tobytes
  <2>2. (Coefficients * 12) \div 8 = 12 * c /\ Coefficients % 2 = 0 /\ Coefficients \in Nat \ {0}
    BY <1>2
  <2>3. (i - 1) * (12 * c) + 12 * c = i * (12 * c) /\ (i - 1) * (12 * c) \in Nat
    <3>1. PICK e \in Nat : e = 12 * c
      OBVIOUS
    <3>2. i - 1 \in Nat
      BY <1>1
    <3>3. (i - 1) * e \in Nat
      BY <3>1, <3>2, ProductNat
    <3>4. (i - 1) * e + e = i * e
      BY <1>1, <3>1
    <3> QED
      BY <3>1, <3>3, <3>4
  <2> QED
    BY <1>2, <1>3, <2>1, <2>2, <2>3, SectionIs DEF SectionRight, Formats
<1>5. /\ polyvec_tobytes \in Seq({polyvec_tobytes[i] : i \in 1..KYBER_K})
      /\ Len(polyvec_tobytes) = KYBER_K
  BY <1>1 DEF polyvec_tobytes
<1> QED
  BY <1>4, <1>5

LEMMA ByteSection ==
    ASSUME NEW at \in Nat, NEW n \in Nat \ {0}
    PROVE  /\ SectionRight(Section(8, at, n)) /\ SectionBytes(Section(8, at, n)) = n
           /\ Section(8, at, n).at = at
<1>1. PackedWords(8) = 1
  BY PackLengths DEF PackGroups, Formats
<1>2. (n * 8) \div 8 = n /\ n % 1 = 0
  OBVIOUS
<1> QED
  BY <1>1, <1>2, SectionIs DEF SectionRight, Formats

(* Coefficients in words of b bits. *)
LEMMA CompressedSection ==
    ASSUME NEW b \in {4, 5, 10, 11}, NEW at \in Nat, NEW m \in Nat \ {0}
    PROVE  /\ SectionRight(Section(b, at, 8 * m))
           /\ SectionBytes(Section(b, at, 8 * m)) = m * b /\ m * b \in Nat
<1>1. PackedWords(4) = 8 /\ PackedWords(5) = 8 /\ PackedWords(10) = 4 /\ PackedWords(11) = 8
  BY PackLengths DEF PackGroups, Formats
<1>2. (8 * m * b) \div 8 = m * b /\ (8 * m) % 8 = 0 /\ (8 * m) % 4 = 0 /\ 8 * m \in Nat \ {0}
  BY SMT
<1>3. m * b \in Nat
  OBVIOUS
<1> QED
  BY <1>1, <1>2, <1>3, SectionIs DEF SectionRight, Formats

LEMMA CiphertextTiled ==
    ASSUME NEW du \in {10, 11}, NEW dv \in {4, 5}
    PROVE  Tiled(Ciphertext(du, dv), PolyvecCompressedBytes(du) + PolyCompressedBytes(dv))
<1>1. PICK c \in Nat \ {0}, m \in Nat \ {0} : Coefficients = 8 * c /\ KYBER_K * Coefficients = 8 * m
  BY Sizes
<1>2. PolyvecCompressedBytes(du) = m * du /\ PolyCompressedBytes(dv) = c * dv
  BY <1>1 DEF PolyvecCompressedBytes, PolyCompressedBytes
<1>3. m * du \in Nat
  OBVIOUS
<1> DEFINE L == Ciphertext(du, dv)
<1>4. L = <<Section(du, 0, 8 * m), Section(dv, m * du, 8 * c)>>
  BY <1>1, <1>2 DEF Ciphertext
<1>5. /\ SectionRight(L[1]) /\ L[1].at = 0 /\ SectionBytes(L[1]) = m * du
  BY <1>4, CompressedSection, SectionIs
<1>6. /\ SectionRight(L[2]) /\ L[2].at = m * du /\ SectionBytes(L[2]) = c * dv
      /\ c * dv \in Nat
  BY <1>3, <1>4, CompressedSection, SectionIs
<1>7. Len(L) = 2
  BY <1>4
<1> HIDE DEF L
<1>8. \A s \in 1..2 : s = 1 \/ s = 2
  OBVIOUS
<1>9. 0 + m * du = m * du
  BY <1>3
<1> QED
  BY <1>2, <1>3, <1>5, <1>6, <1>7, <1>8, <1>9 DEF Tiled, SectionAfter, L

LEMMA MessageTiled == Tiled(<<Section(1, 0, Coefficients)>>, Coefficients \div 8)
<1>1. PICK c \in Nat \ {0} : Coefficients = 8 * c
  BY Sizes
<1>2. PackedWords(1) = 8
  BY PackLengths DEF PackGroups, Formats
<1>3. (8 * c) % 8 = 0 /\ (8 * c) \div 8 \in Nat /\ (8 * c) * 1 = 8 * c /\ 8 * c \in Nat \ {0}
  OBVIOUS
<1> DEFINE L == <<Section(1, 0, Coefficients)>>
<1>4. Len(L) = 1 /\ L[1] = Section(1, 0, 8 * c)
  BY <1>1
<1> HIDE DEF L
<1>5. SectionRight(L[1]) /\ L[1].at = 0 /\ SectionBytes(L[1]) = (8 * c) \div 8
  BY <1>2, <1>3, <1>4, SectionIs DEF SectionRight, Formats
<1>6. \A s \in 1..1 : s = 1
  OBVIOUS
<1>7. Tiled(L, Coefficients \div 8)
  BY <1>1, <1>3, <1>4, <1>5, <1>6 DEF Tiled, SectionAfter
<1> QED
  BY <1>7 DEF L

LEMMA Joined ==
    ASSUME NEW A, NEW v \in Seq(A), NEW w \in Seq(A)
    PROVE  /\ Len(v \o w) = Len(v) + Len(w)
           /\ \A i \in 1..Len(v) : (v \o w)[i] = v[i]
           /\ \A i \in 1..Len(w) : (v \o w)[Len(v) + i] = w[i]
OBVIOUS

(* A key: the polynomials, then sections of bytes. *)
Follows(tail, size) ==
    /\ Len(tail) \in Nat \ {0} /\ tail[1].at = POLYVECBYTES
    /\ \A s \in 1..Len(tail) :
          SectionRight(tail[s]) /\ tail[s].at + SectionBytes(tail[s]) = SectionAfter(tail, size, s)

LEMMA KeyTiled ==
    ASSUME NEW S, NEW tail \in Seq(S), NEW size \in Nat, Follows(tail, size)
    PROVE  Tiled(polyvec_tobytes \o tail, size)
<1> DEFINE n == Len(tail)
<1>0. /\ n \in Nat \ {0} /\ tail[1].at = POLYVECBYTES
      /\ \A s \in 1..n : /\ SectionRight(tail[s])
                          /\ tail[s].at + SectionBytes(tail[s]) = SectionAfter(tail, size, s)
  BY DEF Follows
<1> DEFINE V == polyvec_tobytes
           L == V \o tail
<1>1. KYBER_K \in Nat \ {0}
  BY PackAssumption
<1>2. PICK c \in Nat \ {0} : POLYBYTES = 12 * c
  BY Sizes, Zenon
<1>3. PICK A : tail \in Seq(A) /\ V \in Seq(A)
  <2>1. V \in Seq({V[i] : i \in 1..KYBER_K})
    BY PolyvecTiled
  <2> DEFINE A == {V[i] : i \in 1..KYBER_K} \cup S
  <2>2. V \in Seq(A) /\ tail \in Seq(A)
    BY <2>1
  <2> QED
    BY <2>2
<1>4. Len(V) = KYBER_K
  BY PolyvecTiled
<1> HIDE DEF V
<1>5. /\ Len(L) = KYBER_K + n
      /\ \A i \in 1..KYBER_K : L[i] = V[i]
      /\ \A i \in 1..n : L[KYBER_K + i] = tail[i]
  <2>1. /\ Len(L) = Len(V) + Len(tail)
        /\ \A i \in 1..Len(V) : L[i] = V[i]
        /\ \A i \in 1..Len(tail) : L[Len(V) + i] = tail[i]
    <3>1. \A v, w \in Seq(A) : /\ Len(v \o w) = Len(v) + Len(w)
                               /\ \A i \in 1..Len(v) : (v \o w)[i] = v[i]
                               /\ \A i \in 1..Len(w) : (v \o w)[Len(v) + i] = w[i]
      BY Joined
    <3>2. V \in Seq(A) /\ tail \in Seq(A)
      BY <1>3
    <3> QED
      BY <3>1, <3>2, Zenon
  <2> HIDE DEF L
  <2> QED
    BY <1>4, <2>1 DEF n
<1> HIDE DEF L, n
<1>6. L[1].at = 0
  <2>1. L[1] = V[1] /\ V[1].at = (1 - 1) * POLYBYTES
    BY <1>1, <1>5, PolyvecTiled DEF V
  <2> QED
    BY <1>2, <2>1
<1>7. ASSUME NEW s \in 1..Len(L)
      PROVE  SectionRight(L[s]) /\ L[s].at + SectionBytes(L[s]) = SectionAfter(L, size, s)
  <2>1. CASE s \in 1..KYBER_K
    <3>1. SectionRight(L[s]) /\ L[s].at + SectionBytes(L[s]) = s * POLYBYTES
      BY <1>5, <2>1, PolyvecTiled DEF V
    <3>2. s # Len(L)
      BY <1>0, <1>1, <1>5, <2>1
    <3>3. L[s + 1].at = s * POLYBYTES
      <4>1. CASE s = KYBER_K
        BY <1>0, <1>1, <1>5, <4>1 DEF POLYVECBYTES
      <4>2. CASE s # KYBER_K
        <5>1. s + 1 \in 1..KYBER_K /\ (s + 1) - 1 = s
          BY <1>1, <2>1, <4>2
        <5>2. L[s + 1] = V[s + 1] /\ V[s + 1].at = ((s + 1) - 1) * POLYBYTES
          BY <1>5, <5>1, PolyvecTiled DEF V
        <5> QED
          BY <5>1, <5>2
      <4> QED
        BY <4>1, <4>2
    <3> QED
      BY <3>1, <3>2, <3>3 DEF SectionAfter
  <2>2. CASE s \notin 1..KYBER_K
    <3>1. PICK i \in 1..n : s = KYBER_K + i
      <4>1. s - KYBER_K \in 1..n /\ s = KYBER_K + (s - KYBER_K)
        BY <1>0, <1>1, <1>5, <2>2
      <4> QED
        BY <4>1
    <3>2. L[s] = tail[i]
      BY <1>5, <3>1
    <3>3. CASE i = n
      <4>1. s = Len(L)
        BY <1>0, <1>5, <3>1, <3>3
      <4> QED
        BY <1>0, <3>2, <3>3, <4>1 DEF SectionAfter, n
    <3>4. CASE i # n
      <4>1. i + 1 \in 1..n /\ s # Len(L) /\ s + 1 = KYBER_K + (i + 1)
        BY <1>0, <1>1, <1>5, <3>1, <3>4
      <4>2. L[s + 1] = tail[i + 1]
        BY <1>5, <4>1
      <4> QED
        BY <1>0, <3>2, <3>4, <4>1, <4>2 DEF SectionAfter, n
    <3> QED
      BY <3>3, <3>4
  <2> QED
    BY <2>1, <2>2
<1>8. Tiled(L, size)
  BY <1>0, <1>1, <1>5, <1>6, <1>7 DEF Tiled
<1> QED
  BY <1>8 DEF L, V

LEMMA LayoutTiled == \A o \in Objects : Tiled(Layout(o), Size(o))
<1> DEFINE Y == KYBER_SYMBYTES
<1>1. Y \in Nat \ {0}
  BY PackAssumption
<1>2. PICK m \in Nat \ {0} : POLYVECBYTES = 12 * m
  BY Sizes, Zenon
<1>3. POLYVECBYTES \in Nat /\ PUBLICKEYBYTES = POLYVECBYTES + Y
  BY <1>2 DEF PUBLICKEYBYTES
<1>4. SECRETKEYBYTES = POLYVECBYTES + (POLYVECBYTES + Y) + 2 * Y
  BY <1>3 DEF SECRETKEYBYTES
<1>5. Tiled(Layout("message"), Size("message"))
  BY MessageTiled DEF Layout, Size
<1>6. Tiled(Layout("ciphertext 10 4"), Size("ciphertext 10 4"))
  BY CiphertextTiled DEF Layout, Size
<1>7. Tiled(Layout("ciphertext 11 5"), Size("ciphertext 11 5"))
  BY CiphertextTiled DEF Layout, Size
<1>8. Tiled(Layout("public key"), Size("public key"))
  <2> DEFINE tail == <<Section(8, POLYVECBYTES, Y)>>
  <2>1. Layout("public key") = polyvec_tobytes \o tail
    <3>1. \A v, x : Append(v, x) = v \o <<x>>
      OBVIOUS
    <3> QED
      BY <3>1 DEF Layout
  <2>2. Size("public key") = POLYVECBYTES + Y
    BY <1>3 DEF Size
  <2>3. tail \in Seq({tail[1]}) /\ Len(tail) = 1 /\ tail[1] = Section(8, POLYVECBYTES, Y)
    OBVIOUS
  <2> HIDE DEF tail
  <2>4. SectionRight(tail[1]) /\ SectionBytes(tail[1]) = Y /\ tail[1].at = POLYVECBYTES
    BY <1>1, <1>3, <2>3, ByteSection, SectionIs
  <2>5. \A s \in 1..1 : /\ SectionRight(tail[s])
                        /\ tail[s].at + SectionBytes(tail[s]) = SectionAfter(tail, POLYVECBYTES + Y, s)
    BY <2>3, <2>4 DEF SectionAfter
  <2>6. POLYVECBYTES + Y \in Nat
    BY <1>1, <1>3
  <2>7. Follows(tail, POLYVECBYTES + Y)
    BY <2>3, <2>4, <2>5 DEF Follows
  <2>8. Tiled(polyvec_tobytes \o tail, POLYVECBYTES + Y)
    BY <2>3, <2>6, <2>7, KeyTiled, Zenon
  <2> QED
    BY <2>1, <2>2, <2>8
<1>9. Tiled(Layout("secret key"), Size("secret key"))
  <2> DEFINE V == POLYVECBYTES
             a == V + (V + Y)
             z == a + 2 * Y
             tail == <<Section(8, V, V + Y), Section(8, a, Y), Section(8, a + Y, Y)>>
  <2>1. V \in Nat /\ Y \in Nat \ {0} /\ V + Y \in Nat \ {0} /\ a \in Nat /\ a + Y \in Nat /\ z \in Nat
    BY <1>1, <1>3
  <2>2. V + (V + Y) = a /\ a + Y + Y = z /\ z - 2 * Y = a /\ z - Y = a + Y
    BY <2>1
  <2>3. Size("secret key") = z /\ SECRETKEYBYTES = z
    BY <1>4 DEF Size
  <2>4. Layout("secret key") = polyvec_tobytes \o tail
    BY <1>3, <2>2, <2>3 DEF Layout
  <2>5. /\ Len(tail) = 3 /\ tail \in Seq({tail[1], tail[2], tail[3]})
        /\ tail[1] = Section(8, V, V + Y) /\ tail[2] = Section(8, a, Y) /\ tail[3] = Section(8, a + Y, Y)
    OBVIOUS
  <2> HIDE DEF tail, a, z, V, Y
  <2>6. SectionRight(tail[1]) /\ SectionBytes(tail[1]) = V + Y /\ tail[1].at = V
    <3>1. /\ SectionRight(Section(8, V, V + Y)) /\ SectionBytes(Section(8, V, V + Y)) = V + Y
          /\ Section(8, V, V + Y).at = V
      BY <2>1, ByteSection
    <3> QED
      BY <2>5, <3>1, Zenon
  <2>7. SectionRight(tail[2]) /\ SectionBytes(tail[2]) = Y /\ tail[2].at = a
    <3>1. /\ SectionRight(Section(8, a, Y)) /\ SectionBytes(Section(8, a, Y)) = Y
          /\ Section(8, a, Y).at = a
      BY <2>1, ByteSection
    <3> QED
      BY <2>5, <3>1, Zenon
  <2>8. SectionRight(tail[3]) /\ SectionBytes(tail[3]) = Y /\ tail[3].at = a + Y
    <3>1. /\ SectionRight(Section(8, a + Y, Y)) /\ SectionBytes(Section(8, a + Y, Y)) = Y
          /\ Section(8, a + Y, Y).at = a + Y
      BY <2>1, ByteSection
    <3> QED
      BY <2>5, <3>1, Zenon
  <2>9. ASSUME NEW s \in 1..3
        PROVE  SectionRight(tail[s]) /\ tail[s].at + SectionBytes(tail[s]) = SectionAfter(tail, z, s)
    <3>1. s = 1 \/ s = 2 \/ s = 3
      OBVIOUS
    <3> QED
      BY <2>2, <2>5, <2>6, <2>7, <2>8, <3>1 DEF SectionAfter
  <2>10. Follows(tail, z)
    BY <2>5, <2>6, <2>9 DEF Follows, V
  <2>11. Tiled(polyvec_tobytes \o tail, z)
    BY <2>1, <2>5, <2>10, KeyTiled, Zenon
  <2> QED
    BY <2>3, <2>4, <2>11
<1> QED
  BY <1>5, <1>6, <1>7, <1>8, <1>9 DEF Objects

(* An earlier section ends before a later one begins, ... *)
LEMMA SectionsInOrder ==
    ASSUME NEW L, NEW size, Tiled(L, size), NEW s \in 1..Len(L), NEW t \in 1..Len(L), s < t
    PROVE  L[s].at + SectionBytes(L[s]) <= L[t].at
<1> DEFINE N == {n \in Nat : s + 1 + n <= Len(L) => L[s].at + SectionBytes(L[s]) <= L[s + 1 + n].at}
<1>1. Len(L) \in Nat /\ s \in Nat
  BY DEF Tiled
<1>2. \A k \in 1..Len(L) : L[k].at \in Nat /\ SectionBytes(L[k]) \in Nat \ {0}
  BY SectionGroups DEF Tiled, SectionRight
<1>3. \A k \in 1..Len(L) : k + 1 <= Len(L) => L[k].at + SectionBytes(L[k]) = L[k + 1].at
  BY <1>1 DEF Tiled, SectionAfter
<1>4. 0 \in N
  BY <1>1, <1>2, <1>3
<1>5. ASSUME NEW n \in Nat, n \in N PROVE n + 1 \in N
  <2>1. SUFFICES ASSUME s + 1 + (n + 1) <= Len(L)
                 PROVE  L[s].at + SectionBytes(L[s]) <= L[s + 1 + (n + 1)].at
    OBVIOUS
  <2>2. PICK k \in 1..Len(L) : k = s + 1 + n /\ k + 1 = s + 1 + (n + 1) /\ k + 1 \in 1..Len(L)
    BY <1>1, <2>1
  <2>3. L[s].at + SectionBytes(L[s]) <= L[k].at /\ L[k].at + SectionBytes(L[k]) = L[k + 1].at
    BY <1>3, <1>5, <2>2
  <2> QED
    BY <1>2, <2>2, <2>3
<1> HIDE DEF N
<1>6. Nat \subseteq N
  BY <1>4, <1>5, SetInduction
<1>7. PICK n \in Nat : s + 1 + n = t
  <2>1. t - s - 1 \in Nat /\ s + 1 + (t - s - 1) = t
    BY <1>1
  <2> QED
    BY <2>1
<1>8. n \in N /\ s + 1 + n <= Len(L)
  BY <1>1, <1>6, <1>7
<1> QED
  BY <1>7, <1>8 DEF N

(* ... so a byte is in one section and in no other, ... *)
LEMMA OneSection ==
    ASSUME NEW L, NEW size, Tiled(L, size), NEW s \in 1..Len(L), NEW t \in 1..Len(L), NEW p \in Nat,
           InSection(L[s], p), InSection(L[t], p)
    PROVE  s = t
<1>1. Len(L) \in Nat /\ s \in Nat /\ t \in Nat
  BY DEF Tiled
<1>2. \A k \in 1..Len(L) : L[k].at \in Nat /\ SectionBytes(L[k]) \in Nat \ {0}
  BY SectionGroups DEF Tiled, SectionRight
<1>3. ~(s < t)
  BY <1>2, SectionsInOrder DEF InSection
<1>4. ~(t < s)
  BY <1>2, SectionsInOrder DEF InSection
<1> QED
  BY <1>1, <1>3, <1>4

(* ... no section goes beyond the end of the object, ... *)
LEMMA SectionEnds ==
    ASSUME NEW L, NEW size, Tiled(L, size), NEW s \in 1..Len(L)
    PROVE  L[s].at + SectionBytes(L[s]) <= size
<1>1. Len(L) \in Nat \ {0} /\ s \in Nat /\ size \in Nat
  BY DEF Tiled
<1>2. \A k \in 1..Len(L) : L[k].at \in Nat /\ SectionBytes(L[k]) \in Nat \ {0}
  BY SectionGroups DEF Tiled, SectionRight
<1>3. Len(L) \in 1..Len(L) /\ L[Len(L)].at + SectionBytes(L[Len(L)]) = size
  BY <1>1 DEF Tiled, SectionAfter
<1>4. CASE s = Len(L)
  BY <1>1, <1>3, <1>4
<1>5. CASE s < Len(L)
  <2>1. L[s].at + SectionBytes(L[s]) <= L[Len(L)].at
    BY <1>3, <1>5, SectionsInOrder
  <2> QED
    BY <1>2, <1>3, <2>1
<1> QED
  BY <1>1, <1>4, <1>5

(* ... and every byte of the object is in one. *)
LEMMA SomeSection ==
    ASSUME NEW L, NEW size, Tiled(L, size), NEW p \in 0..(size - 1)
    PROVE  \E s \in 1..Len(L) : InSection(L[s], p)
<1> DEFINE N == {n \in Nat : n < Len(L) /\ p < L[n + 1].at + SectionBytes(L[n + 1])
                               => \E s \in 1..Len(L) : InSection(L[s], p)}
<1>1. Len(L) \in Nat \ {0} /\ size \in Nat /\ p \in Nat
  BY DEF Tiled
<1>2. \A k \in 1..Len(L) : L[k].at \in Nat /\ SectionBytes(L[k]) \in Nat \ {0}
  BY SectionGroups DEF Tiled, SectionRight
<1>3. \A k \in 1..Len(L) : k + 1 <= Len(L) => L[k].at + SectionBytes(L[k]) = L[k + 1].at
  BY <1>1 DEF Tiled, SectionAfter
<1>4. \A k \in 1..Len(L) : L[k].at <= p /\ p < L[k].at + SectionBytes(L[k]) => InSection(L[k], p)
  BY <1>1, <1>2 DEF InSection
<1>5. 0 \in N
  <2>1. L[0 + 1].at = 0 /\ 0 + 1 \in 1..Len(L)
    BY <1>1 DEF Tiled
  <2> QED
    BY <1>1, <1>4, <2>1
<1>6. ASSUME NEW n \in Nat, n \in N PROVE n + 1 \in N
  <2>1. SUFFICES ASSUME n + 1 < Len(L), p < L[n + 1 + 1].at + SectionBytes(L[n + 1 + 1])
                 PROVE  \E s \in 1..Len(L) : InSection(L[s], p)
    OBVIOUS
  <2>2. PICK k \in 1..Len(L) : k = n + 1 /\ k + 1 = n + 1 + 1 /\ k + 1 \in 1..Len(L) /\ n < Len(L)
    BY <1>1, <2>1
  <2>3. CASE p < L[k].at + SectionBytes(L[k])
    BY <1>6, <2>2, <2>3
  <2>4. CASE ~(p < L[k].at + SectionBytes(L[k]))
    <3>1. L[k + 1].at <= p /\ p < L[k + 1].at + SectionBytes(L[k + 1])
      BY <1>1, <1>2, <1>3, <2>1, <2>2, <2>4
    <3> QED
      BY <1>4, <2>2, <3>1
  <2> QED
    BY <2>3, <2>4
<1> HIDE DEF N
<1>7. Nat \subseteq N
  BY <1>5, <1>6, SetInduction
<1>8. /\ Len(L) - 1 \in Nat /\ (Len(L) - 1) + 1 = Len(L) /\ Len(L) - 1 < Len(L)
      /\ Len(L) \in 1..Len(L)
  BY <1>1
<1>9. L[Len(L)].at + SectionBytes(L[Len(L)]) = size
  BY <1>8 DEF Tiled, SectionAfter
<1> QED
  BY <1>1, <1>7, <1>8, <1>9 DEF N

-----------------------------------------------------------------------------
(* A byte of a section holds eight bits, one in each place. *)
Whole(byte) == {b.place : b \in byte} = 0..7 /\ Cardinality(byte) = 8
Apart(byte, other) == {b.from : b \in byte} \cap {b.from : b \in other} = {}

LEMMA ByteWhole ==
    ASSUME NEW b, NEW s, NEW d
    PROVE  Whole(ByteOf(b, s, d))
<1> DEFINE f == [q \in 0..7 |-> BitIn(q, <<s, (8 * d + q) \div b, (8 * d + q) % b>>)]
<1>1. \A q \in 0..7 : f[q].place = q
  BY DEF BitIn
<1>2. ByteOf(b, s, d) = {f[q] : q \in 0..7} /\ f \in [0..7 -> ByteOf(b, s, d)]
  BY DEF ByteOf
<1> HIDE DEF f
<1>3. {x.place : x \in ByteOf(b, s, d)} = 0..7
  BY <1>1, <1>2
<1>4. \A q, r \in 0..7 : f[q] = f[r] => q = r
  BY <1>1
<1>5. \A x \in ByteOf(b, s, d) : \E q \in 0..7 : f[q] = x
  BY <1>2
<1>6. f \in Bijection(0..7, ByteOf(b, s, d))
  BY <1>2, <1>4, <1>5, Fun_IsBij
<1>7. ExistsBijection(0..7, ByteOf(b, s, d))
  BY <1>6 DEF ExistsBijection
<1>8. IsFiniteSet(0..7) /\ Cardinality(0..7) = 8
  <2>1. 0 \in Int /\ 7 \in Int /\ ~(0 > 7) /\ 7 - 0 + 1 = 8
    OBVIOUS
  <2>2. IsFiniteSet(0..7) /\ Cardinality(0..7) = IF 0 > 7 THEN 0 ELSE 7 - 0 + 1
    BY <2>1, FS_Interval, Zenon
  <2> QED
    BY <2>1, <2>2, Zenon
<1> QED
  BY <1>3, <1>7, <1>8, FS_Bijection DEF Whole

(* Two bytes of one section, or of two, have no bit in common. *)
LEMMA BytesApart ==
    ASSUME NEW b \in Nat, b > 0, NEW c \in Nat, c > 0, NEW s, NEW t, NEW d \in Nat, NEW e \in Nat,
           s # t \/ (b = c /\ d # e)
    PROVE  Apart(ByteOf(b, s, d), ByteOf(c, t, e))
<1> SUFFICES ASSUME NEW x \in ByteOf(b, s, d), NEW y \in ByteOf(c, t, e), x.from = y.from
             PROVE  FALSE
  BY DEF Apart
<1>1. PICK q \in 0..7, n \in Nat, k \in 0..(b - 1) : BitOfByte(x, b, s, d, q, n, k)
  BY ByteFrom, Zenon
<1>2. PICK r \in 0..7, m \in Nat, l \in 0..(c - 1) : BitOfByte(y, c, t, e, r, m, l)
  BY ByteFrom, Zenon
<1>3. n * b + k = 8 * d + q /\ x = BitIn(q, <<s, n, k>>)
  BY <1>1, Zenon DEF BitOfByte, IsBit
<1>4. m * c + l = 8 * e + r /\ y = BitIn(r, <<t, m, l>>)
  BY <1>2, Zenon DEF BitOfByte, IsBit
<1>5. x.from = <<s, n, k>> /\ y.from = <<t, m, l>>
  BY <1>3, <1>4 DEF BitIn
<1>6. s = t /\ n = m /\ k = l
  <2>1. <<s, n, k>> = <<t, m, l>>
    BY <1>5, Zenon
  <2> QED
    BY <2>1, Zenon
<1>7. b = c /\ d # e
  BY <1>6
<1>8. 8 * d + q = 8 * e + r
  BY <1>3, <1>4, <1>6, <1>7, Zenon
<1> QED
  BY <1>7, <1>8

(* A group of its section ends in it, and is the last one or has another after it. *)
Inside(k, W, T, g) ==
    /\ g * T \in Nat /\ (g + 1) * T = g * T + T /\ (g + 1) * W = g * W + W
    /\ (g + 1) * T <= k * T /\ (g + 1) * W <= k * W
    /\ (g + 1) * W < k * W \/ ((g + 1) * W = k * W /\ (g + 1) * T = k * T)

LEMMA GroupInside ==
    ASSUME NEW k \in Nat, NEW W \in Nat \ {0}, NEW T \in Nat \ {0}, NEW g \in Nat, g * W < k * W
    PROVE  Inside(k, W, T, g)
<1>1. g < k
  BY SMT
<1>2. g * T \in Nat /\ (g + 1) * T = g * T + T /\ (g + 1) * W = g * W + W
  BY SMT
<1>3. CASE g + 1 = k
  BY <1>2, <1>3 DEF Inside
<1>4. CASE g + 1 < k
  <2>1. PICK e \in Nat : k = g + 1 + e /\ e > 0
    <3>1. k - (g + 1) \in Nat /\ k = g + 1 + (k - (g + 1)) /\ k - (g + 1) > 0
      BY <1>4
    <3> QED
      BY <3>1
  <2>2. k * W = (g + 1) * W + e * W /\ k * T = (g + 1) * T + e * T
    BY <2>1
  <2>3. e * W \in Nat /\ e * W > 0 /\ e * T \in Nat
    BY <2>1
  <2>4. (g + 1) * W \in Nat /\ (g + 1) * T \in Nat
    BY ProductNat
  <2> QED
    BY <1>2, <2>2, <2>3, <2>4 DEF Inside
<1> QED
  BY <1>1, <1>3, <1>4 DEF Inside

LEMMA GroupArith ==
    ASSUME NEW at \in Nat, NEW e \in Nat, NEW n \in Nat, NEW m \in Nat, NEW f, f = e + m, f <= n
    PROVE  at + e + m <= at + n /\ (f = n => n = e + m)
OBVIOUS

(* Where the T bytes of a group are that begin at byte e of a section of n bytes from at on. *)
Placed(at, e, n, z, T) ==
    /\ at + e \in Nat /\ at + e + T \in Nat
    /\ \A p \in (at + e)..(at + e + T - 1) :
          /\ p \in 0..(z - 1) /\ p < z /\ p \in at..(at + n - 1)
          /\ p - (at + e) \in 0..(T - 1) /\ e + (p - (at + e)) = p - at
    /\ \A p \in 0..(z - 1) :
          p \in Nat /\ (p < at + e + T /\ p \notin (at + e)..(at + e + T - 1) => p < at + e)
    /\ \A j \in 0..(T - 1) :
          at + e + j \in (at + e)..(at + e + T - 1) /\ (at + e + j) - at = e + j

LEMMA Place ==
    ASSUME NEW at \in Nat, NEW e \in Nat, NEW n \in Nat, NEW z \in Nat, NEW T \in Nat, T > 0,
           at + e + T <= at + n, at + n <= z
    PROVE  Placed(at, e, n, z, T)
BY DEF Placed

(* A layout is tiled by sections of known formats. *)
LEMMA Sections ==
    ASSUME NEW o \in Objects, NEW s \in 1..Len(Layout(o))
    PROVE  /\ Layout(o)[s].bits \in Formats /\ Layout(o)[s].bits \in Nat /\ Layout(o)[s].bits > 0
           /\ Layout(o)[s].at \in Nat /\ SectionRight(Layout(o)[s]) /\ Tiled(Layout(o), Size(o))
           /\ Size(o) \in Nat /\ Len(Layout(o)) \in Nat \ {0}
<1>1. Tiled(Layout(o), Size(o))
  BY LayoutTiled
<1>2. /\ SectionRight(Layout(o)[s]) /\ Size(o) \in Nat /\ Len(Layout(o)) \in Nat \ {0}
  BY <1>1 DEF Tiled
<1>3. Layout(o)[s].bits \in Formats /\ Layout(o)[s].at \in Nat
  BY <1>2 DEF SectionRight
<1>4. \A b \in Formats : b \in Nat /\ b > 0
  BY DEF Formats
<1> QED
  BY <1>1, <1>2, <1>3, <1>4, Zenon

(* An object all packed is filled exactly. *)
LEMMA Filled ==
    ASSUME NEW o \in Objects, NEW bs, DOMAIN bs = 0..(Size(o) - 1), PackedBelow(o, bs, Size(o))
    PROVE  /\ \A p \in DOMAIN bs : Whole(bs[p])
           /\ \A p, q \in DOMAIN bs : p # q => Apart(bs[p], bs[q])
<1> DEFINE L == Layout(o)
           Is(p, s) == /\ s \in 1..Len(L) /\ InSection(L[s], p) /\ p - L[s].at \in Nat
                       /\ bs[p] = ByteOf(L[s].bits, s, p - L[s].at)
<1>1. Tiled(L, Size(o)) /\ Size(o) \in Nat
  BY LayoutTiled DEF Tiled
<1>2. ASSUME NEW p \in DOMAIN bs PROVE \E s : Is(p, s)
  <2>1. p \in 0..(Size(o) - 1) /\ p \in Nat /\ p < Size(o)
    BY <1>1
  <2>2. PICK s \in 1..Len(L) : InSection(L[s], p)
    BY <1>1, <2>1, SomeSection
  <2>3. bs[p] = PackedByte(L[s], s, p)
    BY <2>1, <2>2 DEF PackedBelow
  <2>4. L[s].at \in Nat
    BY Sections
  <2>5. p - L[s].at \in Nat
    BY <2>1, <2>2, <2>4 DEF InSection
  <2> QED
    BY <2>2, <2>3, <2>5 DEF PackedByte
<1>3. ASSUME NEW p \in DOMAIN bs
      PROVE  Whole(bs[p])
  <2>1. PICK s : Is(p, s)
    BY <1>2
  <2> QED
    BY <2>1, ByteWhole, Zenon
<1>4. ASSUME NEW p \in DOMAIN bs, NEW q \in DOMAIN bs, p # q
      PROVE  Apart(bs[p], bs[q])
  <2>1. PICK s : Is(p, s)
    BY <1>2
  <2>2. PICK t : Is(q, t)
    BY <1>2
  <2>3. PICK b \in Nat, c \in Nat : b = L[s].bits /\ b > 0 /\ c = L[t].bits /\ c > 0
    BY <2>1, <2>2, Sections
  <2>4. PICK d \in Nat, e \in Nat : d = p - L[s].at /\ e = q - L[t].at
    BY <2>1, <2>2
  <2>5. s # t \/ (b = c /\ d # e)
    <3>1. p \in Nat /\ q \in Nat
      BY <1>1
    <3>2. L[s].at \in Nat
      BY <2>1, Sections
    <3> QED
      BY <1>4, <2>3, <2>4, <3>1, <3>2
  <2>6. bs[p] = ByteOf(b, s, d) /\ bs[q] = ByteOf(c, t, e)
    BY <2>1, <2>2, <2>3, <2>4
  <2>7. Apart(ByteOf(b, s, d), ByteOf(c, t, e))
    BY <2>3, <2>4, <2>5, BytesApart
  <2> QED
    BY <2>6, <2>7, Zenon
<1> QED
  BY <1>3, <1>4

(* A group to pack: where its bytes are, and what comes after it. *)
ToPack(sd, g, T, W) ==
    /\ T \in Nat \ {0} /\ W \in Nat \ {0} /\ g \in Nat /\ g * T \in Nat /\ g * W \in Nat
    /\ (g + 1) * T = g * T + T /\ sd.at + g * T + T <= sd.at + SectionBytes(sd)
    /\ (g + 1) * W < sd.words \/ SectionBytes(sd) = g * T + T

LEMMA PackingGroup ==
    ASSUME NEW o \in Objects, NEW sec, NEW g,
           Within(o, sec, g, PackedWords(Layout(o)[sec].bits))
    PROVE  ToPack(Layout(o)[sec], g, Len(Pack(Layout(o)[sec].bits)),
                  PackedWords(Layout(o)[sec].bits))
<1> DEFINE sd == Layout(o)[sec]
           T == Len(Pack(sd.bits))
           W == PackedWords(sd.bits)
<1>1. sec \in 1..Len(Layout(o)) /\ g \in Nat /\ g * W < sd.words
  BY DEF Within
<1> HIDE DEF T, W
<1>2. sd.bits \in Formats /\ sd.at \in Nat /\ SectionRight(sd)
  BY <1>1, Sections
<1>3. T \in Nat \ {0} /\ W \in Nat \ {0}
  BY <1>2, PackLengths, PackArith DEF T, W
<1>4. PICK k \in Nat \ {0} : sd.words = k * W /\ SectionBytes(sd) = k * T
  BY <1>2, SectionGroups DEF T, W
<1>5. /\ g * T \in Nat /\ (g + 1) * T = g * T + T
      /\ (g + 1) * T <= k * T
      /\ (g + 1) * W < k * W \/ ((g + 1) * W = k * W /\ (g + 1) * T = k * T)
  <2>1. g * W < k * W
    BY <1>1, <1>4, Zenon
  <2>2. k \in Nat
    OBVIOUS
  <2>3. Inside(k, W, T, g)
    BY <1>1, <1>3, <2>1, <2>2, GroupInside
  <2> QED
    BY <2>3, Zenon DEF Inside
<1>6. g * W \in Nat
  BY <1>1, <1>3, ProductNat
<1>7. k * T \in Nat /\ T \in Nat
  BY <1>3, ProductNat
<1>8. sd.at + g * T + T <= sd.at + k * T /\ ((g + 1) * T = k * T => k * T = g * T + T)
  BY <1>2, <1>5, <1>7, GroupArith, Zenon
<1>9. ToPack(sd, g, T, W)
  BY <1>1, <1>3, <1>4, <1>5, <1>6, <1>8, Zenon DEF ToPack
<1> QED
  BY <1>9 DEF T, W

(* And a group to unpack. *)
ToUnpack(sd, g, U, B) ==
    /\ U \in Nat \ {0} /\ B \in Nat \ {0} /\ g \in Nat /\ g * U \in Nat /\ g * B \in Nat
    /\ (g + 1) * U = g * U + U /\ sd.at + g * B + B <= sd.at + SectionBytes(sd)
    /\ (g + 1) * U < sd.words \/ sd.words = g * U + U

LEMMA UnpackingGroup ==
    ASSUME NEW o \in Objects, NEW sec, NEW g,
           Within(o, sec, g, Len(Unpack(Layout(o)[sec].bits)))
    PROVE  ToUnpack(Layout(o)[sec], g, Len(Unpack(Layout(o)[sec].bits)),
                    UnpackedBytes(Layout(o)[sec].bits))
<1> DEFINE sd == Layout(o)[sec]
           U == Len(Unpack(sd.bits))
           B == UnpackedBytes(sd.bits)
<1>1. sec \in 1..Len(Layout(o)) /\ g \in Nat /\ g * U < sd.words
  BY DEF Within
<1> HIDE DEF U, B
<1>2. sd.bits \in Formats /\ sd.at \in Nat /\ SectionRight(sd)
  BY <1>1, Sections
<1>3. U \in Nat \ {0} /\ B \in Nat \ {0}
  BY <1>2, UnpackLengths, UnpackArith DEF U, B
<1>4. PICK k \in Nat \ {0} : sd.words = k * U /\ SectionBytes(sd) = k * B
  BY <1>2, SectionGroups DEF U, B
<1>5. /\ g * B \in Nat /\ (g + 1) * B = g * B + B /\ (g + 1) * U = g * U + U
      /\ (g + 1) * B <= k * B
      /\ (g + 1) * U < k * U \/ (g + 1) * U = k * U
  <2>1. g * U < k * U
    BY <1>1, <1>4, Zenon
  <2>2. k \in Nat
    OBVIOUS
  <2>3. Inside(k, U, B, g)
    BY <1>1, <1>3, <2>1, <2>2, GroupInside
  <2> QED
    BY <2>3, Zenon DEF Inside
<1>6. g * U \in Nat
  BY <1>1, <1>3, ProductNat
<1>7. k * B \in Nat /\ B \in Nat
  BY <1>3, ProductNat
<1>8. sd.at + g * B + B <= sd.at + k * B
  BY <1>2, <1>5, <1>7, GroupArith, Zenon
<1>9. ToUnpack(sd, g, U, B)
  BY <1>1, <1>3, <1>4, <1>5, <1>6, <1>8, Zenon DEF ToUnpack
<1> QED
  BY <1>9 DEF U, B

-----------------------------------------------------------------------------
(* What packing group g of section sec does to the bytes, ... *)
Packs(o, sec, g, bs, more, made) ==
    LET sd == Layout(o)[sec]
        r  == sd.at + g * Len(Pack(sd.bits))
    IN  more = Overwrite(bs, [p \in r..(r + Len(Pack(sd.bits)) - 1) |->
                                Combine(Pack(sd.bits)[p - r + 1], made, 8)])

LEMMA PackedMore ==
    ASSUME NEW o \in Objects, NEW sec, NEW g,
           Within(o, sec, g, PackedWords(Layout(o)[sec].bits)),
           NEW bs, DOMAIN bs = 0..(Size(o) - 1),
           PackedBelow(o, bs, Layout(o)[sec].at + g * Len(Pack(Layout(o)[sec].bits))),
           NEW made, WordsFrom(made, Layout(o)[sec].bits, PackedWords(Layout(o)[sec].bits), sec,
                               g * PackedWords(Layout(o)[sec].bits)),
           NEW more, Packs(o, sec, g, bs, more, made)
    PROVE  /\ DOMAIN more = 0..(Size(o) - 1)
           /\ PackedBelow(o, more, Layout(o)[sec].at + g * Len(Pack(Layout(o)[sec].bits))
                                       + Len(Pack(Layout(o)[sec].bits)))
<1> DEFINE L == Layout(o)
           sd == L[sec]
           T == Len(Pack(sd.bits))
           W == PackedWords(sd.bits)
<1>1. /\ T \in Nat \ {0} /\ W \in Nat \ {0} /\ g \in Nat /\ g * T \in Nat
      /\ sd.at + g * T + T <= sd.at + SectionBytes(sd)
  BY PackingGroup, Zenon DEF ToPack
<1>2. sec \in 1..Len(L)
  BY DEF Within
<1>3. Tiled(L, Size(o)) /\ Size(o) \in Nat /\ sd.at \in Nat /\ sd.bits \in Formats
  BY <1>2, Sections
<1>4. sd.at + SectionBytes(sd) <= Size(o) /\ SectionBytes(sd) \in Nat
  BY <1>2, <1>3, SectionEnds, Sections, SectionGroups
<1>5. PICK at \in Nat, e \in Nat, n \in Nat, z \in Nat, b \in Formats :
          at = sd.at /\ e = g * T /\ n = SectionBytes(sd) /\ z = Size(o) /\ b = sd.bits
  BY <1>1, <1>3, <1>4, Zenon
<1> DEFINE r == at + e
<1>6. more = Overwrite(bs, [p \in r..(r + T - 1) |-> Combine(Pack(b)[p - r + 1], made, 8)])
  BY <1>5, Zenon DEF Packs
<1>7. PackedBelow(o, bs, r) /\ (PackedBelow(o, more, r + T) => PackedBelow(o, more, sd.at + g * T + T))
  BY <1>5, Zenon
<1>8. /\ Tiled(L, z) /\ z = Size(o) /\ b = sd.bits /\ at = sd.at /\ n = SectionBytes(sd)
      /\ at + e + T <= at + n /\ at + n <= z /\ T \in Nat \ {0} /\ DOMAIN bs = 0..(z - 1)
  BY <1>1, <1>3, <1>4, <1>5, Zenon
<1>9. ASSUME NEW i \in 0..(T - 1)
      PROVE  Combine(Pack(b)[i + 1], made, 8) = ByteOf(b, sec, e + i)
  <2>1. Combine(Pack(sd.bits)[i + 1], made, 8) = ByteOf(sd.bits, sec, g * T + i)
    BY <1>1, <1>3, PackedGroup
  <2> QED
    BY <1>5, <2>1, Zenon
<1> HIDE DEF L, sd, T, W
<1>10. Placed(at, e, n, z, T)
  <2>1. T \in Nat /\ T > 0
    BY <1>8
  <2> QED
    BY <1>8, <2>1, Place, Zenon
<1> DEFINE places == r..(r + T - 1)
<1>11. /\ \A p \in places : /\ p \in 0..(z - 1) /\ p \in at..(at + n - 1)
                            /\ p - r \in 0..(T - 1) /\ e + (p - r) = p - at
       /\ \A p \in 0..(z - 1) : p \in Nat /\ (p < r + T /\ p \notin places => p < r)
  BY <1>10, Zenon DEF Placed
<1> HIDE DEF r, places
<1>12. DOMAIN more = 0..(z - 1)
  <2>1. DOMAIN more = DOMAIN bs \cup places
    BY <1>6, Zenon DEF Overwrite, places
  <2> QED
    BY <1>8, <1>11, <2>1
<1>13. \A p \in places : InSection(sd, p) /\ more[p] = PackedByte(sd, sec, p)
  <2> SUFFICES ASSUME NEW p \in places PROVE InSection(sd, p) /\ more[p] = PackedByte(sd, sec, p)
    OBVIOUS
  <2>1. p \in at..(at + n - 1) /\ p - r \in 0..(T - 1) /\ e + (p - r) = p - at
    BY <1>11
  <2>2. more[p] = Combine(Pack(b)[p - r + 1], made, 8)
    BY <1>6, Zenon DEF Overwrite, places
  <2>3. more[p] = ByteOf(b, sec, p - at)
    BY <1>9, <2>1, <2>2, Zenon
  <2> QED
    BY <1>8, <2>1, <2>3, Zenon DEF PackedByte, InSection
<1>14. ASSUME NEW s \in 1..Len(L), NEW p \in 0..(z - 1), InSection(L[s], p), p < r + T
       PROVE  more[p] = PackedByte(L[s], s, p)
  <2>1. p \in Nat
    BY <1>11
  <2>2. CASE p \in places
    <3>1. InSection(sd, p) /\ more[p] = PackedByte(sd, sec, p)
      BY <1>13, <2>2
    <3>2. s = sec
      BY <1>2, <1>8, <1>14, <2>1, <3>1, OneSection DEF sd
    <3> QED
      BY <3>1, <3>2 DEF sd
  <2>3. CASE p \notin places
    <3>1. p < r
      BY <1>11, <1>14, <2>3, Zenon
    <3>2. more[p] = bs[p]
      <4>1. p \in DOMAIN bs
        BY <1>8
      <4> QED
        BY <1>6, <2>3, <4>1, Zenon DEF Overwrite, places
    <3> QED
      BY <1>7, <1>8, <1>14, <3>1, <3>2, Zenon DEF PackedBelow, L
  <2> QED
    BY <2>2, <2>3
<1>15. PackedBelow(o, more, r + T)
  BY <1>8, <1>14, Zenon DEF PackedBelow, L
<1> QED
  BY <1>7, <1>8, <1>12, <1>15, Zenon DEF L, sd, T

(* ... and unpacking it to the words. *)
Reads(o, sec, g, bs, ws, more) ==
    LET sd   == Layout(o)[sec]
        U    == Len(Unpack(sd.bits))
        read == [j \in 0..(UnpackedBytes(sd.bits) - 1) |->
                    bs[sd.at + g * UnpackedBytes(sd.bits) + j]]
    IN  more = Overwrite(ws, [w \in {<<sec, g * U + j - 1>> : j \in 1..U} |->
                                 Combine(Unpack(sd.bits)[w[2] - g * U + 1], read, sd.bits)])

LEMMA ReadMore ==
    ASSUME NEW o \in Objects, NEW sec, NEW g,
           Within(o, sec, g, Len(Unpack(Layout(o)[sec].bits))),
           NEW bs, PackedBelow(o, bs, Size(o)),
           NEW ws, ReadRight(o, ws),
           ReadBelow(o, ws, sec, g * Len(Unpack(Layout(o)[sec].bits))),
           NEW more, Reads(o, sec, g, bs, ws, more)
    PROVE  /\ ReadRight(o, more)
           /\ ReadBelow(o, more, sec, g * Len(Unpack(Layout(o)[sec].bits))
                                          + Len(Unpack(Layout(o)[sec].bits)))
<1> DEFINE L == Layout(o)
           sd == L[sec]
           U == Len(Unpack(sd.bits))
           B == UnpackedBytes(sd.bits)
<1>1. /\ U \in Nat \ {0} /\ B \in Nat \ {0} /\ g \in Nat /\ g * U \in Nat /\ g * B \in Nat
      /\ sd.at + g * B + B <= sd.at + SectionBytes(sd)
  BY UnpackingGroup, Zenon DEF ToUnpack
<1>2. sec \in 1..Len(L)
  BY DEF Within
<1>3. Tiled(L, Size(o)) /\ Size(o) \in Nat /\ sd.at \in Nat /\ sd.bits \in Formats
  BY <1>2, Sections
<1>4. sd.at + SectionBytes(sd) <= Size(o) /\ SectionBytes(sd) \in Nat
  BY <1>2, <1>3, SectionEnds, Sections, SectionGroups
<1>5. PICK at \in Nat, e \in Nat, n \in Nat, z \in Nat, b \in Formats, u \in Nat :
          /\ at = sd.at /\ e = g * B /\ n = SectionBytes(sd) /\ z = Size(o) /\ b = sd.bits
          /\ u = g * U
  BY <1>1, <1>3, <1>4, Zenon
<1> DEFINE read == [j \in 0..(B - 1) |-> bs[at + e + j]]
           New == {<<sec, u + j - 1>> : j \in 1..U}
<1>6. more = Overwrite(ws, [w \in New |-> Combine(Unpack(b)[w[2] - u + 1], read, b)])
  BY <1>5, Zenon DEF Reads
<1>7. ReadBelow(o, ws, sec, u) /\ (ReadBelow(o, more, sec, u + U) => ReadBelow(o, more, sec, g * U + U))
  BY <1>5, Zenon
<1>8. /\ z = Size(o) /\ b = sd.bits /\ at = sd.at /\ n = SectionBytes(sd)
      /\ at + e + B <= at + n /\ at + n <= z /\ U \in Nat \ {0} /\ B \in Nat \ {0}
  BY <1>1, <1>3, <1>4, <1>5, Zenon
<1>9. ASSUME NEW j \in 0..(U - 1), BytesFrom(read, b, B, sec, e)
      PROVE  Combine(Unpack(b)[j + 1], read, b) = Word(sec, u + j, b)
  <2> HIDE DEF read
  <2>1. BytesFrom(read, sd.bits, B, sec, g * B)
    BY <1>5, <1>9, Zenon
  <2>2. Combine(Unpack(sd.bits)[j + 1], read, sd.bits) = Word(sec, g * U + j, sd.bits)
    BY <1>1, <1>3, <2>1, UnpackedGroup
  <2> QED
    BY <1>5, <2>2, Zenon
<1> HIDE DEF L, sd, U, B
<1>10. BytesFrom(read, b, B, sec, e)
  <2> SUFFICES ASSUME NEW j \in 0..(B - 1) PROVE read[j] = ByteOf(b, sec, e + j)
    BY DEF BytesFrom
  <2> DEFINE p == at + e + j
  <2>1. p \in 0..(z - 1) /\ p \in at..(at + n - 1) /\ p < z /\ p - at = e + j
    <3>1. B \in Nat /\ B > 0
      BY <1>8
    <3>2. Placed(at, e, n, z, B)
      BY <1>8, <3>1, Place, Zenon
    <3> QED
      BY <3>2, Zenon DEF Placed
  <2>2. read[j] = bs[p]
    OBVIOUS
  <2> HIDE DEF p
  <2>3. InSection(sd, p)
    BY <1>8, <2>1, Zenon DEF InSection
  <2>4. bs[p] = PackedByte(sd, sec, p)
    BY <1>2, <1>8, <2>1, <2>3, Zenon DEF PackedBelow, sd, L
  <2> QED
    BY <1>8, <2>1, <2>2, <2>4, Zenon DEF PackedByte
<1> HIDE DEF read
<1>11. DOMAIN more = DOMAIN ws \cup New
  BY <1>6 DEF Overwrite
<1>12. \A w \in New : more[w] = Combine(Unpack(b)[w[2] - u + 1], read, b)
  BY <1>6 DEF Overwrite
<1>13. \A w \in DOMAIN ws \ New : more[w] = ws[w]
  BY <1>6 DEF Overwrite
<1>14. ASSUME NEW w \in New PROVE more[w] = Word(w[1], w[2], L[w[1]].bits)
  <2>1. PICK i \in 1..U : w = <<sec, u + i - 1>>
    OBVIOUS
  <2>2. w[1] = sec /\ w[2] = u + i - 1
    BY <2>1
  <2>3. PICK j \in 0..(U - 1) : j = i - 1
    BY <1>8
  <2>4. w[2] = u + j /\ w[2] - u + 1 = j + 1
    BY <1>8, <2>2, <2>3
  <2>5. Combine(Unpack(b)[j + 1], read, b) = Word(sec, u + j, b)
    BY <1>9, <1>10, Zenon
  <2> QED
    BY <1>8, <1>12, <2>2, <2>4, <2>5, Zenon DEF sd
<1> HIDE DEF New
<1>15. ReadRight(o, more)
  BY <1>11, <1>13, <1>14, Zenon DEF ReadRight, L
<1>16. ASSUME NEW s \in 1..Len(L), NEW k \in Nat, k < L[s].words,
              s < sec \/ (s = sec /\ k < u + U)
       PROVE  <<s, k>> \in DOMAIN more
  <2>1. CASE s = sec /\ k >= u
    <3>1. k < u + U
      BY <1>2, <1>16, <2>1
    <3>2. k - u + 1 \in 1..U /\ k = u + (k - u + 1) - 1
      BY <1>8, <2>1, <3>1
    <3>3. PICK j \in 1..U : k = u + j - 1
      BY <3>2
    <3> QED
      BY <1>11, <2>1, <3>3, Zenon DEF New
  <2>2. CASE ~(s = sec /\ k >= u)
    <3>1. s < sec \/ (s = sec /\ k < u)
      BY <1>16, <2>2
    <3>2. <<s, k>> \in DOMAIN ws
      BY <1>7, <1>16, <3>1, Zenon DEF ReadBelow, L
    <3> QED
      BY <1>11, <3>2
  <2> QED
    BY <2>1, <2>2
<1>17. ReadBelow(o, more, sec, u + U)
  BY <1>16, Zenon DEF ReadBelow, L
<1> QED
  BY <1>7, <1>15, <1>17, Zenon DEF L, sd, U

(* A section begins with its first group. *)
LEMMA FirstGroup ==
    ASSUME NEW o \in Objects, NEW s \in 1..Len(Layout(o))
    PROVE  /\ Within(o, s, 0, PackedWords(Layout(o)[s].bits))
           /\ Within(o, s, 0, Len(Unpack(Layout(o)[s].bits)))
           /\ Layout(o)[s].at + 0 * Len(Pack(Layout(o)[s].bits)) = Layout(o)[s].at
           /\ 0 * Len(Unpack(Layout(o)[s].bits)) = 0
<1> DEFINE sd == Layout(o)[s]
           T == Len(Pack(sd.bits))
           W == PackedWords(sd.bits)
           U == Len(Unpack(sd.bits))
<1>1. sd.bits \in Formats /\ sd.at \in Nat /\ SectionRight(sd)
  BY Sections
<1>2. T \in Nat \ {0} /\ W \in Nat \ {0} /\ U \in Nat \ {0}
  BY <1>1, PackLengths, PackArith, UnpackLengths, UnpackArith
<1>3. sd.words \in Nat \ {0}
  BY <1>1 DEF SectionRight
<1> HIDE DEF T, W, U
<1>4. 0 * T = 0 /\ 0 * W = 0 /\ 0 * U = 0 /\ sd.at + 0 = sd.at /\ 0 < sd.words
  BY <1>1, <1>2, <1>3
<1>5. 0 * W < sd.words /\ 0 * U < sd.words /\ sd.at + 0 * T = sd.at /\ 0 * U = 0 /\ 0 \in Nat
  BY <1>4, Zenon
<1> QED
  BY <1>5, Zenon DEF Within, T, W, U

(* Nothing is packed or read at the beginning, and all is in the end. *)
LEMMA Beginning ==
    ASSUME NEW o \in Objects, NEW bs, NEW ws
    PROVE  PackedBelow(o, bs, 0) /\ ReadBelow(o, ws, 1, 0) /\ 1 \in 1..Len(Layout(o)) /\ Layout(o)[1].at = 0
<1>1. Tiled(Layout(o), Size(o))
  BY LayoutTiled
<1> QED
  BY <1>1 DEF Tiled, PackedBelow, ReadBelow

LEMMA NextSection ==
    ASSUME NEW o \in Objects, NEW s \in 1..Len(Layout(o))
    PROVE  /\ s < Len(Layout(o)) => /\ s + 1 \in 1..Len(Layout(o))
                                    /\ Layout(o)[s].at + SectionBytes(Layout(o)[s]) = Layout(o)[s + 1].at
           /\ ~(s < Len(Layout(o))) => /\ s = Len(Layout(o))
                                       /\ Layout(o)[s].at + SectionBytes(Layout(o)[s]) = Size(o)
<1>1. Tiled(Layout(o), Size(o))
  BY LayoutTiled
<1> QED
  BY <1>1 DEF Tiled, SectionAfter

LEMMA PackInvInit == PackInit => PackInv
<1> SUFFICES ASSUME PackInit PROVE PackInv
  OBVIOUS
<1>1. DOMAIN words = {}
  BY DEF PackInit
<1> QED
  BY <1>1 DEF PackInit, PackInv, ReadRight, EveryWordRead

LEMMA PackInvStart == PackInv /\ PackStart => PackInv'
<1> SUFFICES ASSUME PackInv, PackStart PROVE PackInv'
  OBVIOUS
<1>1. PICK o \in Objects :
          /\ pack_pc = "idle" /\ object' = o /\ bytes' = [p \in 0..(Size(o) - 1) |-> {}]
          /\ pack_pc' = "packing" /\ section' = section /\ group' = group /\ words' = words
  BY DEF PackStart
<1>2. section' = 1 /\ group' = 0 /\ DOMAIN words' = {} /\ DOMAIN bytes' = 0..(Size(o) - 1)
  BY <1>1 DEF PackInv
<1>3. PackingInv'
  <2>1. PackedBelow(o, bytes', 0) /\ 1 \in 1..Len(Layout(o)) /\ Layout(o)[1].at = 0
    BY Beginning, Zenon
  <2>2. /\ Within(o, 1, 0, PackedWords(Layout(o)[1].bits))
        /\ Layout(o)[1].at + 0 * Len(Pack(Layout(o)[1].bits)) = 0
    BY <2>1, FirstGroup, Zenon
  <2>3. Here' = Layout(o)[1]
    BY <1>1, <1>2 DEF Here
  <2> QED
    BY <1>1, <1>2, <2>1, <2>2, <2>3, Zenon DEF PackingInv
<1> QED
  BY <1>1, <1>2, <1>3 DEF PackInv, ReadRight, EveryWordRead

LEMMA PackInvPack == PackInv /\ PackGroup => PackInv'
<1> SUFFICES ASSUME PackInv, PackGroup PROVE PackInv'
  OBVIOUS
<1> DEFINE o == object
           L == Layout(o)
           sd == L[section]
           T == Len(Pack(sd.bits))
           W == PackedWords(sd.bits)
           made == [j \in 0..(W - 1) |-> Word(section, group * W + j, sd.bits)]
<1>1. /\ pack_pc = "packing" /\ o \in Objects /\ DOMAIN bytes = 0..(Size(o) - 1) /\ DOMAIN words = {}
      /\ PackingInv
  BY DEF PackInv, PackGroup
<1>2. Here = sd
  BY DEF Here
<1>3. Within(o, section, group, W) /\ PackedBelow(o, bytes, sd.at + group * T)
  BY <1>1, <1>2, Zenon DEF PackingInv
<1>4. section \in 1..Len(L) /\ group \in Nat
  BY <1>3, Zenon DEF Within
<1>5. Packs(o, section, group, bytes, bytes', made)
  BY DEF PackGroup, Packs, Here
<1>6. /\ Advance(W, "unpacking") /\ object' = object /\ words' = words
  BY DEF PackGroup, Here
<1>7. WordsFrom(made, sd.bits, W, section, group * W)
  BY DEF WordsFrom
<1> HIDE DEF made
<1>8. DOMAIN bytes' = 0..(Size(o) - 1) /\ PackedBelow(o, bytes', sd.at + group * T + T)
  BY <1>1, <1>3, <1>5, <1>7, PackedMore, Zenon
<1>9. ToPack(sd, group, T, W)
  BY <1>1, <1>3, PackingGroup, Zenon
<1>10. sd.at \in Nat
  BY <1>1, <1>4, Sections, Zenon
<1>11. /\ sd.at + (group + 1) * T = sd.at + group * T + T /\ group + 1 \in Nat
       /\ SectionBytes(sd) = group * T + T => sd.at + SectionBytes(sd) = sd.at + group * T + T
  <2>1. PICK e \in Nat, n \in Nat, a \in Nat : e = group * T /\ n = T /\ a = sd.at
    BY <1>9, <1>10 DEF ToPack
  <2>2. a + (e + n) = a + e + n
    BY <2>1
  <2>3. (group + 1) * T = e + n /\ a + e + n = sd.at + group * T + T
    BY <1>9, <2>1, Zenon DEF ToPack
  <2>4. group + 1 \in Nat
    BY <1>4
  <2> QED
    BY <2>1, <2>2, <2>3, <2>4, Zenon
<1>12. CASE (group + 1) * W < Here.words
  <2>1. group' = group + 1 /\ section' = section /\ pack_pc' = pack_pc
    BY <1>6, <1>12 DEF Advance
  <2>2. Here' = sd
    BY <1>6, <2>1 DEF Here
  <2>3. Within(o, section, group + 1, W)
    BY <1>2, <1>4, <1>11, <1>12, Zenon DEF Within
  <2>4. PackedBelow(o, bytes', sd.at + (group + 1) * T)
    BY <1>8, <1>11, Zenon
  <2>5. PackingInv'
    BY <1>6, <2>1, <2>2, <2>3, <2>4, Zenon DEF PackingInv
  <2> QED
    BY <1>1, <1>6, <1>8, <2>1, <2>5 DEF PackInv, ReadRight, EveryWordRead
<1>13. CASE ~((group + 1) * W < Here.words) /\ section < Len(Layout(object))
  <2>1. group' = 0 /\ section' = section + 1 /\ pack_pc' = pack_pc
    BY <1>6, <1>13 DEF Advance
  <2>2. SectionBytes(sd) = group * T + T
    BY <1>2, <1>9, <1>13, Zenon DEF ToPack
  <2>3. section + 1 \in 1..Len(L) /\ sd.at + SectionBytes(sd) = L[section + 1].at
    BY <1>1, <1>4, <1>13, NextSection, Zenon
  <2>4. Here' = L[section + 1]
    BY <1>6, <2>1 DEF Here
  <2>5. PackedBelow(o, bytes', L[section + 1].at)
    BY <1>8, <1>11, <2>2, <2>3, Zenon
  <2>6. /\ Within(o, section + 1, 0, PackedWords(L[section + 1].bits))
        /\ L[section + 1].at + 0 * Len(Pack(L[section + 1].bits)) = L[section + 1].at
    BY <1>1, <2>3, FirstGroup, Zenon
  <2>7. PackingInv'
    BY <1>6, <2>1, <2>4, <2>5, <2>6, Zenon DEF PackingInv
  <2> QED
    BY <1>1, <1>6, <1>8, <2>1, <2>7 DEF PackInv, ReadRight, EveryWordRead
<1>14. CASE ~((group + 1) * W < Here.words) /\ ~(section < Len(Layout(object)))
  <2>1. group' = 0 /\ section' = 1 /\ pack_pc' = "unpacking"
    BY <1>6, <1>14 DEF Advance
  <2>2. SectionBytes(sd) = group * T + T
    BY <1>2, <1>9, <1>14, Zenon DEF ToPack
  <2>3. sd.at + SectionBytes(sd) = Size(o)
    BY <1>1, <1>4, <1>14, NextSection, Zenon
  <2>4. PackedBelow(o, bytes', Size(o))
    BY <1>8, <1>11, <2>2, <2>3, Zenon
  <2>5. Here' = L[1]
    BY <1>6, <2>1 DEF Here
  <2>6. ReadBelow(o, words', 1, 0) /\ 1 \in 1..Len(L)
    BY <1>1, Beginning, Zenon
  <2>7. Within(o, 1, 0, Len(Unpack(L[1].bits))) /\ 0 * Len(Unpack(L[1].bits)) = 0
    BY <1>1, <2>6, FirstGroup, Zenon
  <2>8. UnpackingInv'
    BY <1>6, <2>1, <2>5, <2>6, <2>7, Zenon DEF UnpackingInv
  <2> QED
    BY <1>1, <1>6, <1>8, <2>1, <2>4, <2>8 DEF PackInv, ReadRight, EveryWordRead
<1> QED
  BY <1>12, <1>13, <1>14

LEMMA PackInvUnpack == PackInv /\ UnpackGroup => PackInv'
<1> SUFFICES ASSUME PackInv, UnpackGroup PROVE PackInv'
  OBVIOUS
<1> DEFINE o == object
           L == Layout(o)
           sd == L[section]
           U == Len(Unpack(sd.bits))
           B == UnpackedBytes(sd.bits)
<1>1. /\ pack_pc = "unpacking" /\ o \in Objects /\ DOMAIN bytes = 0..(Size(o) - 1)
      /\ PackedBelow(o, bytes, Size(o)) /\ UnpackingInv /\ ReadRight(o, words)
  BY DEF PackInv, UnpackGroup
<1>2. Here = sd
  BY DEF Here
<1>3. Within(o, section, group, U) /\ ReadBelow(o, words, section, group * U)
  BY <1>1, <1>2, Zenon DEF UnpackingInv
<1>4. section \in 1..Len(L) /\ group \in Nat
  BY <1>3, Zenon DEF Within
<1>5. Reads(o, section, group, bytes, words, words')
  BY DEF UnpackGroup, Reads, Here, UnpackedBytes
<1>6. /\ Advance(U, "done") /\ object' = object /\ bytes' = bytes
  BY DEF UnpackGroup, Here
<1>7. ReadRight(o, words') /\ ReadBelow(o, words', section, group * U + U)
  BY <1>1, <1>3, <1>5, ReadMore, Zenon
<1>8. ToUnpack(sd, group, U, B)
  BY <1>1, <1>3, UnpackingGroup, Zenon
<1>9. group + 1 \in Nat /\ (group + 1) * U = group * U + U
  <2>1. group + 1 \in Nat
    BY <1>4
  <2> QED
    BY <1>8, <2>1, Zenon DEF ToUnpack
<1>10. CASE (group + 1) * U < Here.words
  <2>1. group' = group + 1 /\ section' = section /\ pack_pc' = pack_pc
    BY <1>6, <1>10 DEF Advance
  <2>2. Here' = sd
    BY <1>6, <2>1 DEF Here
  <2>3. Within(o, section, group + 1, U)
    BY <1>2, <1>4, <1>9, <1>10, Zenon DEF Within
  <2>4. ReadBelow(o, words', section, (group + 1) * U)
    BY <1>7, <1>9, Zenon
  <2>5. UnpackingInv'
    BY <1>6, <2>1, <2>2, <2>3, <2>4, Zenon DEF UnpackingInv
  <2> QED
    BY <1>1, <1>6, <1>7, <2>1, <2>5 DEF PackInv, EveryWordRead
<1>11. CASE ~((group + 1) * U < Here.words)
  <2>1. sd.words = group * U + U
    BY <1>2, <1>8, <1>11, Zenon DEF ToUnpack
  <2>2. \A s \in 1..Len(L), n \in Nat :
            n < L[s].words /\ (s < section \/ s = section) => <<s, n>> \in DOMAIN words'
    BY <1>7, <2>1, Zenon DEF ReadBelow
  <2>3. Len(L) \in Nat /\ \A s \in 1..Len(L) : L[s].words \in Nat
    BY <1>1, LayoutTiled DEF Tiled, SectionRight
  <2>4. CASE section < Len(Layout(object))
    <3>1. group' = 0 /\ section' = section + 1 /\ pack_pc' = pack_pc
      BY <1>6, <1>11, <2>4 DEF Advance
    <3>2. section + 1 \in 1..Len(L)
      BY <1>1, <1>4, <2>4, NextSection, Zenon
    <3>3. Here' = L[section + 1]
      BY <1>6, <3>1 DEF Here
    <3>4. ReadBelow(o, words', section + 1, 0)
      <4>1. \A s \in 1..Len(L) : s < section + 1 => s < section \/ s = section
        BY <1>4, <2>3
      <4>2. \A n \in Nat : ~(n < 0)
        OBVIOUS
      <4> QED
        BY <2>2, <4>1, <4>2, Zenon DEF ReadBelow
    <3>5. /\ Within(o, section + 1, 0, Len(Unpack(L[section + 1].bits)))
          /\ 0 * Len(Unpack(L[section + 1].bits)) = 0
      BY <1>1, <3>2, FirstGroup, Zenon
    <3>6. UnpackingInv'
      BY <1>6, <3>1, <3>3, <3>4, <3>5, Zenon DEF UnpackingInv
    <3> QED
      BY <1>1, <1>6, <1>7, <3>1, <3>6 DEF PackInv, EveryWordRead
  <2>5. CASE ~(section < Len(Layout(object)))
    <3>1. section' = 1 /\ pack_pc' = "done"
      BY <1>6, <1>11, <2>5 DEF Advance
    <3>2. section = Len(L)
      BY <1>1, <1>4, <2>5, NextSection, Zenon
    <3>3. ASSUME NEW s \in 1..Len(L), NEW n \in 0..(L[s].words - 1)
          PROVE  <<s, n>> \in DOMAIN words'
      <4>1. n \in Nat /\ n < L[s].words /\ (s < section \/ s = section)
        BY <2>3, <3>2
      <4> QED
        BY <2>2, <4>1, Zenon
    <3>4. EveryWordRead'
      BY <1>6, <3>3, Zenon DEF EveryWordRead
    <3> QED
      BY <1>1, <1>6, <1>7, <3>1, <3>4 DEF PackInv
  <2> QED
    BY <2>4, <2>5
<1> QED
  BY <1>10, <1>11

LEMMA PackInvStutter == PackInv /\ UNCHANGED packVars => PackInv'
BY DEF PackInv, packVars, PackingInv, UnpackingInv, Here, EveryWordRead

LEMMA PackInvGives == PackInv => RoundTrip
<1> SUFFICES ASSUME PackInv PROVE RoundTrip
  OBVIOUS
<1>1. WordsComeBack /\ EveryWordRead
  BY DEF PackInv, ReadRight, WordsComeBack
<1>2. ASSUME pack_pc = "unpacking"
      PROVE  /\ DOMAIN bytes = 0..(Size(object) - 1)
             /\ \A p \in DOMAIN bytes : Whole(bytes[p])
             /\ \A p, q \in DOMAIN bytes : p # q => Apart(bytes[p], bytes[q])
  <2>1. object \in Objects /\ DOMAIN bytes = 0..(Size(object) - 1)
        /\ PackedBelow(object, bytes, Size(object))
    BY <1>2 DEF PackInv
  <2> QED
    BY <2>1, Filled, Zenon
<1>3. FillsExactly
  BY <1>2, Zenon DEF FillsExactly, Whole, Apart
<1> QED
  BY <1>1, <1>3 DEF RoundTrip

(***************************************************************************)
(* Whatever the number of coefficients, of polynomials and of bytes a      *)
(* hash has, every layout of the Kyber software fills its buffer bit by    *)
(* bit, and what was packed is unpacked, every word with all its bits in   *)
(* their places (poly.c, polyvec.c, indcpa.c, kem.c).                      *)
(***************************************************************************)
THEOREM LayoutsComeBack == PackSpec => []RoundTrip
<1>1. PackInv /\ [PackNext]_packVars => PackInv'
  BY PackInvStart, PackInvPack, PackInvUnpack, PackInvStutter DEF PackNext
<1> QED
  BY <1>1, PackInvInit, PackInvGives, PTL DEF PackSpec
=============================================================================
