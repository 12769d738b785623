------------------------- MODULE HashStream_proofs --------------------------
(***************************************************************************)
(* The streaming hash computes the digest of the whole message, for every  *)
(* size of block and length field HashConstants admits, every message and  *)
(* every way to cut it into updates: HashStream implements MessageDigest.  *)
(*                                                                         *)
(* The blocks compressed and the bytes left over spell out the message so  *)
(* far (Text).  A byte taken appends itself to it, so an update appends    *)
(* its data; padding appends to it what FIPS 180-4 says.                   *)
(*                                                                         *)
(* A fold over a sequence is defined by a recursive function on the        *)
(* subsets of its domain.  That there is one, and what it computes, is     *)
(* proved here by induction over sets of numbers, as instances of the      *)
(* theorem that the numbers are well founded.                              *)
(***************************************************************************)
EXTENDS HashStream, NaturalsInduction, WellFoundedInduction, TLAPS

-----------------------------------------------------------------------------
(* Numbers. *)
LEMMA SetInduction ==
    ASSUME NEW S, 0 \in S, \A n \in Nat : n \in S => n + 1 \in S
    PROVE  Nat \subseteq S
<1> SUFFICES ASSUME Nat \ S # {} PROVE FALSE
  OBVIOUS
<1>1. IsWellFoundedOn(OpToRel(<, Nat), Nat)
  BY NatLessThanWellFounded
<1>2. PICK n \in Nat \ S : \A m \in Nat \ S : ~(<<m, n>> \in OpToRel(<, Nat))
  BY <1>1, WFMin
<1>3. \A m \in Nat \ S : ~(m < n)
  BY <1>2 DEF OpToRel
<1>4. n # 0 /\ n - 1 \in Nat /\ n - 1 < n /\ (n - 1) + 1 = n
  OBVIOUS
<1> QED
  BY <1>3, <1>4

LEMMA DivMod ==
    ASSUME NEW d \in Nat, d > 0, NEW n \in Nat
    PROVE  /\ n = (n \div d) * d + (n % d)
           /\ n \div d \in Nat
           /\ n % d \in 0..(d - 1)
  BY SMT

LEMMA DivModUnique ==
    ASSUME NEW d \in Nat, d > 0, NEW q \in Int, NEW r \in 0..(d - 1)
    PROVE  (q * d + r) \div d = q /\ (q * d + r) % d = r
  BY SMT

(* Byte r of block q comes before the end of block n - 1 if q does. *)
LEMMA BlockOrder ==
    ASSUME NEW d \in Nat, d > 0, NEW q \in Nat, NEW r \in 0..(d - 1), NEW n \in Nat
    PROVE  q * d + r + 1 <= d * n <=> q < n
<1>1. CASE q < n
  <2>1. PICK k \in Nat : n = q + 1 + k
    <3>1. n - q - 1 \in Nat /\ n = q + 1 + (n - q - 1)
      BY <1>1
    <3> QED
      BY <3>1
  <2>2. d * n = q * d + d + k * d /\ k * d \in Nat
    BY <2>1, SMT
  <2> QED
    BY <1>1, <2>2, SMT
<1>2. CASE ~(q < n)
  <2>1. PICK k \in Nat : q = n + k
    <3>1. q - n \in Nat /\ q = n + (q - n)
      BY <1>2
    <3> QED
      BY <3>1
  <2>2. q * d = d * n + k * d /\ k * d \in Nat /\ d * n \in Nat
    BY <2>1, SMT
  <2> QED
    BY <1>2, <2>2, SMT
<1> QED
  BY <1>1, <1>2

(* A place in a text of blocks: its block and its place there. *)
LEMMA Place ==
    ASSUME HashConstants, NEW n \in Nat, NEW j \in Nat, j > 0
    PROVE  /\ (j - 1) \div BLOCK_SIZE \in Nat /\ (j - 1) % BLOCK_SIZE \in 0..(BLOCK_SIZE - 1)
           /\ j = ((j - 1) \div BLOCK_SIZE) * BLOCK_SIZE + ((j - 1) % BLOCK_SIZE) + 1
           /\ j <= BLOCK_SIZE * n <=> (j - 1) \div BLOCK_SIZE < n
<1>1. BLOCK_SIZE \in Nat /\ BLOCK_SIZE > 0 /\ j - 1 \in Nat
  BY DEF HashConstants
<1>2. /\ j - 1 = ((j - 1) \div BLOCK_SIZE) * BLOCK_SIZE + ((j - 1) % BLOCK_SIZE)
      /\ (j - 1) \div BLOCK_SIZE \in Nat /\ (j - 1) % BLOCK_SIZE \in 0..(BLOCK_SIZE - 1)
  BY <1>1, DivMod
<1>3. ((j - 1) \div BLOCK_SIZE) * BLOCK_SIZE + ((j - 1) % BLOCK_SIZE) + 1 <= BLOCK_SIZE * n <=> (j - 1) \div BLOCK_SIZE < n
  BY <1>1, <1>2, BlockOrder
<1> DEFINE q == (j - 1) \div BLOCK_SIZE
           r == (j - 1) % BLOCK_SIZE
           p == q * BLOCK_SIZE
<1>4. p \in Nat
  BY <1>1, <1>2, SMT
<1>5. j = p + r + 1
  <2> HIDE DEF p, r
  <2>1. j - 1 = p + r /\ r \in 0..(BLOCK_SIZE - 1)
    BY <1>2 DEF p, r
  <2> QED
    BY <1>4, <2>1, <1>1
<1> QED
  BY <1>2, <1>3, <1>5

(* A place past the first n blocks, by less than a block. *)
LEMMA PlaceAfter ==
    ASSUME HashConstants, NEW n \in Nat, NEW r \in 0..(BLOCK_SIZE - 1)
    PROVE  (BLOCK_SIZE * n + r) \div BLOCK_SIZE = n /\ (BLOCK_SIZE * n + r) % BLOCK_SIZE = r
<1>1. BLOCK_SIZE \in Nat /\ BLOCK_SIZE > 0 /\ BLOCK_SIZE * n = n * BLOCK_SIZE
  BY SMT DEF HashConstants
<1> QED
  BY <1>1, DivModUnique

(* Two sequences, one after the other. *)
LEMMA Concatenation ==
    ASSUME NEW m \in Nat, NEW n \in Nat, NEW a, NEW b,
           a = [i \in 1..m |-> a[i]], b = [i \in 1..n |-> b[i]]
    PROVE  a \o b = [i \in 1..(m + n) |-> IF i <= m THEN a[i] ELSE b[i - m]]
<1> DEFINE S == {a[i] : i \in 1..m} \cup {b[i] : i \in 1..n}
<1>1. a \in [1..m -> S] /\ b \in [1..n -> S]
  OBVIOUS
<1> HIDE DEF S
<1>2. a \in Seq(S) /\ b \in Seq(S) /\ Len(a) = m /\ Len(b) = n
  BY <1>1
<1>3. a \o b \in Seq(S) /\ Len(a \o b) = m + n
  BY <1>2
<1>4. \A i \in 1..(m + n) : (a \o b)[i] = IF i <= m THEN a[i] ELSE b[i - m]
  BY <1>2
<1> QED
  BY <1>3, <1>4

-----------------------------------------------------------------------------
(* The fold of an update as a series of states, one byte after the other. *)
Folded(t, data, f, n) ==
    f = [x \in SUBSET (1..n) |->
            IF x = {} THEN t ELSE TakeByte(f[x \ {Max(x)}], data[Max(x)])]

LEMMA MaxLast ==
    ASSUME NEW n \in Nat, NEW x \in SUBSET (1..(n + 1)), n + 1 \in x
    PROVE  Max(x) = n + 1
<1>1. \A y \in x : n + 1 >= y
  OBVIOUS
<1>2. \A z \in x : (\A y \in x : z >= y) => z = n + 1
  BY <1>1
<1> QED
  BY <1>1, <1>2 DEF Max

LEMMA FoldExists ==
    ASSUME NEW t, NEW data
    PROVE  \A n \in Nat : \E f : Folded(t, data, f, n)
<1> DEFINE S == {n \in Nat : \E f : Folded(t, data, f, n)}
<1>1. 0 \in S
  <2>1. Folded(t, data, [x \in SUBSET (1..0) |-> t], 0)
    BY DEF Folded
  <2> QED
    BY <2>1
<1>2. ASSUME NEW n \in Nat, n \in S PROVE n + 1 \in S
  <2>1. PICK f : Folded(t, data, f, n)
    BY <1>2
  <2> DEFINE g == [x \in SUBSET (1..(n + 1)) |->
                    IF n + 1 \in x THEN TakeByte(f[x \ {n + 1}], data[n + 1]) ELSE f[x]]
  <2>2. \A x \in SUBSET (1..(n + 1)) : n + 1 \notin x => x \in SUBSET (1..n)
    OBVIOUS
  <2>3. ASSUME NEW x \in SUBSET (1..(n + 1))
        PROVE  g[x] = IF x = {} THEN t ELSE TakeByte(g[x \ {Max(x)}], data[Max(x)])
    <3>1. CASE n + 1 \in x
      <4>1. Max(x) = n + 1 /\ x # {}
        BY <3>1, MaxLast
      <4>2. x \ {n + 1} \in SUBSET (1..n) /\ n + 1 \notin x \ {n + 1}
        BY <2>2
      <4>3. g[x \ {n + 1}] = f[x \ {n + 1}]
        BY <4>2
      <4> QED
        BY <3>1, <4>1, <4>3
    <3>2. CASE n + 1 \notin x
      <4>1. x \in SUBSET (1..n) /\ x \ {Max(x)} \in SUBSET (1..(n + 1))
        BY <2>2, <3>2
      <4>2. f[x] = IF x = {} THEN t ELSE TakeByte(f[x \ {Max(x)}], data[Max(x)])
        BY <2>1, <4>1 DEF Folded
      <4>3. g[x \ {Max(x)}] = f[x \ {Max(x)}]
        BY <3>2, <4>1
      <4> QED
        BY <3>2, <4>2, <4>3
    <3> QED
      BY <3>1, <3>2
  <2>4. Folded(t, data, g, n + 1)
    BY <2>3 DEF Folded
  <2> QED
    BY <2>4
<1> HIDE DEF S
<1>3. Nat \subseteq S
  BY <1>1, <1>2, SetInduction
<1> QED
  BY <1>3 DEF S

ByByte(u, t, data, n) ==
    /\ u[0] = t
    /\ \A k \in 0..(n - 1) : u[k + 1] = TakeByte(u[k], data[k + 1])
    /\ Update(t, data) = u[n]

LEMMA UpdateByByte ==
    ASSUME NEW t, NEW n \in Nat, NEW data, DOMAIN data = 1..n
    PROVE  \E u : ByByte(u, t, data, n)
<1>1. DOMAIN data = 1..n
  OBVIOUS
<1>2. \E f : Folded(t, data, f, n) /\ Update(t, data) = f[1..n]
  <2> DEFINE f == CHOOSE f : Folded(t, data, f, n)
  <2>1. Folded(t, data, f, n)
    BY FoldExists
  <2>2. Update(t, data) = f[1..n]
    BY <1>1 DEF Update, FoldLeft, MapThenFoldSet, Folded
  <2> QED
    BY <2>1, <2>2
<1>3. PICK f : Folded(t, data, f, n) /\ Update(t, data) = f[1..n]
  BY <1>2
<1> DEFINE u == [k \in 0..n |-> f[1..k]]
<1>4. \A x \in SUBSET (1..n) :
          f[x] = IF x = {} THEN t ELSE TakeByte(f[x \ {Max(x)}], data[Max(x)])
  BY <1>3 DEF Folded
<1>5. u[0] = t
  <2>1. 1..0 = {} /\ 1..0 \in SUBSET (1..n)
    OBVIOUS
  <2>2. f[{}] = t
    BY <1>4
  <2>3. u[0] = f[1..0]
    OBVIOUS
  <2> QED
    BY <2>1, <2>2, <2>3
<1>6. ASSUME NEW k \in 0..(n - 1) PROVE u[k + 1] = TakeByte(u[k], data[k + 1])
  <2>1. 1..(k + 1) \in SUBSET (1..n) /\ k + 1 \in 1..(k + 1) /\ k + 1 \in 0..n /\ k \in 0..n
    OBVIOUS
  <2>2. Max(1..(k + 1)) = k + 1
    <3>1. k \in Nat /\ 1..(k + 1) \in SUBSET (1..(k + 1))
      OBVIOUS
    <3> QED
      BY <2>1, <3>1, MaxLast
  <2>3. (1..(k + 1)) \ {k + 1} = 1..k
    OBVIOUS
  <2>4. f[1..(k + 1)] = TakeByte(f[(1..(k + 1)) \ {k + 1}], data[k + 1])
    BY <1>4, <2>1, <2>2
  <2> QED
    BY <2>1, <2>3, <2>4
<1>7. Update(t, data) = u[n]
  BY <1>3
<1> HIDE DEF u
<1> QED
  BY <1>5, <1>6, <1>7 DEF ByByte

-----------------------------------------------------------------------------
(***************************************************************************)
(* The state struct between two bytes, and the message it holds: blocks    *)
(* compressed, and bytes left over.                                        *)
(***************************************************************************)
(* What is compressed: bytes of the message, and those of the length. *)
LengthByte(len, k) == ((8 * len) \div 256^k) % 256

Values == Nat \cup {LengthByte(len, k) : len \in Nat, k \in Int}

Blocks == [1..BLOCK_SIZE -> Values]

Buffers == [0..(BLOCK_SIZE - 1) -> Values]

(* The block a buffer is compressed as. *)
Filled(b, left) == \A i \in 1..BLOCK_SIZE : b[i] = left[i - 1]

Compressed(iv) == BLOCK_SIZE * Len(iv)      \* bytes

Struct(iv, bits, left, o) ==
    [iv |-> iv, bits_hashed |-> bits, leftover |-> left, leftover_offset |-> o]

StateOK(t) ==
    /\ t = Struct(t.iv, t.bits_hashed, t.leftover, t.leftover_offset)
    /\ t.iv \in Seq(Blocks)
    /\ t.leftover \in Buffers
    /\ t.leftover_offset \in 0..(BLOCK_SIZE - 1)
    /\ t.bits_hashed = 8 * Compressed(t.iv)

InBlocks(iv, j) == iv[(j - 1) \div BLOCK_SIZE + 1][((j - 1) % BLOCK_SIZE) + 1]

Size(t) == Compressed(t.iv) + t.leftover_offset

Text(t) ==
    [j \in 1..Size(t) |->
        IF j <= Compressed(t.iv) THEN InBlocks(t.iv, j)
        ELSE t.leftover[j - 1 - Compressed(t.iv)]]

LEMMA BlockSize ==
    ASSUME HashConstants
    PROVE  /\ BLOCK_SIZE \in Nat /\ BLOCK_SIZE > 8
           /\ LENGTH_SIZE \in Nat /\ 8 <= LENGTH_SIZE /\ LENGTH_SIZE < BLOCK_SIZE
<1>1. BLOCK_SIZE \in Nat /\ LENGTH_SIZE \in 8..(BLOCK_SIZE - 1)
  BY DEF HashConstants
<1> QED
  BY <1>1

LEMMA AppendedBlocks ==
    ASSUME HashConstants, NEW iv \in Seq(Blocks), NEW b \in Blocks
    PROVE  /\ Len(iv) \in Nat /\ Compressed(iv) \in Nat
           /\ Append(iv, b) \in Seq(Blocks) /\ Len(Append(iv, b)) = Len(iv) + 1
           /\ Compressed(Append(iv, b)) = Compressed(iv) + BLOCK_SIZE
           /\ Append(iv, b)[Len(iv) + 1] = b
           /\ \A k \in 1..Len(iv) : Append(iv, b)[k] = iv[k]
<1>1. /\ Append(iv, b) \in Seq(Blocks) /\ Len(Append(iv, b)) = Len(iv) + 1
      /\ Append(iv, b)[Len(iv) + 1] = b /\ Len(iv) \in Nat
      /\ \A k \in 1..Len(iv) : Append(iv, b)[k] = iv[k]
  OBVIOUS
<1>2. PICK n \in Nat : n = Len(iv)
  BY <1>1
<1>3. BLOCK_SIZE * n \in Nat /\ BLOCK_SIZE * (n + 1) = BLOCK_SIZE * n + BLOCK_SIZE
  BY BlockSize, SMT
<1>4. Compressed(iv) \in Nat /\ Compressed(Append(iv, b)) = Compressed(iv) + BLOCK_SIZE
  BY <1>1, <1>2, <1>3 DEF Compressed
<1> QED
  BY <1>1, <1>4

LEMMA CompressedNat ==
    ASSUME HashConstants, NEW iv \in Seq(Blocks)
    PROVE  Compressed(iv) \in Nat /\ Len(iv) \in Nat
<1>1. PICK n \in Nat : n = Len(iv)
  OBVIOUS
<1>2. BLOCK_SIZE * n \in Nat
  BY BlockSize, SMT
<1> QED
  BY <1>1, <1>2 DEF Compressed

(* Byte j of the blocks: in a block there is, at a place there is. *)
LEMMA BlockByte ==
    ASSUME HashConstants, NEW iv \in Seq(Blocks), NEW j \in 1..Compressed(iv)
    PROVE  \E q \in 1..Len(iv), r \in 1..BLOCK_SIZE :
              /\ q = (j - 1) \div BLOCK_SIZE + 1 /\ r = ((j - 1) % BLOCK_SIZE) + 1
              /\ InBlocks(iv, j) = iv[q][r]
              /\ iv[q][r] \in Values
<1>1. PICK n \in Nat : n = Len(iv)
  OBVIOUS
<1>2. j \in Nat /\ j > 0 /\ j <= BLOCK_SIZE * n
  BY <1>1, CompressedNat DEF Compressed
<1>3. PICK q \in Nat, r \in 0..(BLOCK_SIZE - 1) :
          q = (j - 1) \div BLOCK_SIZE /\ r = (j - 1) % BLOCK_SIZE /\ q < n
  BY <1>2, Place
<1>4. q + 1 \in 1..Len(iv) /\ r + 1 \in 1..BLOCK_SIZE
  BY <1>1, <1>3, BlockSize
<1>5. iv[q + 1] \in Blocks
  BY <1>4
<1>6. iv[q + 1][r + 1] \in Values
  BY <1>4, <1>5 DEF Blocks
<1>7. InBlocks(iv, j) = iv[q + 1][r + 1]
  BY <1>3 DEF InBlocks
<1> QED
  BY <1>3, <1>4, <1>6, <1>7

LEMMA TextType ==
    ASSUME HashConstants, NEW t, StateOK(t)
    PROVE  Size(t) \in Nat /\ Text(t) \in [1..Size(t) -> Values]
<1>1. PICK n \in Nat : n = Compressed(t.iv)
  BY CompressedNat DEF StateOK
<1>2. PICK o \in 0..(BLOCK_SIZE - 1) : o = t.leftover_offset
  BY DEF StateOK
<1>3. Size(t) = n + o /\ BLOCK_SIZE \in Nat
  BY <1>1, <1>2, BlockSize DEF Size
<1>4. ASSUME NEW j \in 1..(n + o)
      PROVE  (IF j <= n THEN InBlocks(t.iv, j) ELSE t.leftover[j - 1 - n]) \in Values
  <2>1. CASE j <= n
    <3>1. j \in 1..Compressed(t.iv) /\ t.iv \in Seq(Blocks)
      BY <1>1, <1>4, <2>1 DEF StateOK
    <3> QED
      BY <2>1, <3>1, BlockByte
  <2>2. CASE ~(j <= n)
    <3>1. j - 1 - n \in 0..(BLOCK_SIZE - 1)
      BY <1>3, <2>2
    <3> QED
      BY <2>2, <3>1 DEF StateOK, Buffers
  <2> QED
    BY <2>1, <2>2
<1>5. Text(t) = [j \in 1..(n + o) |->
                    IF j <= n THEN InBlocks(t.iv, j) ELSE t.leftover[j - 1 - n]]
  BY <1>1, <1>3 DEF Text
<1>6. n + o \in Nat
  BY <1>3
<1> QED
  BY <1>3, <1>4, <1>5, <1>6

(* A block appended to those compressed: the places before it, and its own. *)
LEMMA AppendedBlock ==
    ASSUME HashConstants, NEW iv \in Seq(Blocks), NEW b \in Blocks
    PROVE  /\ \A j \in 1..Compressed(iv) : InBlocks(Append(iv, b), j) = InBlocks(iv, j)
           /\ \A r \in 0..(BLOCK_SIZE - 1) :
                 InBlocks(Append(iv, b), Compressed(iv) + r + 1) = b[r + 1]
<1>1. PICK n \in Nat : n = Compressed(iv)
  BY CompressedNat
<1>2. ASSUME NEW j \in 1..n
      PROVE  InBlocks(Append(iv, b), j) = InBlocks(iv, j)
  <2>1. PICK q \in 1..Len(iv) : q = (j - 1) \div BLOCK_SIZE + 1
    BY <1>1, BlockByte
  <2>2. Append(iv, b)[q] = iv[q]
    BY AppendedBlocks
  <2> QED
    BY <2>1, <2>2 DEF InBlocks
<1>3. ASSUME NEW r \in 0..(BLOCK_SIZE - 1)
      PROVE  InBlocks(Append(iv, b), n + r + 1) = b[r + 1]
  <2>1. PICK j : j = n + r + 1
    OBVIOUS
  <2>2. j - 1 = n + r
    BY <2>1, BlockSize
  <2>3. n = BLOCK_SIZE * Len(iv) /\ Len(iv) \in Nat
    BY <1>1, CompressedNat DEF Compressed
  <2>4. (j - 1) \div BLOCK_SIZE = Len(iv) /\ (j - 1) % BLOCK_SIZE = r
    BY <2>2, <2>3, PlaceAfter
  <2>5. Append(iv, b)[Len(iv) + 1] = b
    BY AppendedBlocks
  <2>6. InBlocks(Append(iv, b), j) = b[r + 1]
    BY <2>4, <2>5 DEF InBlocks
  <2> QED
    BY <2>1, <2>6
<1> QED
  BY <1>1, <1>2, <1>3

(* What a step of the code makes of the struct, field by field. *)
LEMMA StructFields ==
    ASSUME NEW iv, NEW bits, NEW left, NEW o
    PROVE  /\ Struct(iv, bits, left, o).iv = iv
           /\ Struct(iv, bits, left, o).bits_hashed = bits
           /\ Struct(iv, bits, left, o).leftover = left
           /\ Struct(iv, bits, left, o).leftover_offset = o
  BY DEF Struct

Put(t, k, byte) == [t EXCEPT !.leftover[k] = byte, !.leftover_offset = @ + 1]

Replaced(left, o, byte) == [left EXCEPT ![o] = byte]

LEMMA PutStruct ==
    ASSUME NEW iv, NEW bits, NEW left, NEW o, NEW k, NEW byte
    PROVE  Put(Struct(iv, bits, left, o), k, byte)
              = Struct(iv, bits, Replaced(left, k, byte), o + 1)
<1>1. PICK t : t = Struct(iv, bits, left, o)
  OBVIOUS
<1>2. t.leftover_offset = o
  BY <1>1, StructFields
<1>3. Put(t, k, byte) = [[t EXCEPT !.leftover[k] = byte] EXCEPT !.leftover_offset = t.leftover_offset + 1]
  BY DEF Put
<1>4. [t EXCEPT !.leftover[k] = byte] = Struct(iv, bits, [left EXCEPT ![k] = byte], o)
  BY <1>1 DEF Struct
<1>5. [Struct(iv, bits, [left EXCEPT ![k] = byte], o)
         EXCEPT !.leftover_offset = t.leftover_offset + 1]
        = Struct(iv, bits, [left EXCEPT ![k] = byte], o + 1)
  BY <1>2 DEF Struct
<1> QED
  BY <1>1, <1>3, <1>4, <1>5 DEF Replaced

LEMMA CompressStruct ==
    ASSUME HashConstants, NEW left \in Buffers, NEW iv, NEW bits, NEW o
    PROVE  \E b \in Blocks : /\ Filled(b, left)
                             /\ Compress(Struct(iv, bits, left, o))
                                  = Struct(Append(iv, b), bits, left, 0)
<1> DEFINE t == Struct(iv, bits, left, o)
<1>1. PICK b : b = [i \in 1..BLOCK_SIZE |-> left[i - 1]]
  OBVIOUS
<1>2. \A i \in 1..BLOCK_SIZE : i - 1 \in 0..(BLOCK_SIZE - 1)
  BY BlockSize
<1>3. \A i \in 1..BLOCK_SIZE : left[i - 1] \in Values
  BY <1>2 DEF Buffers
<1>4. b \in Blocks /\ Filled(b, left)
  BY <1>1, <1>3 DEF Blocks, Filled
<1>5. t.iv = iv /\ BlockOf(t) = b
  <2>1. t.iv = iv /\ t.leftover = left
    BY StructFields
  <2> QED
    BY <1>1, <2>1 DEF BlockOf
<1> HIDE DEF t
<1>6. Compress(t) = [[t EXCEPT !.iv = Append(t.iv, BlockOf(t))] EXCEPT !.leftover_offset = 0]
  BY DEF Compress
<1>7. PICK x : x = Append(iv, b)
  OBVIOUS
<1>8. [t EXCEPT !.iv = x] = Struct(x, bits, left, o)
  BY DEF Struct, t
<1>9. [Struct(x, bits, left, o) EXCEPT !.leftover_offset = 0] = Struct(x, bits, left, 0)
  BY DEF Struct
<1>10. Compress(t) = Struct(x, bits, left, 0)
  BY <1>5, <1>6, <1>7, <1>8, <1>9
<1> QED
  BY <1>4, <1>7, <1>10 DEF t

(* The struct between two calls of the compression function, with n bytes    *)
(* compressed, spells what its blocks and the first o bytes left over do.    *)
LEMMA SpellsOut ==
    ASSUME HashConstants, NEW t, StateOK(t), NEW n \in Nat, n = Compressed(t.iv),
           NEW o \in 0..(BLOCK_SIZE - 1), o = t.leftover_offset
    PROVE  /\ Size(t) = n + o
           /\ Text(t) = [j \in 1..(n + o) |->
                            IF j <= n THEN InBlocks(t.iv, j) ELSE t.leftover[j - 1 - n]]
<1>1. Size(t) = n + o
  BY DEF Size
<1> QED
  BY <1>1 DEF Text

(* The blocks and the block that left makes, byte by byte. *)
LEMMA NextBlock ==
    ASSUME HashConstants, NEW iv \in Seq(Blocks), NEW n \in Nat, n = Compressed(iv),
           NEW b \in Blocks, NEW left, Filled(b, left)
    PROVE  \A j \in 1..(n + BLOCK_SIZE) :
              InBlocks(Append(iv, b), j)
                 = IF j <= n THEN InBlocks(iv, j) ELSE left[j - 1 - n]
<1>1. TAKE j \in 1..(n + BLOCK_SIZE)
<1>2. CASE j <= n
  <2>1. j \in 1..Compressed(iv)
    BY <1>1, <1>2
  <2> QED
    BY <1>2, <2>1, AppendedBlock
<1>3. CASE ~(j <= n)
  <2>1. PICK r \in 0..(BLOCK_SIZE - 1) : r = j - 1 - n /\ n + r + 1 = j
    <3>1. j - 1 - n \in 0..(BLOCK_SIZE - 1) /\ n + (j - 1 - n) + 1 = j
      BY <1>1, <1>3, BlockSize
    <3> QED
      BY <3>1
  <2>2. InBlocks(Append(iv, b), j) = b[r + 1]
    BY <2>1, AppendedBlock
  <2>3. r + 1 \in 1..BLOCK_SIZE /\ (r + 1) - 1 = r
    BY BlockSize
  <2>4. b[r + 1] = left[r]
    BY <2>3 DEF Filled
  <2> QED
    BY <1>3, <2>1, <2>2, <2>4
<1> QED
  BY <1>2, <1>3

(* A byte that is taken is one more of the message. *)
LEMMA TakeByteText ==
    ASSUME HashConstants, NEW t, StateOK(t), NEW byte \in Values
    PROVE  /\ StateOK(TakeByte(t, byte))
           /\ Size(TakeByte(t, byte)) = Size(t) + 1
           /\ Text(TakeByte(t, byte))
                = [j \in 1..(Size(t) + 1) |-> IF j <= Size(t) THEN Text(t)[j] ELSE byte]
<1>1. BLOCK_SIZE \in Nat /\ BLOCK_SIZE > 8
  BY BlockSize
<1>2. PICK iv \in Seq(Blocks), lo \in Buffers, o \in 0..(BLOCK_SIZE - 1) :
          iv = t.iv /\ lo = t.leftover /\ o = t.leftover_offset
  BY DEF StateOK
<1>3. PICK n \in Nat : n = Compressed(iv)
  BY CompressedNat
<1>4. t = Struct(iv, 8 * n, lo, o)
  BY <1>2, <1>3 DEF StateOK
<1>5. PICK left \in Buffers : left = Replaced(lo, o, byte)
  <2>1. Replaced(lo, o, byte) \in Buffers
    BY DEF Buffers, Replaced
  <2> QED
    BY <2>1
<1>6. left[o] = byte /\ \A i \in 0..(BLOCK_SIZE - 1) : i # o => left[i] = lo[i]
  BY <1>5 DEF Buffers, Replaced
<1>7. PICK u : u = Struct(iv, 8 * n, left, o + 1)
  OBVIOUS
<1>8. u = Put(t, t.leftover_offset, byte)
  <2>1. u = Put(t, o, byte)
    BY <1>4, <1>5, <1>7, PutStruct
  <2> QED
    BY <1>2, <2>1
<1>9. TakeByte(t, byte) = IF u.leftover_offset >= BLOCK_SIZE
                          THEN [Compress(u) EXCEPT !.bits_hashed = @ + 8 * BLOCK_SIZE] ELSE u
  BY <1>8, Zenon DEF TakeByte, Put
<1>10. /\ u.iv = iv /\ u.bits_hashed = 8 * n
      /\ u.leftover = left /\ u.leftover_offset = o + 1
  BY <1>7, StructFields
<1>11. /\ Size(t) = n + o
       /\ Text(t) = [j \in 1..(n + o) |-> IF j <= n THEN InBlocks(iv, j) ELSE lo[j - 1 - n]]
  <2>1. n = Compressed(t.iv) /\ o = t.leftover_offset /\ iv = t.iv /\ lo = t.leftover
    BY <1>2, <1>3
  <2> QED
    BY <2>1, SpellsOut
<1>12. \A j \in 1..(n + o + 1) :
          (IF j <= n + o THEN Text(t)[j] ELSE byte)
             = IF j <= n THEN InBlocks(iv, j) ELSE left[j - 1 - n]
  <2>1. TAKE j \in 1..(n + o + 1)
  <2>2. CASE j <= n
    <3>1. j \in 1..(n + o) /\ j <= n + o
      BY <1>1, <2>2
    <3> QED
      BY <1>11, <2>2, <3>1
  <2>3. CASE ~(j <= n) /\ j <= n + o
    <3>1. j - 1 - n \in 0..(BLOCK_SIZE - 1) /\ j - 1 - n # o /\ j \in 1..(n + o)
      BY <1>1, <2>3
    <3>2. left[j - 1 - n] = lo[j - 1 - n]
      BY <1>6, <3>1
    <3> QED
      BY <1>11, <2>3, <3>1, <3>2
  <2>4. CASE ~(j <= n) /\ ~(j <= n + o)
    <3>1. j - 1 - n = o
      BY <1>1, <2>4
    <3> QED
      BY <1>6, <2>4, <3>1
  <2>5. j <= n => j <= n + o
    BY <1>1
  <2> QED
    BY <2>2, <2>3, <2>4, <2>5
<1>13. CASE o + 1 < BLOCK_SIZE
  <2>1. TakeByte(t, byte) = u
    BY <1>1, <1>9, <1>10, <1>13
  <2>2. o + 1 \in 0..(BLOCK_SIZE - 1)
    BY <1>1, <1>13
  <2>3. StateOK(u)
    BY <1>3, <1>7, <1>10, <2>2 DEF StateOK
  <2>4. PICK p \in 0..(BLOCK_SIZE - 1) : p = o + 1
    BY <2>2
  <2>5. /\ Size(u) = n + p
        /\ Text(u) = [j \in 1..(n + p) |-> IF j <= n THEN InBlocks(iv, j) ELSE left[j - 1 - n]]
    <3>1. n = Compressed(u.iv) /\ p = u.leftover_offset
      BY <1>3, <1>10, <2>4
    <3>2. /\ Size(u) = n + p
          /\ Text(u) = [j \in 1..(n + p) |->
                            IF j <= n THEN InBlocks(u.iv, j) ELSE u.leftover[j - 1 - n]]
      BY <2>3, <3>1, SpellsOut
    <3> QED
      BY <1>10, <3>2
  <2>6. n + p = n + o + 1
    BY <1>1, <2>4
  <2> QED
    BY <1>11, <1>12, <2>1, <2>3, <2>5, <2>6
<1>14. CASE o + 1 = BLOCK_SIZE
  <2>1. PICK b \in Blocks : /\ Filled(b, left)
                            /\ Compress(u) = Struct(Append(iv, b), 8 * n, left, 0)
    BY <1>7, CompressStruct
  <2>2. PICK iw \in Seq(Blocks) : iw = Append(iv, b) /\ Compressed(iw) = n + BLOCK_SIZE
    BY <1>3, AppendedBlocks
  <2>3. Compress(u) = Struct(iw, 8 * n, left, 0)
    BY <2>1, <2>2
  <2>4. PICK v : v = Struct(iw, 8 * n + 8 * BLOCK_SIZE, left, 0)
    OBVIOUS
  <2>5. /\ v.iv = iw /\ v.bits_hashed = 8 * n + 8 * BLOCK_SIZE
         /\ v.leftover = left /\ v.leftover_offset = 0
    BY <2>4, StructFields
  <2>6. TakeByte(t, byte) = v
    <3>1. u.leftover_offset >= BLOCK_SIZE
      BY <1>1, <1>10, <1>14
    <3>2. TakeByte(t, byte) = [Compress(u) EXCEPT !.bits_hashed = @ + 8 * BLOCK_SIZE]
      BY <1>9, <3>1
    <3>3. Compress(u).bits_hashed = 8 * n
      BY <2>3, StructFields
    <3> QED
      BY <2>3, <2>4, <3>2, <3>3 DEF Struct
  <2>7. 8 * n + 8 * BLOCK_SIZE = 8 * (n + BLOCK_SIZE) /\ 0 \in 0..(BLOCK_SIZE - 1)
    BY <1>1
  <2>8. StateOK(v)
    BY <2>2, <2>4, <2>5, <2>7 DEF StateOK
  <2>9. PICK m \in Nat : m = n + BLOCK_SIZE
    BY <1>1
  <2>10. m = n + o + 1 /\ m + 0 = m
    BY <1>1, <1>14, <2>9
  <2>11. /\ Size(v) = m
         /\ Text(v) = [j \in 1..m |-> IF j <= m THEN InBlocks(iw, j) ELSE left[j - 1 - m]]
    <3>1. m = Compressed(v.iv) /\ 0 = v.leftover_offset
      BY <2>2, <2>9, <2>5
    <3>2. /\ Size(v) = m + 0
          /\ Text(v) = [j \in 1..(m + 0) |->
                            IF j <= m THEN InBlocks(v.iv, j) ELSE v.leftover[j - 1 - m]]
      BY <2>7, <2>8, <3>1, SpellsOut
    <3> QED
      BY <2>10, <2>5, <3>2
  <2>12. \A j \in 1..m :
            (IF j <= m THEN InBlocks(iw, j) ELSE left[j - 1 - m])
               = IF j <= n + o THEN Text(t)[j] ELSE byte
    <3>1. TAKE j \in 1..m
    <3>2. InBlocks(Append(iv, b), j) = IF j <= n THEN InBlocks(iv, j) ELSE left[j - 1 - n]
      <4>1. \A i \in 1..(n + BLOCK_SIZE) :
                InBlocks(Append(iv, b), i)
                   = IF i <= n THEN InBlocks(iv, i) ELSE left[i - 1 - n]
        BY <1>3, <2>1, NextBlock
      <4> QED
        BY <2>9, <4>1
    <3>3. j \in 1..(n + o + 1) /\ j <= m
      BY <1>1, <2>10
    <3> QED
      BY <1>12, <2>2, <3>2, <3>3
  <2>13. Text(v) = [j \in 1..m |-> IF j <= n + o THEN Text(t)[j] ELSE byte]
    BY <2>11, <2>12
  <2> QED
    BY <1>11, <2>6, <2>8, <2>10, <2>11, <2>13
<1> QED
  BY <1>1, <1>13, <1>14

(* An update appends its bytes. *)
Fed(u, t, data, k) ==
    /\ StateOK(u) /\ Size(u) = Size(t) + k
    /\ Text(u) = [j \in 1..(Size(t) + k) |-> IF j <= Size(t) THEN Text(t)[j] ELSE data[j - Size(t)]]

LEMMA FedOneMore ==
    ASSUME HashConstants, NEW t, StateOK(t), NEW data, NEW k \in Nat, data[k + 1] \in Values,
           NEW u, Fed(u, t, data, k)
    PROVE  Fed(TakeByte(u, data[k + 1]), t, data, k + 1)
<1>1. PICK n \in Nat : n = Size(t)
  BY TextType
<1>2. PICK v : v = TakeByte(u, data[k + 1])
  OBVIOUS
<1>3. StateOK(u) /\ Size(u) = n + k
  BY <1>1 DEF Fed
<1>4. Text(u) = [j \in 1..(n + k) |-> IF j <= n THEN Text(t)[j] ELSE data[j - n]]
  BY <1>1 DEF Fed
<1>5. /\ StateOK(v) /\ Size(v) = n + k + 1
      /\ Text(v) = [j \in 1..(n + k + 1) |-> IF j <= n + k THEN Text(u)[j] ELSE data[k + 1]]
  <2>1. PICK byte \in Values : byte = data[k + 1]
    OBVIOUS
  <2>2. v = TakeByte(u, byte)
    BY <1>2, <2>1
  <2>3. /\ StateOK(v) /\ Size(v) = Size(u) + 1
        /\ Text(v) = [j \in 1..(Size(u) + 1) |-> IF j <= Size(u) THEN Text(u)[j] ELSE byte]
    BY <1>3, <2>2, TakeByteText
  <2> QED
    BY <1>3, <2>1, <2>3
<1>6. ASSUME NEW j \in 1..(n + k + 1)
      PROVE  (IF j <= n + k THEN Text(u)[j] ELSE data[k + 1])
                = IF j <= n THEN Text(t)[j] ELSE data[j - n]
  <2>1. CASE j <= n + k
    <3>1. j \in 1..(n + k)
      BY <2>1
    <3> QED
      BY <1>4, <2>1, <3>1
  <2>2. CASE ~(j <= n + k)
    <3>1. j - n = k + 1 /\ ~(j <= n)
      BY <2>2
    <3> QED
      BY <2>2, <3>1
  <2> QED
    BY <2>1, <2>2
<1>7. n + k + 1 = n + (k + 1)
  OBVIOUS
<1>8. Text(v) = [j \in 1..(n + (k + 1)) |-> IF j <= n THEN Text(t)[j] ELSE data[j - n]]
  BY <1>5, <1>6, <1>7
<1> QED
  BY <1>1, <1>2, <1>5, <1>7, <1>8 DEF Fed

LEMMA UpdateText ==
    ASSUME HashConstants, NEW t, StateOK(t), NEW m \in Nat, NEW data \in [1..m -> Values]
    PROVE  Fed(Update(t, data), t, data, m)
<1>1. PICK u : ByByte(u, t, data, m)
  <2>1. DOMAIN data = 1..m
    OBVIOUS
  <2> QED
    BY <2>1, UpdateByByte
<1>2. /\ u[0] = t
      /\ \A k \in 0..(m - 1) : u[k + 1] = TakeByte(u[k], data[k + 1])
      /\ Update(t, data) = u[m]
  BY <1>1 DEF ByByte
<1>3. Fed(t, t, data, 0)
  <2>1. PICK n \in Nat : n = Size(t)
    BY TextType
  <2>2. n + 0 = n /\ Text(t) = [j \in 1..n |-> Text(t)[j]]
    BY <2>1, TextType
  <2>3. Text(t) = [j \in 1..n |-> IF j <= n THEN Text(t)[j] ELSE data[j - n]]
    BY <2>2
  <2> QED
    BY <2>1, <2>2, <2>3 DEF Fed
<1> DEFINE S == {k \in Nat : k <= m => Fed(u[k], t, data, k)}
<1>4. 0 \in S
  BY <1>2, <1>3
<1>5. ASSUME NEW k \in Nat, k \in S
      PROVE  k + 1 \in S
  <2>1. CASE k + 1 <= m
    <3>1. k \in 0..(m - 1) /\ k + 1 \in 1..m /\ k <= m
      BY <2>1
    <3>2. data[k + 1] \in Values
      BY <3>1
    <3>3. Fed(u[k], t, data, k)
      BY <1>5, <3>1
    <3>4. Fed(TakeByte(u[k], data[k + 1]), t, data, k + 1)
      BY <3>2, <3>3, FedOneMore
    <3>5. u[k + 1] = TakeByte(u[k], data[k + 1])
      BY <1>2, <3>1
    <3> QED
      BY <3>4, <3>5
  <2> QED
    BY <2>1
<1> HIDE DEF S
<1>6. Nat \subseteq S
  BY <1>4, <1>5, SetInduction
<1>7. m \in S
  BY <1>6
<1>8. Fed(u[m], t, data, m)
  BY <1>7 DEF S
<1> QED
  BY <1>2, <1>8

-----------------------------------------------------------------------------
(***************************************************************************)
(* The blocks one after the other spell what InBlocks says.                *)
(***************************************************************************)
Spelled(iv, k) == [j \in 1..(BLOCK_SIZE * k) |-> InBlocks(iv, j)]

(* Nothing before the first block, and one block more after the other. *)
LEMMA SpelledOneMore ==
    ASSUME HashConstants, NEW iv \in Seq(Blocks), NEW k \in Nat, k < Len(iv)
    PROVE  /\ Spelled(iv, 0) = <<>>
           /\ Spelled(iv, k + 1) = Spelled(iv, k) \o iv[k + 1]
<1>1. BLOCK_SIZE \in Nat /\ BLOCK_SIZE > 8 /\ Len(iv) \in Nat
  BY BlockSize
<1>2. Spelled(iv, 0) = <<>>
  <2>1. BLOCK_SIZE * 0 = 0
    BY <1>1
  <2> QED
    BY <2>1 DEF Spelled
<1>3. PICK n \in Nat : n = BLOCK_SIZE * k /\ BLOCK_SIZE * (k + 1) = n + BLOCK_SIZE
  <2>1. BLOCK_SIZE * k \in Nat /\ BLOCK_SIZE * (k + 1) = BLOCK_SIZE * k + BLOCK_SIZE
    BY <1>1, SMT
  <2> QED
    BY <2>1
<1>4. PICK b \in Blocks : b = iv[k + 1]
  BY <1>1
<1>5. PICK a : a = [j \in 1..n |-> InBlocks(iv, j)]
  OBVIOUS
<1>6. Spelled(iv, k) = a /\ Spelled(iv, k + 1) = [j \in 1..(n + BLOCK_SIZE) |-> InBlocks(iv, j)]
  BY <1>3, <1>5 DEF Spelled
<1>7. a \o b = [j \in 1..(n + BLOCK_SIZE) |-> IF j <= n THEN a[j] ELSE b[j - n]]
  <2>1. a = [j \in 1..n |-> a[j]] /\ b = [j \in 1..BLOCK_SIZE |-> b[j]]
    BY <1>4, <1>5 DEF Blocks
  <2> QED
    BY <1>1, <2>1, Concatenation
<1>8. ASSUME NEW j \in 1..(n + BLOCK_SIZE)
      PROVE  InBlocks(iv, j) = IF j <= n THEN a[j] ELSE b[j - n]
  <2>1. CASE j <= n
    <3>1. j \in 1..n
      BY <1>1, <2>1
    <3> QED
      BY <1>5, <2>1, <3>1
  <2>2. CASE ~(j <= n)
    <3>1. PICK r \in 0..(BLOCK_SIZE - 1) : r = j - 1 - n /\ r + 1 = j - n /\ j - 1 = n + r
      <4>1. /\ j - 1 - n \in 0..(BLOCK_SIZE - 1) /\ (j - 1 - n) + 1 = j - n
            /\ j - 1 = n + (j - 1 - n)
        BY <1>1, <2>2
      <4> QED
        BY <4>1
    <3>2. (j - 1) \div BLOCK_SIZE = k /\ (j - 1) % BLOCK_SIZE = r
      BY <1>3, <3>1, PlaceAfter
    <3>3. InBlocks(iv, j) = b[r + 1]
      BY <1>4, <3>2 DEF InBlocks
    <3> QED
      BY <2>2, <3>1, <3>3
  <2> QED
    BY <2>1, <2>2
<1>9. Spelled(iv, k + 1) = a \o b
  BY <1>6, <1>7, <1>8
<1> QED
  BY <1>2, <1>4, <1>6, <1>9

LEMMA FirstBlock ==
    ASSUME HashConstants, NEW b \in Blocks
    PROVE  <<>> \o b = b
<1>1. BLOCK_SIZE \in Nat
  BY BlockSize
<1>2. b = [j \in 1..BLOCK_SIZE |-> b[j]] /\ <<>> = [j \in 1..0 |-> <<>>[j]]
  BY DEF Blocks
<1>3. <<>> \o b = [j \in 1..(0 + BLOCK_SIZE) |-> IF j <= 0 THEN <<>>[j] ELSE b[j - 0]]
  BY <1>1, <1>2, Concatenation
<1>4. 0 + BLOCK_SIZE = BLOCK_SIZE /\ \A j \in 1..BLOCK_SIZE : ~(j <= 0) /\ j - 0 = j
  BY <1>1
<1> QED
  BY <1>2, <1>3, <1>4

LEMMA FlattenBlocks ==
    ASSUME HashConstants, NEW iv \in Seq(Blocks)
    PROVE  FlattenSeq(iv) = Spelled(iv, Len(iv))
<1>1. Len(iv) \in Nat
  OBVIOUS
<1>2. CASE Len(iv) = 0
  <2>1. iv = <<>>
    BY <1>2
  <2>2. Spelled(iv, 0) = <<>>
    <3>1. BLOCK_SIZE * 0 = 0
      BY BlockSize
    <3> QED
      BY <3>1 DEF Spelled
  <2>3. FlattenSeq(iv) = iv
    BY <1>2 DEF FlattenSeq
  <2> QED
    BY <1>2, <2>1, <2>2, <2>3
<1>3. CASE Len(iv) > 0
  <2> DEFINE Flattened(f) ==
        f = [i \in 1..Len(iv) |-> IF i = 1 THEN iv[i] ELSE f[i - 1] \o iv[i]]
      f == CHOOSE f : Flattened(f)
      g == [i \in 1..Len(iv) |-> Spelled(iv, i)]
  <2>1. FlattenSeq(iv) = f[Len(iv)]
    BY <1>3 DEF FlattenSeq
  <2>2. Flattened(g)
    <3>1. ASSUME NEW i \in 1..Len(iv)
          PROVE  Spelled(iv, i) = IF i = 1 THEN iv[i] ELSE g[i - 1] \o iv[i]
      <4>1. PICK k \in Nat : k = i - 1 /\ k + 1 = i /\ k < Len(iv)
        <5>1. i - 1 \in Nat /\ (i - 1) + 1 = i /\ i - 1 < Len(iv)
          BY <1>1
        <5> QED
          BY <5>1
      <4>2. Spelled(iv, 0) = <<>> /\ Spelled(iv, i) = Spelled(iv, k) \o iv[i]
        BY <4>1, SpelledOneMore
      <4>3. CASE i = 1
        <5>1. k = 0 /\ iv[i] \in Blocks
          BY <4>1, <4>3
        <5> QED
          BY <4>2, <4>3, <5>1, FirstBlock
      <4>4. CASE i # 1
        <5>1. k \in 1..Len(iv)
          BY <1>1, <4>1, <4>4
        <5> QED
          BY <4>1, <4>2, <4>4, <5>1
      <4> QED
        BY <4>3, <4>4
    <3> QED
      BY <3>1
  <2>3. Flattened(f)
    BY <2>2
  <2> HIDE DEF f
  <2> DEFINE S == {k \in Nat : k < Len(iv) => f[k + 1] = Spelled(iv, k + 1)}
  <2>4. 0 \in S
    <3>1. 1 \in 1..Len(iv) /\ iv[1] \in Blocks
      BY <1>1, <1>3
    <3>2. f[1] = iv[1]
      BY <2>3, <3>1
    <3>3. Spelled(iv, 1) = <<>> \o iv[1]
      <4>1. PICK k \in Nat : k = 0 /\ k + 1 = 1 /\ k < Len(iv)
        BY <1>1, <1>3
      <4>2. Spelled(iv, 0) = <<>> /\ Spelled(iv, k + 1) = Spelled(iv, k) \o iv[k + 1]
        BY <4>1, SpelledOneMore
      <4> QED
        BY <4>1, <4>2
    <3>4. Spelled(iv, 1) = iv[1]
      <4>1. PICK b \in Blocks : b = iv[1]
        BY <3>1
      <4>2. Spelled(iv, 1) = <<>> \o b
        BY <3>3, <4>1
      <4> QED
        BY <4>1, <4>2, FirstBlock
    <3>5. 0 \in Nat /\ 0 + 1 = 1
      OBVIOUS
    <3> QED
      BY <3>2, <3>4, <3>5
  <2>5. ASSUME NEW k \in Nat, k \in S
        PROVE  k + 1 \in S
    <3>1. CASE k + 1 < Len(iv)
      <4>1. k + 1 + 1 \in 1..Len(iv) /\ k + 1 + 1 # 1 /\ (k + 1 + 1) - 1 = k + 1 /\ k < Len(iv)
        BY <1>1, <3>1
      <4>2. f[k + 1 + 1] = f[(k + 1 + 1) - 1] \o iv[k + 1 + 1]
        BY <2>3, <4>1
      <4>3. f[k + 1] = Spelled(iv, k + 1)
        BY <2>5, <4>1
      <4>4. Spelled(iv, k + 1 + 1) = Spelled(iv, k + 1) \o iv[k + 1 + 1]
        <5>1. PICK m \in Nat : m = k + 1
          OBVIOUS
        <5>2. Spelled(iv, m + 1) = Spelled(iv, m) \o iv[m + 1]
          BY <3>1, <5>1, SpelledOneMore
        <5> QED
          BY <5>1, <5>2
      <4>5. f[k + 1 + 1] = Spelled(iv, k + 1 + 1)
        BY <4>1, <4>2, <4>3, <4>4
      <4> QED
        BY <4>5
    <3> QED
      BY <3>1
  <2> HIDE DEF S
  <2>6. Nat \subseteq S
    BY <2>4, <2>5, SetInduction
  <2>7. PICK k \in Nat : k + 1 = Len(iv) /\ k < Len(iv)
    <3>1. Len(iv) - 1 \in Nat /\ (Len(iv) - 1) + 1 = Len(iv) /\ Len(iv) - 1 < Len(iv)
      BY <1>1, <1>3
    <3> QED
      BY <3>1
  <2>8. f[Len(iv)] = Spelled(iv, Len(iv))
    BY <2>6, <2>7 DEF S
  <2> QED
    BY <2>1, <2>8
<1> QED
  BY <1>1, <1>2, <1>3

LEMMA MessageIsText ==
    ASSUME HashConstants, NEW t, StateOK(t)
    PROVE  FlattenSeq(t.iv) \o [i \in 1..t.leftover_offset |-> t.leftover[i - 1]] = Text(t)
<1>1. PICK n \in Nat : n = Compressed(t.iv)
  BY CompressedNat DEF StateOK
<1>2. PICK o \in 0..(BLOCK_SIZE - 1) : o = t.leftover_offset
  BY DEF StateOK
<1>3. PICK a : a = [j \in 1..n |-> InBlocks(t.iv, j)]
  OBVIOUS
<1>4. FlattenSeq(t.iv) = a
  BY <1>1, <1>3, FlattenBlocks DEF StateOK, Spelled, Compressed
<1>5. PICK b : b = [i \in 1..o |-> t.leftover[i - 1]]
  OBVIOUS
<1>6. a \o b = [j \in 1..(n + o) |-> IF j <= n THEN a[j] ELSE b[j - n]]
  <2>1. a = [j \in 1..n |-> a[j]] /\ b = [j \in 1..o |-> b[j]] /\ o \in Nat
    BY <1>3, <1>5, BlockSize
  <2> QED
    BY <2>1, Concatenation
<1>7. ASSUME NEW j \in 1..(n + o)
      PROVE  (IF j <= n THEN a[j] ELSE b[j - n])
                = IF j <= n THEN InBlocks(t.iv, j) ELSE t.leftover[j - 1 - n]
  <2>1. o \in Nat
    BY BlockSize
  <2>2. CASE j <= n
    <3>1. j \in 1..n
      BY <2>1, <2>2
    <3> QED
      BY <1>3, <2>2, <3>1
  <2>3. CASE ~(j <= n)
    <3>1. j - n \in 1..o /\ (j - n) - 1 = j - 1 - n
      BY <2>1, <2>3
    <3>2. b[j - n] = t.leftover[(j - n) - 1]
      BY <1>5, <3>1
    <3> QED
      BY <2>3, <3>1, <3>2
  <2> QED
    BY <2>2, <2>3
<1>8. Text(t) = [j \in 1..(n + o) |-> IF j <= n THEN InBlocks(t.iv, j) ELSE t.leftover[j - 1 - n]]
  BY <1>1, <1>2, SpellsOut
<1>9. a \o b = Text(t)
  BY <1>6, <1>7, <1>8
<1> QED
  BY <1>2, <1>4, <1>5, <1>9

LEMMA SpelledType ==
    ASSUME HashConstants, NEW iv \in Seq(Blocks)
    PROVE  Spelled(iv, Len(iv)) \in [1..Compressed(iv) -> Values]
<1>1. PICK n \in Nat : n = Compressed(iv) /\ n = BLOCK_SIZE * Len(iv)
  BY CompressedNat DEF Compressed
<1>2. \A j \in 1..n : InBlocks(iv, j) \in Values
  BY <1>1, BlockByte
<1> QED
  BY <1>1, <1>2 DEF Spelled

(* Cut into blocks again, they are the blocks. *)
LEMMA BlocksOfSpelled ==
    ASSUME HashConstants, NEW iv \in Seq(Blocks)
    PROVE  Whole!BlocksOf(Spelled(iv, Len(iv))) = iv
<1>1. BLOCK_SIZE \in Nat /\ BLOCK_SIZE > 8
  BY BlockSize
<1>2. PICK l \in Nat : l = Len(iv)
  OBVIOUS
<1>3. PICK n \in Nat : n = Compressed(iv) /\ n = BLOCK_SIZE * l
  BY <1>2, CompressedNat DEF Compressed
<1>4. PICK p \in [1..n -> Values] : p = Spelled(iv, Len(iv))
  BY <1>3, SpelledType
<1>5. p \in Seq(Values) /\ Len(p) = n
  BY <1>4
<1>6. n \div BLOCK_SIZE = l
  <2>1. n = BLOCK_SIZE * l + 0 /\ 0 \in 0..(BLOCK_SIZE - 1)
    BY <1>1, <1>3
  <2> QED
    BY <2>1, PlaceAfter
<1>7. ASSUME NEW q \in 1..l
      PROVE  SubSeq(p, (q - 1) * BLOCK_SIZE + 1, q * BLOCK_SIZE) = iv[q]
  <2>1. PICK k \in Nat : k = q - 1 /\ q = k + 1 /\ k < l
    <3>1. q - 1 \in Nat /\ q = (q - 1) + 1 /\ q - 1 < l
      OBVIOUS
    <3> QED
      BY <3>1
  <2>2. PICK f \in Nat : f = k * BLOCK_SIZE /\ f = BLOCK_SIZE * k /\ q * BLOCK_SIZE = f + BLOCK_SIZE
    <3>1. /\ k * BLOCK_SIZE \in Nat /\ k * BLOCK_SIZE = BLOCK_SIZE * k
          /\ (k + 1) * BLOCK_SIZE = k * BLOCK_SIZE + BLOCK_SIZE
      BY <1>1, SMT
    <3> QED
      BY <2>1, <3>1
  <2>3. f + BLOCK_SIZE <= n
    <3>1. PICK d \in Nat : l = k + 1 + d
      <4>1. l - k - 1 \in Nat /\ l = k + 1 + (l - k - 1)
        BY <2>1
      <4> QED
        BY <4>1
    <3>2. BLOCK_SIZE * (k + 1 + d) = BLOCK_SIZE * k + BLOCK_SIZE + BLOCK_SIZE * d
          /\ BLOCK_SIZE * d \in Nat /\ BLOCK_SIZE * k \in Nat
      BY <1>1, SMT
    <3>3. PICK e \in Nat : e = BLOCK_SIZE * d
      BY <3>2
    <3>4. n = f + BLOCK_SIZE + e
      BY <1>3, <2>2, <3>1, <3>2, <3>3
    <3> QED
      BY <1>1, <3>4
  <2>4. PICK w : w = SubSeq(p, f + 1, f + BLOCK_SIZE)
    OBVIOUS
  <2>5. /\ w \in Seq(Values) /\ Len(w) = BLOCK_SIZE
        /\ \A i \in 1..BLOCK_SIZE : w[i] = p[f + i]
    BY <1>1, <1>5, <2>3, <2>4
  <2>6. iv[q] = [i \in 1..BLOCK_SIZE |-> iv[q][i]]
    <3>1. iv[q] \in Blocks
      BY <1>2
    <3> QED
      BY <3>1 DEF Blocks
  <2>7. ASSUME NEW i \in 1..BLOCK_SIZE
        PROVE  p[f + i] = iv[q][i]
    <3>1. PICK j \in 1..n : j = f + i
      BY <1>1, <2>3
    <3>2. p[j] = InBlocks(iv, j)
      BY <1>2, <1>3, <1>4 DEF Spelled
    <3>3. PICK r \in 0..(BLOCK_SIZE - 1) : r = i - 1 /\ r + 1 = i /\ j - 1 = f + r
      <4>1. i - 1 \in 0..(BLOCK_SIZE - 1) /\ (i - 1) + 1 = i /\ j - 1 = f + (i - 1)
        BY <1>1, <3>1
      <4> QED
        BY <4>1
    <3>4. (j - 1) \div BLOCK_SIZE = k /\ (j - 1) % BLOCK_SIZE = r
      BY <2>2, <3>3, PlaceAfter
    <3> QED
      BY <2>1, <3>1, <3>2, <3>3, <3>4 DEF InBlocks
  <2>8. w = iv[q]
    BY <2>5, <2>6, <2>7
  <2> QED
    BY <2>1, <2>2, <2>4, <2>8
<1>8. Whole!BlocksOf(p) = [q \in 1..l |-> SubSeq(p, (q - 1) * BLOCK_SIZE + 1, q * BLOCK_SIZE)]
  BY <1>5, <1>6 DEF Whole!BlocksOf
<1>9. iv = [q \in 1..l |-> iv[q]]
  BY <1>2
<1> QED
  BY <1>4, <1>7, <1>8, <1>9

-----------------------------------------------------------------------------
(***************************************************************************)
(* Padding.  Byte j of a message m of len bytes, padded to total bytes.    *)
(***************************************************************************)
PaddedByte(m, len, total, j) ==
    IF j <= len THEN m[j]
    ELSE IF j = len + 1 THEN 128
    ELSE IF j <= total - 4 THEN 0
    ELSE LengthByte(len, total - j)

PadZeros(len) == (-(len + 1 + LENGTH_SIZE)) % BLOCK_SIZE

LEMMA PaddedBytes ==
    ASSUME HashConstants, NEW len \in Nat, NEW m \in [1..len -> Values], NEW zeros \in Nat,
           zeros = PadZeros(len),
           NEW total \in Nat, total = len + 1 + zeros + LENGTH_SIZE
    PROVE  Whole!Padded(m) = [j \in 1..total |-> PaddedByte(m, len, total, j)]
<1>1. LENGTH_SIZE \in Nat /\ LENGTH_SIZE >= 8
  BY BlockSize
<1>2. Len(m) = len
  OBVIOUS
<1>3. PICK one, zs, lf :
          /\ one = <<128>> /\ zs = [i \in 1..zeros |-> 0]
          /\ lf = [i \in 1..LENGTH_SIZE |->
                      IF i <= LENGTH_SIZE - 4 THEN 0 ELSE LengthByte(len, LENGTH_SIZE - i)]
  OBVIOUS
<1>4. Whole!LengthField(len) = lf
  BY <1>3 DEF Whole!LengthField, LengthByte
<1>5. Whole!Padded(m) = m \o one \o zs \o lf
  BY <1>2, <1>3, <1>4 DEF Whole!Padded, PadZeros
<1>6. PICK a : a = [j \in 1..(len + 1) |-> IF j <= len THEN m[j] ELSE 128]
  OBVIOUS
<1>7. m \o one = a
  <2>1. m = [i \in 1..len |-> m[i]] /\ one = [i \in 1..1 |-> one[i]]
    BY <1>3
  <2>2. m \o one = [i \in 1..(len + 1) |-> IF i <= len THEN m[i] ELSE one[i - len]]
    BY <2>1, Concatenation
  <2>3. \A i \in 1..(len + 1) : ~(i <= len) => one[i - len] = 128
    BY <1>3
  <2> QED
    BY <1>6, <2>2, <2>3
<1>8. PICK b : b = [j \in 1..(len + 1 + zeros) |-> IF j <= len + 1 THEN a[j] ELSE 0]
  OBVIOUS
<1>9. a \o zs = b
  <2>1. a = [i \in 1..(len + 1) |-> a[i]] /\ zs = [i \in 1..zeros |-> zs[i]] /\ len + 1 \in Nat
    BY <1>3, <1>6
  <2>2. a \o zs = [i \in 1..(len + 1 + zeros) |-> IF i <= len + 1 THEN a[i] ELSE zs[i - (len + 1)]]
    BY <2>1, Concatenation
  <2>3. \A i \in 1..(len + 1 + zeros) : ~(i <= len + 1) => zs[i - (len + 1)] = 0
    BY <1>3
  <2> QED
    BY <1>8, <2>2, <2>3
<1>10. PICK k \in Nat : k = len + 1 + zeros /\ total = k + LENGTH_SIZE
  <2>1. len + 1 + zeros \in Nat
    OBVIOUS
  <2> QED
    BY <2>1
<1>11. b \o lf = [i \in 1..(k + LENGTH_SIZE) |-> IF i <= k THEN b[i] ELSE lf[i - k]]
  <2>1. PICK l \in Nat : l = LENGTH_SIZE
    BY <1>1
  <2>2. b = [i \in 1..k |-> b[i]] /\ lf = [i \in 1..l |-> lf[i]]
    BY <1>3, <1>8, <1>10, <2>1
  <2>3. b \o lf = [i \in 1..(k + l) |-> IF i <= k THEN b[i] ELSE lf[i - k]]
    BY <2>2, Concatenation
  <2> QED
    BY <2>1, <2>3
<1>12. ASSUME NEW j \in 1..(k + LENGTH_SIZE)
       PROVE  (IF j <= k THEN b[j] ELSE lf[j - k]) = PaddedByte(m, len, total, j)
  <2>1. CASE j <= len
    <3>1. j \in 1..(len + 1) /\ j \in 1..(len + 1 + zeros) /\ j <= k /\ j <= len + 1
      BY <1>10, <2>1
    <3> QED
      BY <1>6, <1>8, <2>1, <3>1 DEF PaddedByte
  <2>2. CASE j = len + 1
    <3>1. j \in 1..(len + 1) /\ j \in 1..(len + 1 + zeros) /\ j <= k /\ j <= len + 1 /\ ~(j <= len)
      BY <1>10, <2>2
    <3> QED
      BY <1>6, <1>8, <2>2, <3>1 DEF PaddedByte
  <2>3. CASE ~(j <= len + 1) /\ j <= k
    <3>1. /\ j \in 1..(len + 1 + zeros) /\ ~(j <= len) /\ j # len + 1
          /\ j <= total - 4
      BY <1>1, <1>10, <2>3
    <3> QED
      BY <1>8, <2>3, <3>1 DEF PaddedByte
  <2>4. CASE ~(j <= k)
    <3>1. PICK i \in 1..LENGTH_SIZE : i = j - k /\ j = i + k
      <4>1. j - k \in 1..LENGTH_SIZE /\ j = (j - k) + k
        BY <1>1, <2>4
      <4> QED
        BY <4>1
    <3>2. /\ ~(j <= len) /\ j # len + 1
          /\ (i <= LENGTH_SIZE - 4 <=> j <= total - 4)
          /\ LENGTH_SIZE - i = total - j
      <4>1. PICK l \in Nat : l = LENGTH_SIZE
        BY <1>1
      <4>2. total = k + l /\ len + 1 <= k
        BY <1>10, <4>1
      <4>3. i \in Nat /\ j \in Nat
        BY <1>1
      <4>4. ~(j <= len) /\ j # len + 1 /\ (i <= l - 4 <=> j <= total - 4) /\ l - i = total - j
        BY <2>4, <3>1, <4>2, <4>3
      <4> QED
        BY <4>1, <4>4
    <3>3. lf[i] = IF i <= LENGTH_SIZE - 4 THEN 0 ELSE LengthByte(len, LENGTH_SIZE - i)
      BY <1>3
    <3> QED
      BY <2>4, <3>1, <3>2, <3>3 DEF PaddedByte
  <2>5. j <= len \/ j = len + 1 \/ (~(j <= len + 1) /\ j <= k) \/ ~(j <= k)
    BY <1>10
  <2> QED
    BY <2>1, <2>2, <2>3, <2>4, <2>5
<1> QED
  BY <1>5, <1>7, <1>9, <1>10, <1>11, <1>12

-----------------------------------------------------------------------------
(* What the padding of the code makes of the struct, field by field. *)
Count(t) == [t EXCEPT !.bits_hashed = @ + 8 * t.leftover_offset]

Cleared(left, from, to) ==
    [i \in DOMAIN left |-> IF from <= i /\ i < to THEN 0 ELSE left[i]]

WithLength(left, len) ==
    [i \in DOMAIN left |->
        IF i < BLOCK_SIZE - 8 THEN left[i]
        ELSE IF i < BLOCK_SIZE - 4 THEN 0
        ELSE LengthByte(len, BLOCK_SIZE - 1 - i)]

LEMMA CountStruct ==
    ASSUME NEW iv, NEW bits, NEW left, NEW o
    PROVE  Count(Struct(iv, bits, left, o)) = Struct(iv, bits + 8 * o, left, o)
<1>1. PICK t : t = Struct(iv, bits, left, o)
  OBVIOUS
<1>2. t.leftover_offset = o /\ t.bits_hashed = bits
  BY <1>1, StructFields
<1>3. PICK x : x = bits + 8 * o
  OBVIOUS
<1>4. Count(t) = [t EXCEPT !.bits_hashed = x]
  BY <1>2, <1>3 DEF Count
<1>5. [t EXCEPT !.bits_hashed = x] = Struct(iv, x, left, o)
  BY <1>1 DEF Struct
<1> QED
  BY <1>1, <1>3, <1>4, <1>5

LEMMA ClearStruct ==
    ASSUME NEW iv, NEW bits, NEW left, NEW o, NEW from, NEW to
    PROVE  Clear(Struct(iv, bits, left, o), from, to)
              = Struct(iv, bits, Cleared(left, from, to), o)
<1>1. PICK t : t = Struct(iv, bits, left, o)
  OBVIOUS
<1>2. t.leftover = left
  BY <1>1, StructFields
<1>3. PICK x : x = Cleared(left, from, to)
  OBVIOUS
<1>4. Clear(t, from, to) = [t EXCEPT !.leftover = x]
  BY <1>2, <1>3 DEF Clear, Cleared
<1>5. [t EXCEPT !.leftover = x] = Struct(iv, bits, x, o)
  BY <1>1 DEF Struct
<1> QED
  BY <1>1, <1>3, <1>4, <1>5

LEMMA LengthStruct ==
    ASSUME NEW iv, NEW len, NEW left, NEW o
    PROVE  WriteLength(Struct(iv, 8 * len, left, o))
              = Struct(iv, 8 * len, WithLength(left, len), o)
<1>1. PICK t, bits : t = Struct(iv, bits, left, o) /\ bits = 8 * len
  OBVIOUS
<1>2. t.leftover = left /\ t.bits_hashed = 8 * len
  BY <1>1, StructFields
<1>3. PICK x : x = WithLength(left, len)
  OBVIOUS
<1>4. WriteLength(t) = [t EXCEPT !.leftover = x]
  BY <1>2, <1>3 DEF WriteLength, WithLength, LengthByte
<1>5. [t EXCEPT !.leftover = x] = Struct(iv, bits, x, o)
  BY <1>1 DEF Struct
<1> QED
  BY <1>1, <1>3, <1>4, <1>5

IsCleared(new, left, from, to) ==
    \A i \in 0..(BLOCK_SIZE - 1) : new[i] = IF from <= i /\ i < to THEN 0 ELSE left[i]

HasLength(new, left, len) ==
    \A i \in 0..(BLOCK_SIZE - 1) :
        new[i] = IF i < BLOCK_SIZE - 8 THEN left[i]
                 ELSE IF i < BLOCK_SIZE - 4 THEN 0
                 ELSE LengthByte(len, BLOCK_SIZE - 1 - i)

IsMarked(new, left, k) ==
    \A i \in 0..(BLOCK_SIZE - 1) : new[i] = IF i = k THEN 128 ELSE left[i]

LEMMA BufferTypes ==
    ASSUME HashConstants, NEW left \in Buffers, NEW len \in Nat
    PROVE  /\ \A from \in Int, to \in Int :
                 /\ Cleared(left, from, to) \in Buffers
                 /\ IsCleared(Cleared(left, from, to), left, from, to)
           /\ WithLength(left, len) \in Buffers
           /\ HasLength(WithLength(left, len), left, len)
           /\ \A k \in 0..(BLOCK_SIZE - 1) :
                 /\ Replaced(left, k, 128) \in Buffers
                 /\ IsMarked(Replaced(left, k, 128), left, k)
<1>1. 0 \in Values /\ 128 \in Values /\ BLOCK_SIZE \in Nat
  BY BlockSize DEF Values
<1>2. DOMAIN left = 0..(BLOCK_SIZE - 1) /\ \A i \in 0..(BLOCK_SIZE - 1) : left[i] \in Values
  BY DEF Buffers
<1>3. ASSUME NEW from \in Int, NEW to \in Int
      PROVE  /\ Cleared(left, from, to) \in Buffers
             /\ IsCleared(Cleared(left, from, to), left, from, to)
  <2>1. Cleared(left, from, to)
          = [i \in 0..(BLOCK_SIZE - 1) |-> IF from <= i /\ i < to THEN 0 ELSE left[i]]
    BY <1>2 DEF Cleared
  <2>2. \A i \in 0..(BLOCK_SIZE - 1) : (IF from <= i /\ i < to THEN 0 ELSE left[i]) \in Values
    BY <1>1, <1>2
  <2> QED
    BY <2>1, <2>2 DEF Buffers, IsCleared
<1>4. ASSUME NEW i \in 0..(BLOCK_SIZE - 1)
      PROVE  LengthByte(len, BLOCK_SIZE - 1 - i) \in Values
  <2>1. PICK k \in Int : k = BLOCK_SIZE - 1 - i
    BY <1>1
  <2>2. LengthByte(len, k) \in Values
    BY <2>1 DEF Values
  <2> QED
    BY <2>1, <2>2
<1>5. WithLength(left, len) \in Buffers /\ HasLength(WithLength(left, len), left, len)
  <2>1. WithLength(left, len)
          = [i \in 0..(BLOCK_SIZE - 1) |->
                IF i < BLOCK_SIZE - 8 THEN left[i]
                ELSE IF i < BLOCK_SIZE - 4 THEN 0
                ELSE LengthByte(len, BLOCK_SIZE - 1 - i)]
    BY <1>2 DEF WithLength
  <2>2. \A i \in 0..(BLOCK_SIZE - 1) :
            (IF i < BLOCK_SIZE - 8 THEN left[i]
             ELSE IF i < BLOCK_SIZE - 4 THEN 0
             ELSE LengthByte(len, BLOCK_SIZE - 1 - i)) \in Values
    BY <1>1, <1>2, <1>4
  <2> QED
    BY <2>1, <2>2 DEF Buffers, HasLength
<1>6. ASSUME NEW k \in 0..(BLOCK_SIZE - 1)
      PROVE  Replaced(left, k, 128) \in Buffers /\ IsMarked(Replaced(left, k, 128), left, k)
  <2>1. Replaced(left, k, 128) = [i \in 0..(BLOCK_SIZE - 1) |-> IF i = k THEN 128 ELSE left[i]]
    BY <1>2 DEF Replaced
  <2>2. \A i \in 0..(BLOCK_SIZE - 1) : (IF i = k THEN 128 ELSE left[i]) \in Values
    BY <1>1, <1>2
  <2> QED
    BY <2>1, <2>2 DEF Buffers, IsMarked
<1> QED
  BY <1>3, <1>5, <1>6

-----------------------------------------------------------------------------
(* The blocks that spell the padded message are its digest. *)
SpellsPadded(iw, m, len, total) ==
    \A j \in 1..total : InBlocks(iw, j) = PaddedByte(m, len, total, j)

LEMMA DigestIs ==
    ASSUME HashConstants, NEW len \in Nat, NEW m \in [1..len -> Values],
           NEW iw \in Seq(Blocks), NEW total \in Nat, total = Compressed(iw),
           NEW zeros \in Nat, zeros = PadZeros(len), total = len + 1 + zeros + LENGTH_SIZE,
           SpellsPadded(iw, m, len, total)
    PROVE  Whole!Digest(m) = iw
<1>1. Whole!Padded(m) = [j \in 1..total |-> PaddedByte(m, len, total, j)]
  BY PaddedBytes
<1>2. Spelled(iw, Len(iw)) = [j \in 1..total |-> InBlocks(iw, j)]
  BY DEF Spelled, Compressed
<1>3. Whole!Padded(m) = Spelled(iw, Len(iw))
  BY <1>1, <1>2 DEF SpellsPadded
<1> QED
  BY <1>3, BlocksOfSpelled DEF Whole!Digest

(* The zeros that fill the block, and those that fill it and one more. *)
LEMMA ZerosFill ==
    ASSUME HashConstants, NEW l \in Nat, NEW o \in 0..(BLOCK_SIZE - 1)
    PROVE  /\ o + 1 <= BLOCK_SIZE - LENGTH_SIZE
                => PadZeros(BLOCK_SIZE * l + o) = BLOCK_SIZE - o - 1 - LENGTH_SIZE
           /\ ~(o + 1 <= BLOCK_SIZE - LENGTH_SIZE)
                => PadZeros(BLOCK_SIZE * l + o) = 2 * BLOCK_SIZE - o - 1 - LENGTH_SIZE
<1>1. PICK d \in Nat, ls \in Nat : /\ d = BLOCK_SIZE /\ ls = LENGTH_SIZE
                                   /\ d > 8 /\ 8 <= ls /\ ls < d
  BY BlockSize
<1>2. PICK p \in Nat : p = d * l
  <2>1. d * l \in Nat
    BY SMT
  <2> QED
    BY <2>1
<1>3. (-(l + 1)) * d = -p - d /\ (-(l + 2)) * d = -p - 2 * d
  BY <1>2, SMT
<1>4. o \in 0..(d - 1)
  BY <1>1
<1>5. ASSUME o + 1 <= d - ls
      PROVE  (-(p + o + 1 + ls)) % d = d - o - 1 - ls
  <2>1. d - o - 1 - ls \in 0..(d - 1) /\ -(l + 1) \in Int /\ d > 0
    BY <1>1, <1>4, <1>5
  <2>2. ((-(l + 1)) * d + (d - o - 1 - ls)) % d = d - o - 1 - ls
    BY <2>1, DivModUnique
  <2>3. (-(l + 1)) * d + (d - o - 1 - ls) = -(p + o + 1 + ls)
    BY <1>3, <1>4
  <2> QED
    BY <2>2, <2>3
<1>6. ASSUME ~(o + 1 <= d - ls)
      PROVE  (-(p + o + 1 + ls)) % d = 2 * d - o - 1 - ls
  <2>1. 2 * d - o - 1 - ls \in 0..(d - 1) /\ -(l + 2) \in Int /\ d > 0
    BY <1>1, <1>4, <1>6
  <2>2. ((-(l + 2)) * d + (2 * d - o - 1 - ls)) % d = 2 * d - o - 1 - ls
    BY <2>1, DivModUnique
  <2>3. (-(l + 2)) * d + (2 * d - o - 1 - ls) = -(p + o + 1 + ls)
    BY <1>3, <1>4
  <2> QED
    BY <2>2, <2>3
<1>7. PadZeros(BLOCK_SIZE * l + o) = (-(p + o + 1 + ls)) % d
  BY <1>1, <1>2 DEF PadZeros
<1> QED
  BY <1>1, <1>5, <1>6, <1>7

(* Where the pieces of a padded message of len = n + o bytes lie: in one    *)
(* block of d bytes that starts after n bytes, and in two.                   *)
Sizes(d, ls, n, o, len) ==
    /\ d \in Nat /\ ls \in Nat /\ d > 8 /\ 8 <= ls /\ ls < d
    /\ n \in Nat /\ o \in Nat /\ o < d /\ len = n + o

InOne(d, ls, n, o, len, total, zeros) ==
    /\ Sizes(d, ls, n, o, len) /\ o + 1 <= d - ls
    /\ total = n + d /\ zeros = d - o - 1 - ls

InTwo(d, ls, n, o, len, mid, total, zeros) ==
    /\ Sizes(d, ls, n, o, len) /\ ~(o + 1 <= d - ls)
    /\ mid = n + d /\ total = mid + d /\ zeros = 2 * d - o - 1 - ls

At(d, n, i, j) == i \in 0..(d - 1) /\ j = n + i + 1

OnlyPlace(d, o, len, total, i, j) ==
    /\ i = o <=> j = len + 1
    /\ i < d - 4 <=> j <= total - 4
    /\ d - 1 - i = total - j
    /\ j <= len <=> i < o

FirstPlace(o, len, total, i, j) ==
    /\ i = o <=> j = len + 1
    /\ j <= total - 4
    /\ j <= len <=> i < o

SecondPlace(d, len, total, i, j) ==
    /\ ~(j <= len) /\ j # len + 1
    /\ i < d - 4 <=> j <= total - 4
    /\ d - 1 - i = total - j

LEMMA TotalOfOne ==
    ASSUME NEW d, NEW ls, NEW n, NEW o, NEW len, NEW total, NEW zeros,
           InOne(d, ls, n, o, len, total, zeros)
    PROVE  total = len + 1 + zeros + ls
  BY DEF InOne, Sizes

LEMMA PlacesInOne ==
    ASSUME NEW d, NEW ls, NEW n, NEW o, NEW len, NEW total, NEW zeros,
           InOne(d, ls, n, o, len, total, zeros), NEW i, NEW j, At(d, n, i, j)
    PROVE  OnlyPlace(d, o, len, total, i, j)
  BY DEF InOne, Sizes, At, OnlyPlace

LEMMA PlacesInTwo ==
    ASSUME NEW d, NEW ls, NEW n, NEW o, NEW len, NEW mid, NEW total, NEW zeros,
           InTwo(d, ls, n, o, len, mid, total, zeros), NEW i, NEW j, At(d, n, i, j)
    PROVE  FirstPlace(o, len, total, i, j)
  BY DEF InTwo, Sizes, At, FirstPlace

LEMMA PlacesInLast ==
    ASSUME NEW d, NEW ls, NEW n, NEW o, NEW len, NEW mid, NEW total, NEW zeros,
           InTwo(d, ls, n, o, len, mid, total, zeros), NEW i, NEW j, At(d, mid, i, j)
    PROVE  SecondPlace(d, len, total, i, j)
  BY DEF InTwo, Sizes, At, SecondPlace

LEMMA TotalOfTwo ==
    ASSUME NEW d, NEW ls, NEW n, NEW o, NEW len, NEW mid, NEW total, NEW zeros,
           InTwo(d, ls, n, o, len, mid, total, zeros)
    PROVE  total = len + 1 + zeros + ls
  BY DEF InTwo, Sizes

LEMMA BeforeTwo ==
    ASSUME NEW d, NEW ls, NEW n, NEW o, NEW len, NEW mid, NEW total, NEW zeros,
           InTwo(d, ls, n, o, len, mid, total, zeros), NEW j \in 1..n
    PROVE  j <= len /\ j \in 1..(n + o) /\ j \in 1..mid /\ j <= mid
  BY DEF InTwo, Sizes

LEMMA PlaceIn ==
    ASSUME NEW d \in Nat, NEW n \in Nat, NEW j \in Nat, ~(j <= n), j <= n + d
    PROVE  \E i \in 0..(d - 1) : i = j - 1 - n /\ At(d, n, i, j)
<1>1. j - 1 - n \in 0..(d - 1) /\ j = n + (j - 1 - n) + 1
  OBVIOUS
<1> QED
  BY <1>1 DEF At

(* The message so far: the blocks of iv and o bytes of lo. *)
SoFar(m, iv, lo, n, o) ==
    m = [j \in 1..(n + o) |-> IF j <= n THEN InBlocks(iv, j) ELSE lo[j - 1 - n]]

Held(m, iv, lo, n, o, len) ==
    /\ m \in [1..(n + o) -> Values] /\ SoFar(m, iv, lo, n, o)
    /\ n = Compressed(iv) /\ len = n + o

(* Its last block has room for the 128 that marks the end, and the length.   *)
Fits(o) == o + 1 <= BLOCK_SIZE - LENGTH_SIZE

(* The last block of a message with room for the length field. *)
LastBlock(left, lo, o, len) ==
    \A i \in 0..(BLOCK_SIZE - 1) :
        left[i] = IF i < o THEN lo[i]
                  ELSE IF i = o THEN 128
                  ELSE IF i < BLOCK_SIZE - 4 THEN 0
                  ELSE LengthByte(len, BLOCK_SIZE - 1 - i)

(* The last but one of a message without, and the last, of the length alone. *)
MarkedBlock(left, lo, o) ==
    \A i \in 0..(BLOCK_SIZE - 1) :
        left[i] = IF i < o THEN lo[i] ELSE IF i = o THEN 128 ELSE 0

LengthBlock(left, len) ==
    \A i \in 0..(BLOCK_SIZE - 1) :
        left[i] = IF i < BLOCK_SIZE - 4 THEN 0 ELSE LengthByte(len, BLOCK_SIZE - 1 - i)

FirstOfTwo(b, lo, o) == \E left : Filled(b, left) /\ MarkedBlock(left, lo, o)

SecondOfTwo(b, len) == \E left : Filled(b, left) /\ LengthBlock(left, len)

LEMMA DigestInOne ==
    ASSUME HashConstants, NEW iv \in Seq(Blocks), NEW lo \in Buffers,
           NEW n \in Nat, NEW o \in 0..(BLOCK_SIZE - 1), NEW len \in Nat,
           Fits(o), NEW m, Held(m, iv, lo, n, o, len),
           NEW b \in Blocks, NEW left, Filled(b, left), LastBlock(left, lo, o, len)
    PROVE  Whole!Digest(m) = Append(iv, b)
<1> USE DEF Fits, Held
<1>1. PICK d \in Nat, ls \in Nat, total \in Nat, zeros \in Nat :
          /\ BLOCK_SIZE = d /\ LENGTH_SIZE = ls /\ len = n + o
          /\ total = n + d /\ zeros = d - o - 1 - ls
          /\ InOne(d, ls, n, o, len, total, zeros)
  <2>1. PICK d \in Nat, ls \in Nat : /\ BLOCK_SIZE = d /\ LENGTH_SIZE = ls
                                     /\ d > 8 /\ 8 <= ls /\ ls < d
    BY BlockSize
  <2>2. o \in Nat /\ o < d /\ o + 1 <= d - ls
    BY <2>1
  <2>3. n + o \in Nat /\ n + d \in Nat /\ d - o - 1 - ls \in Nat
    BY <2>1, <2>2
  <2> QED
    BY <2>1, <2>2, <2>3 DEF InOne, Sizes
<1>2. PICK iw \in Seq(Blocks) : iw = Append(iv, b) /\ Compressed(iw) = total
  BY <1>1, AppendedBlocks
<1>3. zeros = PadZeros(len)
  <2>1. PICK l \in Nat : n = BLOCK_SIZE * l
    BY CompressedNat DEF Compressed
  <2>2. PadZeros(BLOCK_SIZE * l + o) = BLOCK_SIZE - o - 1 - LENGTH_SIZE
    BY <2>1, ZerosFill
  <2> QED
    BY <1>1, <2>1, <2>2
<1>4. InOne(d, ls, n, o, len, total, zeros)
  BY <1>1
<1>5. total = len + 1 + zeros + ls
  BY <1>4, TotalOfOne
<1>6. total = len + 1 + zeros + LENGTH_SIZE
  BY <1>1, <1>5, Zenon
<1>7. ASSUME NEW j \in 1..total
      PROVE  InBlocks(iw, j) = PaddedByte(m, len, total, j)
  <2>1. InBlocks(iw, j) = IF j <= n THEN InBlocks(iv, j) ELSE left[j - 1 - n]
    <3>1. \A k \in 1..(n + BLOCK_SIZE) :
              InBlocks(Append(iv, b), k) = IF k <= n THEN InBlocks(iv, k) ELSE left[k - 1 - n]
      BY NextBlock
    <3>2. total = n + BLOCK_SIZE
      BY <1>1, Zenon
    <3> QED
      BY <1>2, <3>1, <3>2, Zenon
  <2>2. j \in Nat /\ j \in 1..(n + d)
    BY <1>1
  <2>3. CASE j <= n
    <3>1. j <= len /\ j \in 1..(n + o)
      BY <1>1, <2>2, <2>3
    <3>2. m[j] = InBlocks(iv, j)
      BY <2>3, <3>1, Zenon DEF SoFar
    <3> QED
      BY <2>1, <2>3, <3>1, <3>2, Zenon DEF PaddedByte
  <2>4. CASE ~(j <= n)
    <3>1. PICK i \in 0..(d - 1) : i = j - 1 - n /\ At(d, n, i, j)
      <4>1. j <= n + d
        BY <2>2
      <4> QED
        BY <2>2, <2>4, <4>1, PlaceIn
    <3>2. InBlocks(iw, j) = left[i] /\ i \in 0..(BLOCK_SIZE - 1)
      BY <1>1, <2>1, <2>4, <3>1, Zenon
    <3>3. /\ i = o <=> j = len + 1
          /\ i < d - 4 <=> j <= total - 4
          /\ d - 1 - i = total - j
          /\ j <= len <=> i < o
      <4>1. OnlyPlace(d, o, len, total, i, j)
        BY <1>4, <3>1, PlacesInOne
      <4> QED
        BY <4>1 DEF OnlyPlace
    <3>4. left[i] = IF i < o THEN lo[i]
                    ELSE IF i = o THEN 128
                    ELSE IF i < d - 4 THEN 0
                    ELSE LengthByte(len, d - 1 - i)
      BY <1>1, <3>2, Zenon DEF LastBlock
    <3>5. CASE i < o
      <4>1. j \in 1..(n + o)
        BY <1>1, <2>2, <3>3, <3>5
      <4>2. m[j] = lo[i]
        BY <2>4, <3>1, <4>1, Zenon DEF SoFar
      <4> QED
        BY <3>2, <3>3, <3>4, <3>5, <4>2, Zenon DEF PaddedByte
    <3>6. CASE ~(i < o)
      BY <3>2, <3>3, <3>4, <3>6, Zenon DEF PaddedByte
    <3> QED
      BY <3>5, <3>6
  <2> QED
    BY <2>3, <2>4
<1>8. m \in [1..len -> Values] /\ SpellsPadded(iw, m, len, total)
  BY <1>1, <1>7, Zenon DEF SpellsPadded
<1>9. Whole!Digest(m) = iw
  BY <1>2, <1>3, <1>6, <1>8, DigestIs
<1> QED
  BY <1>2, <1>9

LEMMA DigestInTwo ==
    ASSUME HashConstants, NEW iv \in Seq(Blocks), NEW lo \in Buffers,
           NEW n \in Nat, NEW o \in 0..(BLOCK_SIZE - 1), NEW len \in Nat,
           ~Fits(o), NEW m, Held(m, iv, lo, n, o, len),
           NEW b1 \in Blocks, FirstOfTwo(b1, lo, o), NEW b2 \in Blocks, SecondOfTwo(b2, len)
    PROVE  Whole!Digest(m) = Append(Append(iv, b1), b2)
<1> USE DEF Fits, Held
<1>1. PICK left1, left2 : /\ Filled(b1, left1) /\ MarkedBlock(left1, lo, o)
                           /\ Filled(b2, left2) /\ LengthBlock(left2, len)
  BY DEF FirstOfTwo, SecondOfTwo
<1>2. PICK d \in Nat, ls \in Nat, mid \in Nat, total \in Nat, zeros \in Nat :
          /\ BLOCK_SIZE = d /\ LENGTH_SIZE = ls /\ len = n + o
          /\ mid = n + d /\ total = mid + d /\ zeros = 2 * d - o - 1 - ls
          /\ InTwo(d, ls, n, o, len, mid, total, zeros)
  <2>1. PICK d \in Nat, ls \in Nat : /\ BLOCK_SIZE = d /\ LENGTH_SIZE = ls
                                     /\ d > 8 /\ 8 <= ls /\ ls < d
    BY BlockSize
  <2>2. o \in Nat /\ o < d /\ ~(o + 1 <= d - ls)
    BY <2>1
  <2>3. n + o \in Nat /\ n + d \in Nat /\ (n + d) + d \in Nat /\ 2 * d - o - 1 - ls \in Nat
    BY <2>1, <2>2
  <2> QED
    BY <2>1, <2>2, <2>3 DEF InTwo, Sizes
<1>3. PICK iu \in Seq(Blocks) : iu = Append(iv, b1) /\ Compressed(iu) = mid
  BY <1>2, AppendedBlocks
<1>4. PICK iw \in Seq(Blocks) : iw = Append(iu, b2) /\ Compressed(iw) = total
  <2>1. Append(iu, b2) \in Seq(Blocks) /\ Compressed(Append(iu, b2)) = Compressed(iu) + BLOCK_SIZE
    BY AppendedBlocks
  <2>2. Compressed(Append(iu, b2)) = total
    BY <1>2, <1>3, <2>1, Zenon
  <2> QED
    BY <2>1, <2>2
<1>5. zeros = PadZeros(len)
  <2>1. PICK l \in Nat : n = BLOCK_SIZE * l
    BY CompressedNat DEF Compressed
  <2>2. PadZeros(BLOCK_SIZE * l + o) = 2 * BLOCK_SIZE - o - 1 - LENGTH_SIZE
    BY <2>1, ZerosFill
  <2> QED
    BY <1>2, <2>1, <2>2
<1>6. InTwo(d, ls, n, o, len, mid, total, zeros)
  BY <1>2
<1>7. total = len + 1 + zeros + ls
  BY <1>6, TotalOfTwo
<1>8. total = len + 1 + zeros + LENGTH_SIZE
  BY <1>2, <1>7, Zenon
<1>9. ASSUME NEW j \in 1..total
      PROVE  InBlocks(iw, j) = PaddedByte(m, len, total, j)
  <2>1. InBlocks(iw, j) = IF j <= mid THEN InBlocks(iu, j) ELSE left2[j - 1 - mid]
    <3>1. mid = Compressed(iu)
      BY <1>3
    <3>2. \A k \in 1..(mid + BLOCK_SIZE) :
              InBlocks(Append(iu, b2), k) = IF k <= mid THEN InBlocks(iu, k) ELSE left2[k - 1 - mid]
      BY <1>1, <3>1, NextBlock
    <3>3. total = mid + BLOCK_SIZE
      BY <1>2, Zenon
    <3> QED
      BY <1>4, <3>2, <3>3, Zenon
  <2>2. ASSUME j \in 1..mid
        PROVE  InBlocks(iu, j) = IF j <= n THEN InBlocks(iv, j) ELSE left1[j - 1 - n]
    <3>1. \A k \in 1..(n + BLOCK_SIZE) :
              InBlocks(Append(iv, b1), k) = IF k <= n THEN InBlocks(iv, k) ELSE left1[k - 1 - n]
      BY <1>1, NextBlock
    <3>2. mid = n + BLOCK_SIZE
      BY <1>2, Zenon
    <3> QED
      BY <1>3, <2>2, <3>1, <3>2, Zenon
  <2>3. j \in Nat /\ j \in 1..(mid + d)
    BY <1>2
  <2>4. CASE j <= n
    <3>1. j <= len /\ j \in 1..(n + o) /\ j <= mid /\ j \in 1..mid
      <4>1. j \in 1..n
        BY <2>3, <2>4
      <4> QED
        BY <1>6, <4>1, BeforeTwo, Zenon
    <3>2. m[j] = InBlocks(iv, j)
      BY <2>4, <3>1, Zenon DEF SoFar
    <3> QED
      BY <2>1, <2>2, <2>4, <3>1, <3>2, Zenon DEF PaddedByte
  <2>5. CASE ~(j <= n) /\ j <= mid
    <3>1. j \in 1..mid
      BY <2>3, <2>5
    <3>2. PICK i \in 0..(d - 1) : i = j - 1 - n /\ At(d, n, i, j)
      <4>1. j <= n + d
        BY <1>2, <2>5, Zenon
      <4> QED
        BY <2>3, <2>5, <4>1, PlaceIn
    <3>3. InBlocks(iw, j) = left1[i] /\ i \in 0..(BLOCK_SIZE - 1)
      BY <1>2, <2>1, <2>2, <2>5, <3>1, <3>2, Zenon
    <3>4. /\ i = o <=> j = len + 1
          /\ j <= total - 4
          /\ j <= len <=> i < o
      <4>1. FirstPlace(o, len, total, i, j)
        BY <1>6, <3>2, PlacesInTwo, Zenon
      <4> QED
        BY <4>1 DEF FirstPlace
    <3>5. left1[i] = IF i < o THEN lo[i] ELSE IF i = o THEN 128 ELSE 0
      BY <3>3, <1>1, Zenon DEF MarkedBlock
    <3>6. CASE i < o
      <4>1. j \in 1..(n + o)
        BY <1>2, <2>3, <3>4, <3>6
      <4>2. m[j] = lo[i]
        BY <2>5, <3>2, <4>1, Zenon DEF SoFar
      <4> QED
        BY <3>3, <3>4, <3>5, <3>6, <4>2, Zenon DEF PaddedByte
    <3>7. CASE ~(i < o)
      BY <3>3, <3>4, <3>5, <3>7, Zenon DEF PaddedByte
    <3> QED
      BY <3>6, <3>7
  <2>6. CASE ~(j <= mid)
    <3>1. PICK i \in 0..(d - 1) : i = j - 1 - mid /\ At(d, mid, i, j)
      <4>1. j <= mid + d
        BY <2>3
      <4> QED
        BY <2>3, <2>6, <4>1, PlaceIn
    <3>2. InBlocks(iw, j) = left2[i] /\ i \in 0..(BLOCK_SIZE - 1)
      BY <1>2, <2>1, <2>6, <3>1, Zenon
    <3>3. /\ ~(j <= len) /\ j # len + 1
          /\ i < d - 4 <=> j <= total - 4
          /\ d - 1 - i = total - j
      <4>1. SecondPlace(d, len, total, i, j)
        BY <1>6, <3>1, PlacesInLast, Zenon
      <4> QED
        BY <4>1 DEF SecondPlace
    <3>4. left2[i] = IF i < d - 4 THEN 0 ELSE LengthByte(len, d - 1 - i)
      BY <1>2, <3>2, <1>1, Zenon DEF LengthBlock
    <3> QED
      BY <3>2, <3>3, <3>4, Zenon DEF PaddedByte
  <2> QED
    BY <2>4, <2>5, <2>6
<1>10. m \in [1..len -> Values] /\ SpellsPadded(iw, m, len, total)
  BY <1>2, <1>9, Zenon DEF SpellsPadded
<1>11. Whole!Digest(m) = iw
  <2>1. total = Compressed(iw)
    BY <1>4
  <2> QED
    BY <1>5, <1>8, <1>10, <2>1, DigestIs
<1> QED
  BY <1>3, <1>4, <1>11

(* tc_sha256_final once the bits are counted and the end is marked. *)
Finished(marked) ==
    LET room == IF RoomForLength(marked) THEN marked
                ELSE Compress(Clear(marked, marked.leftover_offset, BLOCK_SIZE))
    IN  Compress(WriteLength(Clear(room, room.leftover_offset, BLOCK_SIZE - 8)))

(* tc_sha256_final computes the digest of the message the struct holds. *)
LEMMA PadDigest ==
    ASSUME HashConstants, NEW t, StateOK(t)
    PROVE  Pad(t).iv = Whole!Digest(Text(t))
<1>1. BLOCK_SIZE \in Nat /\ BLOCK_SIZE > 8 /\ BLOCK_SIZE - 8 \in Int
  BY BlockSize
<1>2. PICK iv \in Seq(Blocks), lo \in Buffers, o \in 0..(BLOCK_SIZE - 1) :
          iv = t.iv /\ lo = t.leftover /\ o = t.leftover_offset
  BY DEF StateOK
<1>3. PICK n \in Nat : n = Compressed(iv)
  BY CompressedNat
<1>4. t = Struct(iv, 8 * n, lo, o)
  BY <1>2, <1>3 DEF StateOK
<1>5. o \in Nat /\ o + 1 \in Nat /\ n + o \in Nat /\ 8 * n + 8 * o = 8 * (n + o)
  BY <1>1
<1>6. PICK len \in Nat, next \in Nat, m \in {Text(t)} :
          /\ len = n + o /\ 8 * n + 8 * o = 8 * len /\ next = o + 1
          /\ m = Text(t) /\ Held(m, iv, lo, n, o, len)
  <2>1. n = Compressed(t.iv) /\ o = t.leftover_offset /\ iv = t.iv /\ lo = t.leftover
    BY <1>2, <1>3
  <2>2. /\ Size(t) = n + o
        /\ Text(t) = [j \in 1..(n + o) |-> IF j <= n THEN InBlocks(iv, j) ELSE lo[j - 1 - n]]
    BY <2>1, SpellsOut
  <2>3. Text(t) \in [1..(n + o) -> Values]
    BY <2>2, TextType
  <2>4. Held(Text(t), iv, lo, n, o, n + o)
    BY <1>3, <2>2, <2>3, Zenon DEF Held, SoFar
  <2> QED
    BY <1>5, <2>4, Zenon
<1>7. PICK left \in Buffers : left = Replaced(lo, o, 128)
  BY BufferTypes
<1>8. IsMarked(left, lo, o)
  BY <1>7, BufferTypes
<1>9. PICK marked : marked = Struct(iv, 8 * len, left, next)
  OBVIOUS
<1>10. marked = Put(Count(t), t.leftover_offset, 128)
  <2>1. Count(t) = Struct(iv, 8 * len, lo, o)
    BY <1>4, <1>6, CountStruct
  <2>2. Put(Struct(iv, 8 * len, lo, o), o, 128) = Struct(iv, 8 * len, Replaced(lo, o, 128), o + 1)
    BY PutStruct
  <2> QED
    BY <1>2, <1>6, <1>7, <1>9, <2>1, <2>2
<1>11. marked.leftover_offset = next
  BY <1>9, StructFields
<1>12. Pad(t) = Finished(marked)
  <2>1. Pad(t) = Finished(Put(Count(t), t.leftover_offset, 128))
    BY DEF Pad, Finished, Put, Count
  <2> QED
    BY <1>10, <2>1
<1>13. CASE next <= BLOCK_SIZE - LENGTH_SIZE
  <2>1. PICK l1 \in Buffers : l1 = Cleared(left, next, BLOCK_SIZE - 8)
    BY <1>1, BufferTypes
  <2>2. IsCleared(l1, left, next, BLOCK_SIZE - 8)
    BY <1>1, <2>1, BufferTypes
  <2>3. PICK l2 \in Buffers : l2 = WithLength(l1, len)
    BY BufferTypes
  <2>4. HasLength(l2, l1, len)
    BY <2>3, BufferTypes
  <2>5. LastBlock(l2, lo, o, len)
    <3>1. ASSUME NEW i \in 0..(BLOCK_SIZE - 1)
          PROVE  l2[i] = IF i < o THEN lo[i]
                         ELSE IF i = o THEN 128
                         ELSE IF i < BLOCK_SIZE - 4 THEN 0
                         ELSE LengthByte(len, BLOCK_SIZE - 1 - i)
      <4>1. PICK d \in Nat, ls \in Nat : d = BLOCK_SIZE /\ ls = LENGTH_SIZE /\ 8 <= ls /\ ls < d
        BY BlockSize
      <4>2. /\ l2[i] = IF i < d - 8 THEN l1[i] ELSE IF i < d - 4 THEN 0 ELSE LengthByte(len, d - 1 - i)
            /\ l1[i] = IF next <= i /\ i < d - 8 THEN 0 ELSE left[i]
            /\ left[i] = IF i = o THEN 128 ELSE lo[i]
        BY <1>8, <2>2, <2>4, <4>1 DEF IsMarked, IsCleared, HasLength
      <4>3. /\ i \in Nat /\ o \in Nat /\ next = o + 1 /\ o + 1 <= d - ls
        BY <1>1, <1>6, <1>13, <4>1
      <4>4. i <= o => i < d - 8 \/ i = d - 8
        BY <4>1, <4>3
      <4>5. CASE i < o
        <5>1. i < d - 8 /\ ~(next <= i) /\ i # o
          BY <4>1, <4>3, <4>5
        <5> QED
          BY <4>2, <4>5, <5>1
      <4>6. CASE i = o
        <5>1. i < d - 8 /\ ~(next <= i) /\ ~(i < o)
          BY <4>1, <4>3, <4>6
        <5> QED
          BY <4>2, <4>6, <5>1
      <4>7. CASE ~(i < o) /\ i # o
        <5>1. next <= i /\ (i < d - 8 => i < d - 4)
          BY <4>1, <4>3, <4>7
        <5> QED
          BY <4>1, <4>2, <4>7, <5>1
      <4> QED
        BY <4>5, <4>6, <4>7
    <3> QED
      BY <3>1 DEF LastBlock
  <2>6. Clear(marked, next, BLOCK_SIZE - 8) = Struct(iv, 8 * len, l1, next)
    BY <1>9, <2>1, ClearStruct
  <2>7. WriteLength(Struct(iv, 8 * len, l1, next)) = Struct(iv, 8 * len, l2, next)
    BY <2>3, LengthStruct
  <2>8. PICK b \in Blocks : /\ Filled(b, l2)
                            /\ Compress(Struct(iv, 8 * len, l2, next))
                                  = Struct(Append(iv, b), 8 * len, l2, 0)
    BY CompressStruct
  <2>9. Pad(t).iv = Append(iv, b)
    <3>1. Finished(marked) = Compress(WriteLength(Clear(marked, next, BLOCK_SIZE - 8)))
      BY <1>11, <1>13 DEF Finished, RoomForLength
    <3>2. PICK iw, bits, p : iw = Append(iv, b) /\ bits = 8 * len /\ p = Pad(t)
      OBVIOUS
    <3>3. p = Struct(iw, bits, l2, 0)
      BY <1>12, <2>6, <2>7, <2>8, <3>1, <3>2
    <3>4. p.iv = iw
      BY <3>3, StructFields
    <3> QED
      BY <3>2, <3>4
  <2>10. Whole!Digest(m) = Append(iv, b)
    <3>1. Fits(o)
      BY <1>6, <1>13 DEF Fits
    <3> QED
      BY <1>6, <2>5, <2>8, <3>1, DigestInOne
  <2> QED
    BY <1>6, <2>9, <2>10
<1>14. CASE ~(next <= BLOCK_SIZE - LENGTH_SIZE)
  <2>1. PICK l1 \in Buffers : l1 = Cleared(left, next, BLOCK_SIZE)
    BY <1>1, BufferTypes
  <2>2. IsCleared(l1, left, next, BLOCK_SIZE)
    BY <1>1, <2>1, BufferTypes
  <2>3. PICK l2 \in Buffers : l2 = Cleared(l1, 0, BLOCK_SIZE - 8)
    BY <1>1, BufferTypes
  <2>4. IsCleared(l2, l1, 0, BLOCK_SIZE - 8)
    BY <1>1, <2>3, BufferTypes
  <2>5. PICK l3 \in Buffers : l3 = WithLength(l2, len)
    BY BufferTypes
  <2>6. HasLength(l3, l2, len)
    BY <2>5, BufferTypes
  <2>7. MarkedBlock(l1, lo, o)
    <3>1. ASSUME NEW i \in 0..(BLOCK_SIZE - 1)
          PROVE  l1[i] = IF i < o THEN lo[i] ELSE IF i = o THEN 128 ELSE 0
      <4>1. i < BLOCK_SIZE /\ (next <= i <=> ~(i < o) /\ i # o) /\ (i < o => i # o)
        BY <1>1, <1>6
      <4>2. l1[i] = IF next <= i THEN 0 ELSE IF i = o THEN 128 ELSE lo[i]
        BY <1>8, <2>2, <4>1 DEF IsMarked, IsCleared
      <4> QED
        BY <4>1, <4>2, Zenon
    <3> QED
      BY <3>1 DEF MarkedBlock
  <2>8. LengthBlock(l3, len)
    <3>1. ASSUME NEW i \in 0..(BLOCK_SIZE - 1)
          PROVE  l3[i] = IF i < BLOCK_SIZE - 4 THEN 0 ELSE LengthByte(len, BLOCK_SIZE - 1 - i)
      <4>1. 0 <= i /\ (i < BLOCK_SIZE - 8 => i < BLOCK_SIZE - 4)
        BY <1>1
      <4>2. i < BLOCK_SIZE - 8 => l2[i] = 0
        BY <2>4, <4>1 DEF IsCleared
      <4> QED
        BY <2>6, <4>1, <4>2 DEF HasLength
    <3> QED
      BY <3>1 DEF LengthBlock
  <2>9. Clear(marked, next, BLOCK_SIZE) = Struct(iv, 8 * len, l1, next)
    BY <1>9, <2>1, ClearStruct
  <2>10. PICK b1 \in Blocks : /\ Filled(b1, l1)
                              /\ Compress(Struct(iv, 8 * len, l1, next))
                                    = Struct(Append(iv, b1), 8 * len, l1, 0)
    BY CompressStruct
  <2>11. PICK iu, r : iu = Append(iv, b1) /\ r = Struct(iu, 8 * len, l1, 0)
    OBVIOUS
  <2>12. r.leftover_offset = 0 /\ r = Compress(Clear(marked, next, BLOCK_SIZE))
    BY <2>9, <2>10, <2>11, StructFields
  <2>13. Clear(r, 0, BLOCK_SIZE - 8) = Struct(iu, 8 * len, l2, 0)
    BY <2>3, <2>11, ClearStruct
  <2>14. WriteLength(Struct(iu, 8 * len, l2, 0)) = Struct(iu, 8 * len, l3, 0)
    BY <2>5, LengthStruct
  <2>15. PICK b2 \in Blocks : /\ Filled(b2, l3)
                              /\ Compress(Struct(iu, 8 * len, l3, 0))
                                    = Struct(Append(iu, b2), 8 * len, l3, 0)
    BY CompressStruct
  <2>16. Pad(t).iv = Append(iu, b2)
    <3>1. Finished(marked) = Compress(WriteLength(Clear(r, 0, BLOCK_SIZE - 8)))
      BY <1>11, <1>14, <2>12 DEF Finished, RoomForLength
    <3>2. PICK iw, bits, p : iw = Append(iu, b2) /\ bits = 8 * len /\ p = Pad(t)
      OBVIOUS
    <3>3. p = Struct(iw, bits, l3, 0)
      BY <1>12, <2>13, <2>14, <2>15, <3>1, <3>2
    <3>4. p.iv = iw
      BY <3>3, StructFields
    <3> QED
      BY <3>2, <3>4
  <2>17. Whole!Digest(m) = Append(iu, b2)
    <3>1. ~Fits(o)
      BY <1>6, <1>14 DEF Fits
    <3>2. Whole!Digest(m) = Append(Append(iv, b1), b2)
      <4>1. Held(m, iv, lo, n, o, len) /\ FirstOfTwo(b1, lo, o) /\ SecondOfTwo(b2, len)
        BY <1>6, <2>7, <2>8, <2>10, <2>15 DEF FirstOfTwo, SecondOfTwo
      <4> QED
        BY <3>1, <4>1, DigestInTwo
    <3> QED
      BY <2>11, <3>2
  <2> QED
    BY <1>6, <2>16, <2>17
<1> QED
  BY <1>13, <1>14

-----------------------------------------------------------------------------
(* The struct tc_sha256_init and tc_sha256_final leave: no message in it. *)
LEMMA ErasedIsEmpty ==
    ASSUME HashConstants
    PROVE  StateOK(Erased) /\ Text(Erased) = <<>> /\ Size(Erased) = 0
<1>1. BLOCK_SIZE \in Nat /\ BLOCK_SIZE > 8
  BY BlockSize
<1>2. /\ Erased = Struct(<<>>, 0, Zeros, 0) /\ Erased.iv = <<>> /\ Erased.bits_hashed = 0
      /\ Erased.leftover = Zeros /\ Erased.leftover_offset = 0
  BY DEF Erased, Struct
<1>3. Zeros \in Buffers
  BY DEF Zeros, Buffers, Values
<1>4. PICK iv \in Seq(Blocks) : iv = <<>> /\ Len(iv) = 0
  <2>1. <<>> \in Seq(Blocks) /\ Len(<<>>) = 0
    OBVIOUS
  <2> QED
    BY <2>1
<1>5. Compressed(iv) = 0
  BY <1>1, <1>4 DEF Compressed
<1>6. StateOK(Erased)
  <2>1. Erased = Struct(Erased.iv, Erased.bits_hashed, Erased.leftover, Erased.leftover_offset)
    BY <1>2
  <2>2. 0 \in 0..(BLOCK_SIZE - 1) /\ 8 * 0 = 0
    BY <1>1
  <2>3. Erased.bits_hashed = 8 * Compressed(Erased.iv)
    BY <1>2, <1>4, <1>5, <2>2
  <2> QED
    BY <1>2, <1>3, <1>4, <2>1, <2>2, <2>3 DEF StateOK
<1>7. Size(Erased) = 0
  BY <1>2, <1>4, <1>5 DEF Size
<1>8. Text(Erased) = <<>>
  BY <1>7 DEF Text
<1> QED
  BY <1>6, <1>7, <1>8

(* The bytes of an update. *)
LEMMA DataType ==
    ASSUME NEW from \in Nat, NEW n \in Nat
    PROVE  Data(from, n) \in [1..n -> Values] /\ Data(from, n) = Whole!Data(from, n)
  BY DEF Data, Byte, Values, Whole!Data, Whole!Byte

(* An update appends its data to the message. *)
LEMMA UpdateAppends ==
    ASSUME HashConstants, NEW t, StateOK(t), NEW k \in Nat, NEW data \in [1..k -> Values]
    PROVE  StateOK(Update(t, data)) /\ Text(Update(t, data)) = Text(t) \o data
<1>1. Fed(Update(t, data), t, data, k)
  BY UpdateText
<1>2. PICK n \in Nat : n = Size(t)
  BY TextType
<1>3. PICK a \in [1..n -> Values] : a = Text(t)
  BY <1>2, TextType
<1>4. a \o data = [j \in 1..(n + k) |-> IF j <= n THEN a[j] ELSE data[j - n]]
  <2>1. a = [j \in 1..n |-> a[j]] /\ data = [j \in 1..k |-> data[j]]
    OBVIOUS
  <2> QED
    BY <2>1, Concatenation
<1> QED
  BY <1>2, <1>1, <1>3, <1>4 DEF Fed

-----------------------------------------------------------------------------
(***************************************************************************)
(* The invariant: the struct is one between two bytes, and an empty one    *)
(* when no message is open.                                                *)
(***************************************************************************)
HashInv == ready \in BOOLEAN /\ StateOK(s) /\ (~ready => s = Erased)

LEMMA InitHash ==
    ASSUME HashConstants, Init
    PROVE  HashInv
  BY ErasedIsEmpty DEF Init, HashInv

LEMMA DataOfUpdate ==
    ASSUME HashConstants, HashInv, NEW n \in Chunks
    PROVE  /\ n \in Nat /\ Message = Text(s) /\ Len(Message) = MessageLength
           /\ MessageLength \in Nat
           /\ Data(MessageLength, n) \in [1..n -> Values]
           /\ Data(MessageLength, n) = Whole!Data(Len(Message), n)
<1>1. n \in Nat
  BY DEF HashConstants
<1>2. Message = Text(s)
  BY MessageIsText DEF HashInv, Message
<1>3. PICK z \in Nat : z = Size(s) /\ Text(s) \in [1..z -> Values]
  BY TextType DEF HashInv
<1>4. Len(Message) = z
  BY <1>2, <1>3
<1>5. MessageLength = z
  <2>1. PICK l \in Nat : l = Len(s.iv)
    BY DEF HashInv, StateOK
  <2>2. l * BLOCK_SIZE = BLOCK_SIZE * l
    BY BlockSize, SMT
  <2> QED
    BY <1>3, <2>1, <2>2 DEF MessageLength, Size, Compressed
<1> QED
  BY <1>1, <1>2, <1>3, <1>4, <1>5, DataType

(* The steps, and what each is for MessageDigest. *)
LEMMA StartStep ==
    ASSUME HashConstants, HashInv, StartHash
    PROVE  HashInv' /\ Whole!Next
<1>1. s' = Erased /\ ready' = TRUE /\ out' = out
  BY DEF StartHash, tc_sha_init
<1>2. HashInv'
  BY <1>1, ErasedIsEmpty DEF HashInv
<1>3. Message' = <<>>
  BY <1>1, MessageIsText, ErasedIsEmpty DEF Message
<1> QED
  BY <1>1, <1>2, <1>3 DEF Whole!Next, Whole!Start

LEMMA UpdateStep ==
    ASSUME HashConstants, HashInv, UpdateHash
    PROVE  HashInv' /\ Whole!Next
<1>1. PICK n \in Chunks : ready /\ s' = Update(s, Data(MessageLength, n)) /\ ready' = ready /\ out' = out
  BY DEF UpdateHash, tc_sha_update
<1>2. PICK data \in [1..n -> Values] :
          /\ n \in Nat /\ Message = Text(s)
          /\ data = Data(MessageLength, n) /\ data = Whole!Data(Len(Message), n)
  BY DataOfUpdate
<1>3. PICK t : t = s' /\ StateOK(t) /\ Text(t) = Message \o data
  BY <1>1, <1>2, UpdateAppends DEF HashInv
<1>4. Message' = Text(t)
  BY <1>3, MessageIsText DEF Message
<1>5. Whole!AppendData(n)
  BY <1>1, <1>2, <1>3, <1>4 DEF Whole!AppendData
<1> QED
  BY <1>1, <1>3, <1>5 DEF HashInv, Whole!Next

LEMMA FinishStep ==
    ASSUME HashConstants, HashInv, FinishHash
    PROVE  HashInv' /\ Whole!Next
<1>1. ready /\ out' = Pad(s).iv /\ s' = Erased /\ ready' = FALSE
  BY DEF FinishHash, tc_sha_final, DestroyState
<1>2. HashInv'
  BY <1>1, ErasedIsEmpty DEF HashInv
<1>3. Message = Text(s) /\ Message' = <<>>
  BY <1>1, MessageIsText, ErasedIsEmpty DEF HashInv, Message
<1>4. out' = Whole!Digest(Message)
  BY <1>1, <1>3, PadDigest DEF HashInv
<1> QED
  BY <1>1, <1>2, <1>3, <1>4 DEF Whole!Next, Whole!Finish

LEMMA OnceStep ==
    ASSUME HashConstants, HashInv, HashOnce
    PROVE  HashInv' /\ Whole!Next
<1>1. PICK n \in Chunks : out' = Pad(Update(Erased, Data(0, n))).iv /\ s' = s /\ ready' = ready
  BY DEF HashOnce, sha_once
<1>2. n \in Nat
  BY DEF HashConstants
<1>3. PICK data \in [1..n -> Values] : data = Data(0, n) /\ data = Whole!Data(0, n)
  BY <1>2, DataType
<1>4. PICK t : t = Update(Erased, data) /\ StateOK(t) /\ Text(t) = <<>> \o data
  BY <1>2, ErasedIsEmpty, UpdateAppends
<1>5. <<>> \o data = data
  BY <1>2
<1>6. out' = Whole!Digest(Whole!Data(0, n))
  BY <1>1, <1>3, <1>4, <1>5, PadDigest
<1>7. HashInv' /\ Message' = Message
  BY <1>1 DEF HashInv, Message
<1> QED
  BY <1>1, <1>6, <1>7 DEF Whole!Next, Whole!Once

LEMMA HashStep ==
    ASSUME HashConstants, HashInv, [Next]_vars
    PROVE  HashInv' /\ [Whole!Next]_<<ready, Message, out>>
<1>1. CASE UNCHANGED vars
  <2>1. s' = s /\ ready' = ready /\ out' = out
    BY <1>1 DEF vars
  <2>2. HashInv' /\ Message' = Message
    BY <2>1 DEF HashInv, Message
  <2> QED
    BY <2>1, <2>2
<1>2. CASE Next
  BY <1>2, StartStep, UpdateStep, FinishStep, OnceStep DEF Next
<1> QED
  BY <1>1, <1>2

(***************************************************************************)
(* However a message is cut into updates, the digest is the one of the     *)
(* whole message: HashStream implements MessageDigest (sha256.c:76, 101).  *)
(***************************************************************************)
THEOREM DigestIsOfWholeMessage == HashConstants => (Spec => DigestOfWholeMessage)
<1> SUFFICES ASSUME HashConstants PROVE Spec => DigestOfWholeMessage
  OBVIOUS
<1>1. Init => HashInv /\ Whole!Init
  <2> SUFFICES ASSUME Init PROVE HashInv /\ Whole!Init
    OBVIOUS
  <2>1. HashInv
    BY InitHash
  <2>2. Message = <<>>
    BY MessageIsText, ErasedIsEmpty DEF Init, Message
  <2> QED
    BY <2>1, <2>2 DEF Init, Whole!Init
<1>2. HashInv /\ [Next]_vars => HashInv' /\ [Whole!Next]_<<ready, Message, out>>
  BY HashStep
<1> QED
  BY <1>1, <1>2, PTL DEF Spec, DigestOfWholeMessage, Whole!Spec

(***************************************************************************)
(* The struct has its type, with room for a byte more, and once a digest   *)
(* is out no byte of its message is left in it (sha256.c:100, 134).        *)
(***************************************************************************)
THEOREM StructIsTypedAndErased == HashConstants => (Spec => [](TypeOK /\ NothingLeftBehind))
<1> SUFFICES ASSUME HashConstants PROVE Spec => [](TypeOK /\ NothingLeftBehind)
  OBVIOUS
<1>1. Init => HashInv
  BY InitHash
<1>2. HashInv /\ [Next]_vars => HashInv'
  BY HashStep
<1>3. HashInv => TypeOK /\ NothingLeftBehind
  <2> SUFFICES ASSUME HashInv PROVE TypeOK /\ NothingLeftBehind
    OBVIOUS
  <2>1. s.leftover \in Buffers /\ s.iv \in Seq(Blocks) /\ s.leftover_offset \in 0..(BLOCK_SIZE - 1)
    BY DEF HashInv, StateOK
  <2>2. DOMAIN s.leftover = 0..(BLOCK_SIZE - 1)
    BY <2>1 DEF Buffers
  <2>3. \A b \in DOMAIN s.iv : DOMAIN s.iv[b] = 1..BLOCK_SIZE
    <3>1. \A b \in DOMAIN s.iv : s.iv[b] \in Blocks
      BY <2>1
    <3> QED
      BY <3>1 DEF Blocks
  <2>4. NothingLeftBehind
    <3>1. \A i \in DOMAIN Erased.leftover : Erased.leftover[i] = 0
      BY DEF Erased, Zeros
    <3> QED
      BY <3>1 DEF HashInv, NothingLeftBehind
  <2> QED
    BY <2>1, <2>2, <2>3, <2>4 DEF HashInv, TypeOK
<1> QED
  BY <1>1, <1>2, <1>3, PTL DEF Spec
=============================================================================
