----------------------------- MODULE KyberPack -----------------------------
(***************************************************************************)
(* How the Kyber software lays keys, ciphertexts and messages out in       *)
(* bytes: loops that shift groups of words into groups of bytes and back   *)
(* (poly.c, polyvec.c, indcpa.c, kem.c).  A bit is known by where it came  *)
(* from, so a word or a byte is a set of bits at places, whatever their    *)
(* values; two bits at one place have been ORed.                           *)
(***************************************************************************)
EXTENDS Integers, Sequences, FiniteSets

CONSTANTS
    KYBER_K,
    Coefficients,       \* KYBER_N
    KYBER_SYMBYTES

ASSUME PackAssumption ==
    /\ KYBER_K \in Nat \ {0} /\ KYBER_SYMBYTES \in Nat \ {0}
    /\ Coefficients \in Nat \ {0} /\ Coefficients % 8 = 0

POLYBYTES        == (Coefficients * 12) \div 8
POLYVECBYTES     == KYBER_K * POLYBYTES
PUBLICKEYBYTES   == POLYVECBYTES + KYBER_SYMBYTES
SECRETKEYBYTES   == POLYVECBYTES + PUBLICKEYBYTES + 2 * KYBER_SYMBYTES

-----------------------------------------------------------------------------
BitIn(place, from) == [place |-> place, from |-> from]

(* A word shifted left, or right if s is negative. *)
Shift(w, s) == {BitIn(b.place + s, b.from) : b \in {c \in w : c.place + s >= 0}}
Low(w, width) == {b \in w : b.place < width}

(* Words put together: terms <<i, s>> stand for word i shifted by s. *)
Combine(terms, words, width) == Low(UNION {Shift(words[t[1]], t[2]) : t \in terms}, width)

(***************************************************************************)
(* The formats by their bits a word: which words a group of bytes is made  *)
(* of, and which bytes a group of words.  Words and bytes are numbered     *)
(* from 0 as in the code; 1 is a message, 8 a byte copied.                 *)
(***************************************************************************)
PackTable(bits) ==
    CASE bits = 1  -> <<{<<j, j>> : j \in 0..7}>>
      [] bits = 4  -> <<{<<0, 0>>, <<1, 4>>}, {<<2, 0>>, <<3, 4>>},
                        {<<4, 0>>, <<5, 4>>}, {<<6, 0>>, <<7, 4>>}>>
      [] bits = 5  -> <<{<<0, 0>>, <<1, 5>>}, {<<1, -3>>, <<2, 2>>, <<3, 7>>},
                        {<<3, -1>>, <<4, 4>>}, {<<4, -4>>, <<5, 1>>, <<6, 6>>},
                        {<<6, -2>>, <<7, 3>>}>>
      [] bits = 8  -> <<{<<0, 0>>}>>
      [] bits = 10 -> <<{<<0, 0>>}, {<<0, -8>>, <<1, 2>>}, {<<1, -6>>, <<2, 4>>},
                        {<<2, -4>>, <<3, 6>>}, {<<3, -2>>}>>
      [] bits = 11 -> <<{<<0, 0>>}, {<<0, -8>>, <<1, 3>>}, {<<1, -5>>, <<2, 6>>}, {<<2, -2>>},
                        {<<2, -10>>, <<3, 1>>}, {<<3, -7>>, <<4, 4>>}, {<<4, -4>>, <<5, 7>>},
                        {<<5, -1>>}, {<<5, -9>>, <<6, 2>>}, {<<6, -6>>, <<7, 5>>}, {<<7, -3>>}>>
      [] bits = 12 -> <<{<<0, 0>>}, {<<0, -8>>, <<1, 4>>}, {<<1, -4>>}>>

Unpack(bits) ==
    CASE bits = 1  -> [j \in 1..8 |-> {<<0, 1 - j>>}]
      [] bits = 4  -> <<{<<0, 0>>}, {<<0, -4>>}>>
      [] bits = 5  -> <<{<<0, 0>>}, {<<0, -5>>, <<1, 3>>}, {<<1, -2>>}, {<<1, -7>>, <<2, 1>>},
                        {<<2, -4>>, <<3, 4>>}, {<<3, -1>>}, {<<3, -6>>, <<4, 2>>}, {<<4, -3>>}>>
      [] bits = 8  -> <<{<<0, 0>>}>>
      [] bits = 10 -> <<{<<0, 0>>, <<1, 8>>}, {<<1, -2>>, <<2, 6>>},
                        {<<2, -4>>, <<3, 4>>}, {<<3, -6>>, <<4, 2>>}>>
      [] bits = 11 -> <<{<<0, 0>>, <<1, 8>>}, {<<1, -3>>, <<2, 5>>},
                        {<<2, -6>>, <<3, 2>>, <<4, 10>>}, {<<4, -1>>, <<5, 7>>},
                        {<<5, -4>>, <<6, 4>>}, {<<6, -7>>, <<7, 1>>, <<8, 9>>},
                        {<<8, -2>>, <<9, 6>>}, {<<9, -5>>, <<10, 3>>}>>
      [] bits = 12 -> <<{<<0, 0>>, <<1, 8>>}, {<<1, -4>>, <<2, 4>>}>>

PackDropsHigh(bits) ==          \* mutant: the fifth byte forgets the end of word 2
    IF bits = 11 THEN [PackTable(11) EXCEPT ![5] = {<<3, 1>>}] ELSE PackTable(bits)
Pack(bits) == PackTable(bits)

(* Words that go into a group of bytes; they may be taken out in smaller groups. *)
PackedWords(bits) == (8 * Len(Pack(bits))) \div bits

-----------------------------------------------------------------------------
(***************************************************************************)
(* What is laid out where: sections of words of so many bits, one after    *)
(* another in the order the code writes them.                              *)
(***************************************************************************)
Section(bits, at, words) == [bits |-> bits, at |-> at, words |-> words]

polyvec_tobytes == [i \in 1..KYBER_K |-> Section(12, (i - 1) * POLYBYTES, Coefficients)]

PolyvecCompressedBytes(bits) == (KYBER_K * Coefficients * bits) \div 8
PolyCompressedBytes(bits)    == (Coefficients * bits) \div 8

(* pack_ciphertext: both parts are compressed, to du and to dv bits. *)
Ciphertext(du, dv) ==
    <<Section(du, 0, KYBER_K * Coefficients), Section(dv, PolyvecCompressedBytes(du), Coefficients)>>

Layout(object) ==
    CASE object = "message" -> <<Section(1, 0, Coefficients)>>
      [] object = "public key" -> Append(polyvec_tobytes, Section(8, POLYVECBYTES, KYBER_SYMBYTES))
      [] object = "secret key" ->
            polyvec_tobytes \o <<Section(8, POLYVECBYTES, PUBLICKEYBYTES),
                                 Section(8, SECRETKEYBYTES - 2 * KYBER_SYMBYTES, KYBER_SYMBYTES),
                                 Section(8, SECRETKEYBYTES - KYBER_SYMBYTES, KYBER_SYMBYTES)>>
      [] object = "ciphertext 10 4" -> Ciphertext(10, 4)
      [] object = "ciphertext 11 5" -> Ciphertext(11, 5)

Size(object) ==
    CASE object = "message" -> Coefficients \div 8
      [] object = "public key" -> PUBLICKEYBYTES
      [] object = "secret key" -> SECRETKEYBYTES
      [] object = "ciphertext 10 4" -> PolyvecCompressedBytes(10) + PolyCompressedBytes(4)
      [] object = "ciphertext 11 5" -> PolyvecCompressedBytes(11) + PolyCompressedBytes(5)

Objects == {"message", "public key", "secret key", "ciphertext 10 4", "ciphertext 11 5"}

(* Word n of section s, all its bits in their places. *)
Word(s, n, bits) == {BitIn(p, <<s, n, p>>) : p \in 0..(bits - 1)}

-----------------------------------------------------------------------------
VARIABLES object, pack_pc, section, group, bytes, words

packVars == <<object, pack_pc, section, group, bytes, words>>

Here == Layout(object)[section]

Overwrite(f, g) == [x \in DOMAIN f \cup DOMAIN g |-> IF x \in DOMAIN g THEN g[x] ELSE f[x]]

PackInit ==
    /\ object = "none" /\ pack_pc = "idle"
    /\ section = 1 /\ group = 0
    /\ bytes = [p \in {} |-> {}] /\ words = [p \in {} |-> {}]

PackStart == \E o \in Objects :
    /\ pack_pc = "idle"
    /\ object' = o
    /\ bytes' = [p \in 0..(Size(o) - 1) |-> {}]
    /\ pack_pc' = "packing"
    /\ UNCHANGED <<section, group, words>>

(* The loops end a section after all its words, and go on to the next one. *)
Advance(perGroup, next) ==
    IF (group + 1) * perGroup < Here.words
    THEN group' = group + 1 /\ UNCHANGED <<section, pack_pc>>
    ELSE /\ group' = 0
         /\ IF section < Len(Layout(object))
            THEN section' = section + 1 /\ UNCHANGED pack_pc
            ELSE section' = 1 /\ pack_pc' = next

PackGroup ==
    LET table == Pack(Here.bits)
        taken == PackedWords(Here.bits)
        Source(j) == Word(section, group * taken + j, Here.bits)
        made  == [j \in 0..(taken - 1) |-> Source(j)]
        r     == Here.at + group * Len(table)
    IN  /\ pack_pc = "packing"
        /\ bytes' = Overwrite(bytes, [p \in r..(r + Len(table) - 1) |->
                                        Combine(table[p - r + 1], made, 8)])
        /\ Advance(taken, "unpacking")
        /\ UNCHANGED <<object, words>>

(* Bytes of the group unpacked: those its words share are read for each. *)
UnpackGroup ==
    LET table == Unpack(Here.bits)
        step  == (Len(table) * Here.bits) \div 8
        a     == Here.at + group * step
        read  == [j \in 0..(step - 1) |-> bytes[a + j]]
    IN  /\ pack_pc = "unpacking"
        /\ words' = Overwrite(words,
                [w \in {<<section, group * Len(table) + j - 1>> : j \in 1..Len(table)} |->
                    Combine(table[w[2] - group * Len(table) + 1], read, Here.bits)])
        /\ Advance(Len(table), "done")
        /\ UNCHANGED <<object, bytes>>

PackNext == PackStart \/ PackGroup \/ UnpackGroup

PackSpec == PackInit /\ [][PackNext]_packVars

-----------------------------------------------------------------------------
(***************************************************************************)
(* What was packed is unpacked: every word gets all its bits back, in      *)
(* their places, and none of another's (poly.c, polyvec.c).                *)
(***************************************************************************)
WordsComeBack ==
    \A w \in DOMAIN words : words[w] = Word(w[1], w[2], Layout(object)[w[1]].bits)

(***************************************************************************)
(* A packed object fills its buffer exactly: nothing is written beyond its *)
(* end, every bit of it is one bit of one word, and no section overwrites  *)
(* a word of another (params.h:36-70).                                     *)
(***************************************************************************)
FillsExactly ==
    pack_pc = "unpacking" =>
        /\ DOMAIN bytes = 0..(Size(object) - 1)
        /\ \A p \in DOMAIN bytes :
              {b.place : b \in bytes[p]} = 0..7 /\ Cardinality(bytes[p]) = 8
        /\ \A p, q \in DOMAIN bytes : p # q =>
              {b.from : b \in bytes[p]} \cap {b.from : b \in bytes[q]} = {}

(* In the end no word is missing. *)
EveryWordRead ==
    pack_pc = "done" =>
        \A s \in 1..Len(Layout(object)) : \A n \in 0..(Layout(object)[s].words - 1) :
            <<s, n>> \in DOMAIN words

(* Layouts fill their buffer, and what is packed comes back. *)
RoundTrip == FillsExactly /\ WordsComeBack /\ EveryWordRead
=============================================================================
