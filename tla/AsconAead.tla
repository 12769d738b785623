----------------------------- MODULE AsconAead -----------------------------
(***************************************************************************)
(* Ascon-128 (ascon_encrypt.c, ascon_decrypt.c): a sender encrypts under a *)
(* nonce, a receiver with the same key decrypts what reached it.           *)
(*                                                                         *)
(* The permutation is ideal: a state is what was XORed into it before each *)
(* permutation (chain) and since (in).  A byte of ciphertext is a byte     *)
(* under a pad, the state's byte, which its chain and place name.  The key *)
(* is the same throughout; key has the words it was XORed into.            *)
(***************************************************************************)
EXTENDS Integers, Sequences, SequencesExt

CONSTANTS
    ByteValues,         \* values of a byte
    PAD_BYTE,           \* the byte 0x80
    ASCON_AEAD_RATE,    \* bytes of x0; the tag has two words of as many
    CRYPTO_ABYTES,      \* what the length of a ciphertext counts for its tag
    AeadNonces, AeadMessages, AeadAssociated

TAG_BYTES == 2 * ASCON_AEAD_RATE

(* What the constants must be. *)
ASSUME AeadAssumption ==
    /\ ByteValues \in Nat /\ PAD_BYTE \in 1..(ByteValues - 1)
    /\ ASCON_AEAD_RATE \in Nat \ {0} /\ CRYPTO_ABYTES \in Nat /\ CRYPTO_ABYTES >= TAG_BYTES
    /\ AeadNonces \subseteq [0..(ASCON_AEAD_RATE - 1) -> 0..(ByteValues - 1)]
    /\ \A data \in AeadMessages \cup AeadAssociated : data \in Seq(0..(ByteValues - 1))

VARIABLES
    aead_sent,          \* nonce, message and associated data of the message on its way
    cipher, clen,       \* the ciphertext, and the length the sender was told
    plain, aead_mlen,   \* what decryption wrote, the length it reported,
    aead_result,        \* and its result
    aead_fate           \* of the message on its way

aeadVars == <<aead_sent, cipher, clen, plain, aead_mlen, aead_result, aead_fate>>

-----------------------------------------------------------------------------
Untouched == [x0 |-> [p \in 0..(ASCON_AEAD_RATE - 1) |-> 0], one |-> FALSE, key |-> {}]

AsconPermute(s) == [chain |-> Append(s.chain, s.in), in |-> Untouched]

(* IV, key and nonce, permuted, and the key again; the nonce stands in x0. *)
AeadStart(nonce) ==
    [chain |-> <<[Untouched EXCEPT !.x0 = nonce]>>, in |-> [Untouched EXCEPT !.key = {3, 4}]]

(* Only a place of x0 is touched that nothing was XORed to since the last permutation. *)
Put(s, p, v) == [s EXCEPT !.in.x0[p] = v]

(* Bytes of associated data or of a message: the rate is permuted when it is full. *)
AbsorbByte(s, v) ==
    LET t == Put(s.state, s.at, v)
    IN  IF s.at = ASCON_AEAD_RATE - 1 THEN [state |-> AsconPermute(t), at |-> 0]
        ELSE [state |-> t, at |-> s.at + 1]

AbsorbAll(s, data) == FoldLeft(AbsorbByte, [state |-> s, at |-> 0], data)

(* After the loop: the byte 0x80 ends what was absorbed. *)
End(r) == Put(r.state, r.at, PAD_BYTE)

Separate(s) == [s EXCEPT !.in.one = TRUE]       \* x4 ^= 1
AbsorbAD(s, ad) == IF ad = <<>> THEN s ELSE AsconPermute(End(AbsorbAll(s, ad)))

Ready(nonce, ad) == Separate(AbsorbAD(AeadStart(nonce), ad))

Finalize(s) == AsconPermute([s EXCEPT !.in.key = @ \cup {1, 2}])

(* The state after all of a message, and its byte i (from zero) of keystream. *)
After(nonce, ad, msg) == Finalize(End(AbsorbAll(Ready(nonce, ad), msg)))

KeystreamPad(nonce, ad, msg, i) ==
    [chain |-> AbsorbAll(Ready(nonce, ad), SubSeq(msg, 1, i)).state.chain,
     place |-> i % ASCON_AEAD_RATE]

TagPads(s) ==
    [i \in 1..TAG_BYTES |->
        [value |-> 0, pad |-> [chain |-> s.chain, place |-> ASCON_AEAD_RATE + i]]]

NotWritten == [value |-> -1, pad |-> [chain |-> <<>>, place |-> 0]]

-----------------------------------------------------------------------------
AeadInit ==
    /\ aead_sent = [nonce |-> <<>>, msg |-> <<>>, ad |-> <<>>]
    /\ cipher = <<>> /\ clen = 0 /\ plain = <<>> /\ aead_mlen = 0
    /\ aead_result = "NONE" /\ aead_fate = "none"

CiphertextLength(len) == len + CRYPTO_ABYTES

Ciphertext(nonce, msg, ad) ==
    LET body == [i \in 1..Len(msg) |->
                    [value |-> msg[i], pad |-> KeystreamPad(nonce, ad, msg, i - 1)]]
        rest == [i \in 1..(CiphertextLength(Len(msg)) - Len(msg) - TAG_BYTES) |-> NotWritten]
    IN  body \o TagPads(After(nonce, ad, msg)) \o rest

ascon_aead_encrypt(nonce, msg, ad) ==
    /\ cipher' = Ciphertext(nonce, msg, ad) /\ clen' = CiphertextLength(Len(msg))
    /\ aead_sent' = [nonce |-> nonce, msg |-> msg, ad |-> ad]
    /\ UNCHANGED <<plain, aead_mlen, aead_result, aead_fate>>

(* One byte of ciphertext: under another pad it comes out as garbage. *)
DecryptByte(nonce, ad, msg, byte) ==
    LET pad == KeystreamPad(nonce, ad, msg, Len(msg))
    IN  Append(msg, IF byte.pad = pad THEN byte.value ELSE ByteValues)

DecryptBody(nonce, ad, body) ==
    LET Step(msg, byte) == DecryptByte(nonce, ad, msg, byte)
    IN  FoldLeft(Step, <<>>, body)

TagMatchesHalf(given, computed) ==      \* mutant: only the first word is compared
    \A i \in 1..ASCON_AEAD_RATE : given[i] = computed[i]
TagMatches(given, computed) == \A i \in 1..TAG_BYTES : given[i] = computed[i]

Shortest == CRYPTO_ABYTES

ascon_aead_decrypt(nonce, ad, d) ==
    LET len == Len(d) - CRYPTO_ABYTES
        msg == DecryptBody(nonce, ad, SubSeq(d, 1, len))
        ok  == TagMatches(SubSeq(d, len + 1, len + TAG_BYTES), TagPads(After(nonce, ad, msg)))
    IN  /\ IF Len(d) < Shortest
           THEN aead_result' = "FAIL" /\ aead_mlen' = 0 /\ UNCHANGED plain
           ELSE /\ plain' = msg
                /\ IF ok THEN aead_result' = "SUCCESS" /\ aead_mlen' = len
                   ELSE aead_result' = "FAIL" /\ aead_mlen' = 0
        /\ UNCHANGED <<aead_sent, cipher, clen>>

-----------------------------------------------------------------------------
AeadEncrypt ==
    /\ aead_result = "NONE" /\ clen = 0
    /\ \E n \in AeadNonces, msg \in AeadMessages, ad \in AeadAssociated :
          ascon_aead_encrypt(n, msg, ad)

Change(byte) == [byte EXCEPT !.value = (@ + 1) % ByteValues]

AeadDeliver(how, nonce, ad, d) == ascon_aead_decrypt(nonce, ad, d) /\ aead_fate' = how

(* A byte past the tag is none of the message's. *)
Counted(i) == i <= Len(aead_sent.msg) + TAG_BYTES

AeadDecrypt ==
    /\ clen > 0 /\ aead_fate = "none"
    /\ \/ AeadDeliver("intact", aead_sent.nonce, aead_sent.ad, cipher)
       \/ \E i \in 1..clen :
             AeadDeliver(IF Counted(i) THEN "changed" ELSE "intact", aead_sent.nonce, aead_sent.ad,
                         [cipher EXCEPT ![i] = Change(@)])
       \/ \E k \in 0..(clen - 1) :
             AeadDeliver("cut", aead_sent.nonce, aead_sent.ad, SubSeq(cipher, 1, k))
       \/ \E ad \in AeadAssociated \ {aead_sent.ad} : AeadDeliver("ad", aead_sent.nonce, ad, cipher)
       \/ \E n \in AeadNonces \ {aead_sent.nonce} : AeadDeliver("nonce", n, aead_sent.ad, cipher)

AeadNext == AeadEncrypt \/ AeadDecrypt

AeadSpec == AeadInit /\ [][AeadNext]_aeadVars

-----------------------------------------------------------------------------
(***************************************************************************)
(* A message is accepted and gives back what was sent when every byte of   *)
(* its text and tag, its nonce and its associated data are as they were,   *)
(* and refused, reporting no byte of text, when any is not                 *)
(* (ascon_decrypt.c:17, 101).                                              *)
(***************************************************************************)
AcceptedIffIntact ==
    /\ aead_fate = "intact" => /\ aead_result = "SUCCESS" /\ aead_mlen = Len(aead_sent.msg)
                               /\ plain = aead_sent.msg
    /\ aead_fate \notin {"none", "intact"} => aead_result = "FAIL" /\ aead_mlen = 0

(***************************************************************************)
(* Different messages leave different states, so no two share a tag:       *)
(* padding and separation tell associated data from text and either from   *)
(* the byte that ends it (ascon_encrypt.c:53, 58, 75).                     *)
(***************************************************************************)
TagsTellMessagesApart ==
    clen > 0 /\ aead_fate = "none" =>
        \A n \in AeadNonces, msg \in AeadMessages, ad \in AeadAssociated :
            After(n, ad, msg) = After(aead_sent.nonce, aead_sent.ad, aead_sent.msg) =>
                n = aead_sent.nonce /\ ad = aead_sent.ad /\ msg = aead_sent.msg

(* Ascon's cipher accepts what was sent and nothing else. *)
AeadAuthentic == AcceptedIffIntact /\ TagsTellMessagesApart
=============================================================================
