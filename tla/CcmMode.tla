------------------------------ MODULE CcmMode ------------------------------
(***************************************************************************)
(* Authenticated encryption with TinyCrypt's CCM (ccm_mode.c): a sender    *)
(* encrypts a payload, and a receiver with the same key decrypts what      *)
(* reached it, which may have been altered on its way.                     *)
(*                                                                         *)
(* AES is ideal: the MAC is the sequence of what was XORed into T before   *)
(* each encryption, and a byte of ciphertext is a byte under a pad, which  *)
(* the encrypted counter block and the place in it name.  Bytes have BASE  *)
(* values, and a block has a flag, a nonce and two bytes of length.        *)
(***************************************************************************)
EXTENDS Counter

CONSTANTS
    NONCE_SIZE,         \* 13
    MacLengths,         \* lengths a caller asks for
    Nonces, Payloads, AssociatedData,
    MIN_MAC, MAX_MAC    \* 4 and 16

AES_BLOCK_SIZE == NONCE_SIZE + 3
TC_CCM_AAD_MAX_BYTES     == BASE * BASE - BASE
TC_CCM_PAYLOAD_MAX_BYTES == BASE * BASE

(* Values of an unsigned int. *)
UINT == BASE * BASE * BASE * BASE

(* What the constants must be. *)
ASSUME CcmAssumption ==
    /\ BASE > 1 /\ NONCE_SIZE \in Nat /\ AES_BLOCK_SIZE < UINT
    /\ MacLengths \subseteq Nat /\ MIN_MAC \in Nat \ {0} /\ MAX_MAC \in MIN_MAC..AES_BLOCK_SIZE
    /\ Nonces \subseteq [1..NONCE_SIZE -> 0..(BASE - 1)]
    /\ \A data \in Payloads \cup AssociatedData : data \in Seq(0..(BASE - 1))

VARIABLES
    ccm_nonce, mlen,    \* what tc_ccm_config stored; mlen is 0 before it succeeded
    verdict,            \* what the last call returned
    opened,             \* what decryption wrote to the caller's buffer
    sent,               \* payload, associated data and nonce of the last encryption
    wire,               \* what it wrote
    fate                \* of the last delivery

ccmVars == <<ccm_nonce, mlen, verdict, opened, sent, wire, fate>>

-----------------------------------------------------------------------------
(* Every byte is XORed to a place of T nothing was XORed to since the last encryption. *)
Empty == [p \in 0..(AES_BLOCK_SIZE - 1) |-> 0]
XorAt(T, p, v) == [T EXCEPT !.in[p] = v]
Encrypted(T) == [chain |-> Append(T.chain, T.in), in |-> Empty]

(* The block that starts the MAC: flags, nonce, length of the payload. *)
FormatNoLength(n, alen, plen, m) ==     \* mutant: the length of the payload is left out
    [p \in 0..(AES_BLOCK_SIZE - 1) |->
        CASE p = 0 -> <<"mac", alen > 0, m>>
          [] p \in 1..NONCE_SIZE -> n[p]
          [] OTHER -> 0]

Format(n, alen, plen, m) ==
    [p \in 0..(AES_BLOCK_SIZE - 1) |->
        CASE p = 0 -> <<"mac", alen > 0, m>>
          [] p \in 1..NONCE_SIZE -> n[p]
          [] p = AES_BLOCK_SIZE - 2 -> plen \div BASE
          [] p = AES_BLOCK_SIZE - 1 -> plen % BASE]

(* Byte i of ccm_cbc_mac: a full block is encrypted, and so is what the last byte is in. *)
MacByte(T, bytes, i) ==
    LET u == XorAt(T, (i - 1) % AES_BLOCK_SIZE, bytes[i])
    IN  IF i % AES_BLOCK_SIZE = 0 \/ i = Len(bytes) THEN Encrypted(u) ELSE u

(* ccm_cbc_mac: with flag, the data's length goes before them. *)
ccm_cbc_mac(T, data, flag) ==
    LET length == <<Len(data) \div BASE, Len(data) % BASE>>
        bytes  == IF flag THEN length \o data ELSE data
        Step(t, i) == MacByte(t, bytes, i)
    IN  FoldLeft(Step, T, [i \in 1..Len(bytes) |-> i])

Mac(n, aad, payload, plen, m) ==
    LET start == [chain |-> <<Format(n, Len(aad), plen, m)>>, in |-> Empty]
        withAad == IF Len(aad) > 0 THEN ccm_cbc_mac(start, aad, TRUE) ELSE start
    IN  IF Len(payload) > 0 THEN ccm_cbc_mac(withAad, payload, FALSE) ELSE withAad

(***************************************************************************)
(* The pads of ccm_ctr_mode: the counter is increased before each block,   *)
(* so counter 0 is left to hide the tag.                                   *)
(***************************************************************************)
PadFromZero(n, i) ==            \* mutant: the counter is increased after the block
    [nonce |-> n, counter |-> (i - 1) \div AES_BLOCK_SIZE, place |-> (i - 1) % AES_BLOCK_SIZE]

CtrPad(n, i) ==
    [nonce |-> n, counter |-> ((i - 1) \div AES_BLOCK_SIZE + 1) % (BASE * BASE),
     place |-> (i - 1) % AES_BLOCK_SIZE]

TagPad(n, i) == [nonce |-> n, counter |-> 0, place |-> i - 1]

(* A byte of plaintext or of the tag, and one that was hidden by another pad. *)
Data(v)   == <<"data", v>>
TagByte(T, i) == <<"tag", T.chain, i>>
Garbage   == <<"garbage">>

Hide(value, pad) == [value |-> value, pad |-> pad]
Reveal(c, pad)   == IF c.pad = pad THEN c.value ELSE Garbage

(* What decryption makes of ciphertext: garbage is not a byte the sender sent. *)
Plain(n, c) == LET v == Reveal(c[1], CtrPad(n, c[2])) IN IF Len(v) = 2 THEN v[2] ELSE BASE

(* A payload and its tag as they are sent. *)
Sealed(payload, aad, n, m) ==
    LET T == Mac(n, aad, payload, Len(payload), m)
    IN  [i \in 1..Len(payload) |-> Hide(Data(payload[i]), CtrPad(n, i))]
        \o [i \in 1..m |-> Hide(TagByte(T, i), TagPad(n, i))]

-----------------------------------------------------------------------------
CcmInit ==
    /\ ccm_nonce = <<>> /\ mlen = 0
    /\ verdict = "NONE" /\ opened = <<>>
    /\ sent = [payload |-> <<>>, aad |-> <<>>, nonce |-> <<>>]
    /\ wire = <<>> /\ fate = "none"

tc_ccm_config(n, nlen, m) ==
    /\ IF nlen = NONCE_SIZE /\ m \in MIN_MAC..MAX_MAC /\ m % 2 = 0
       THEN ccm_nonce' = n /\ mlen' = m /\ verdict' = "SUCCESS"
       ELSE verdict' = "FAIL" /\ UNCHANGED <<ccm_nonce, mlen>>
    /\ UNCHANGED <<opened, sent, wire, fate>>

tc_ccm_generation_encryption(payload, aad, olen) ==
    /\ IF \/ Len(aad) >= TC_CCM_AAD_MAX_BYTES
          \/ Len(payload) >= TC_CCM_PAYLOAD_MAX_BYTES
          \/ olen < Len(payload) + mlen
       THEN verdict' = "FAIL" /\ UNCHANGED <<wire, sent>>
       ELSE /\ wire' = Sealed(payload, aad, ccm_nonce, mlen)
            /\ sent' = [payload |-> payload, aad |-> aad, nonce |-> ccm_nonce]
            /\ verdict' = "SUCCESS"
    /\ UNCHANGED <<ccm_nonce, mlen, opened>> /\ fate' = "none"

(* plen - mlen in unsigned arithmetic: a ciphertext that is too short is too long. *)
MessageLength(plen) == IF plen < mlen THEN UINT - (mlen - plen) ELSE plen - mlen

tc_ccm_decryption_verification(c, n, aad, olen) ==
    LET plen    == Len(c)
        len     == MessageLength(plen)
        body    == [i \in 1..len |-> Plain(n, <<c[i], i>>)]
        T       == Mac(n, aad, body, len, mlen)
        matches == \A i \in 1..mlen :
                      Reveal(c[len + i], TagPad(n, i)) = TagByte(T, i)
    IN  /\ IF \/ Len(aad) >= TC_CCM_AAD_MAX_BYTES
              \/ plen >= TC_CCM_PAYLOAD_MAX_BYTES
              \/ olen < len
           THEN verdict' = "FAIL" /\ opened' = <<>>
           ELSE IF matches THEN verdict' = "SUCCESS" /\ opened' = body
           ELSE /\ verdict' = "FAIL"
                /\ opened' = [i \in 1..len |-> 0]
        /\ UNCHANGED <<ccm_nonce, mlen, sent, wire>>

-----------------------------------------------------------------------------
(***************************************************************************)
(* What can reach the receiver: the message, or one with a byte changed,   *)
(* with its end lost, or taken with other associated data or nonce.        *)
(***************************************************************************)
Changed(c) == [c EXCEPT !.value = IF Len(@) = 2 THEN Data((@[2] + 1) % BASE) ELSE Garbage]

Deliver(how, c, n, aad) ==
    /\ tc_ccm_decryption_verification(c, n, aad, Len(c))
    /\ fate' = how

(* Each message is configured, sent and delivered once. *)
Configure == /\ wire = <<>>
             /\ \E n \in Nonces, nlen \in {NONCE_SIZE, NONCE_SIZE + 1}, m \in MacLengths :
                   tc_ccm_config(n, nlen, m)

Send == /\ mlen > 0 /\ wire = <<>>
        /\ \E p \in Payloads, a \in AssociatedData :
              \E olen \in {Len(p) + mlen - 1, Len(p) + mlen} :
                 tc_ccm_generation_encryption(p, a, olen)

Receive ==
    /\ wire # <<>> /\ fate = "none"
    /\ \/ Deliver("intact", wire, sent.nonce, sent.aad)
       \/ \E i \in DOMAIN wire :
             Deliver("changed", [wire EXCEPT ![i] = Changed(@)], sent.nonce, sent.aad)
       \/ \E k \in 0..(Len(wire) - 1) :
             Deliver("cut", SubSeq(wire, 1, k), sent.nonce, sent.aad)
       \/ \E a \in AssociatedData \ {sent.aad} : Deliver("aad", wire, sent.nonce, a)
       \/ \E n \in Nonces \ {sent.nonce} : Deliver("nonce", wire, n, sent.aad)

CcmNext == Configure \/ Send \/ Receive

CcmSpec == CcmInit /\ [][CcmNext]_ccmVars

-----------------------------------------------------------------------------
(***************************************************************************)
(* A message that arrives as it was sent is accepted and gives the         *)
(* payload back, as long as it is within what decryption takes; one of     *)
(* TC_CCM_PAYLOAD_MAX_BYTES or more, which the longest payloads make, is   *)
(* refused (ccm_mode.c:151 and 212).                                       *)
(***************************************************************************)
IntactIsAccepted ==
    fate = "intact" => IF Len(wire) < TC_CCM_PAYLOAD_MAX_BYTES
                       THEN verdict = "SUCCESS" /\ opened = sent.payload
                       ELSE verdict = "FAIL"

(***************************************************************************)
(* A message that was altered in any way is refused, one too short to hold *)
(* a tag included, and no byte that was decrypted from it stays in the     *)
(* caller's buffer (ccm_mode.c:213, 261-266).                              *)
(***************************************************************************)
AlteredIsRefused ==
    fate \notin {"none", "intact"} => /\ verdict = "FAIL"
                                     /\ \A i \in DOMAIN opened : opened[i] = 0

(***************************************************************************)
(* No byte of a message is hidden by the pad of another, of the payload or *)
(* of the tag (ccm_mode.c:121-125, 188).                                   *)
(***************************************************************************)
PadsOnce == \A i, j \in DOMAIN wire : wire[i].pad = wire[j].pad => i = j

(***************************************************************************)
(* Different messages have different MACs, whatever their lengths: the     *)
(* formatting tells associated data, payload and padding apart             *)
(* (ccm_mode.c:163-168, 70-77).                                            *)
(***************************************************************************)
MacsTellMessagesApart ==
    mlen > 0 /\ fate = "none" =>
        \A p \in Payloads, a \in AssociatedData, n \in Nonces :
            wire # <<>> /\ Mac(n, a, p, Len(p), mlen)
                            = Mac(sent.nonce, sent.aad, sent.payload, Len(sent.payload), mlen)
            => p = sent.payload /\ a = sent.aad /\ n = sent.nonce

(* What is received is what was sent, or refused. *)
Authentic == IntactIsAccepted /\ AlteredIsRefused /\ MacsTellMessagesApart
=============================================================================
