\* The generator with small counters, hashes with blocks of 24 bytes, sponges
\* with a rate of three, and modes of operation over bytes of three values.
SPECIFICATION MCSpec
CONSTANTS
    VSize = 7
    BLOCK_SIZE = 2
    SEED_BLOCKS = 3
    MAX_REQS_BEFORE_RESEED = 3
    MAX_BYTES_PER_REQ = 8
    BASE = 3
    DIGITS = 2
    TC_AES_BLOCK_SIZE = 2
    Lengths = {0, 1, 2, 3}
    Starts <- MCStarts
    RATE = 3
    HASH_SUFFIX = {6}
    XOF_SUFFIX = {31}
    LAST = {128}
    Chunks = {0, 1, 2, 3, 6}
    MaxMessage = 7
    MaxOutput = 7
    NONCE_SIZE = 1
    MIN_MAC = 2
    MAX_MAC = 4
    MacLengths = {1, 2, 3, 4, 6}
    Nonces <- MCNonces
    Payloads <- MCPayloads
    AssociatedData <- MCData
    ByteValues = 3
    PAD_BYTE = 2
    ASCON_AEAD_RATE = 2
    CRYPTO_ABYTES = 6
    AeadNonces <- MCAeadNonces
    AeadMessages <- MCAeadMessages
    AeadAssociated <- MCAeadAssociated
INVARIANTS PrngInv BuffersFit PadsOnce Authentic AeadAuthentic
PROPERTIES DigestOfWholeMessage OneStream KeystreamOnce
CHECK_DEADLOCK FALSE
