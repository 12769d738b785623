\* Two outstanding requests, a FIFO of three words, code of four words; two
\* accesses, each word of data reachable, denied, failing or corrupted.
SPECIFICATION MCSpec
CONSTANTS
    NUM_REQS = 2
    NWords = 4
    Layouts <- MCLayouts
    NDataWords = 2
    Contents <- MCContents
    Accesses <- MCAccesses
    MaxAccess = 2
INVARIANTS BufferInv Room LsuInv
PROPERTIES InstructionStream FetchDelivers Access
CHECK_DEADLOCK FALSE
