\* Every operand pair of MUL, MULH, MULHSU, MULHU, DIV, DIVU, REM and REMU on
\* six-bit words, and sequences of three instructions of every kind.
SPECIFICATION MCSpec
CONSTANTS
    Half = 8
    Lane = 2
    Q = 2
    CompressFrac = 0
    Instrs <- MCInstrs
    MaxInstr = 3
INVARIANT UnitInv
PROPERTIES ExecSpec DataIndependentTiming
CHECK_DEADLOCK FALSE
