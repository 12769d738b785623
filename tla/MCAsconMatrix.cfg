\* The expansion of the matrix in the build whose stream is Ascon's.
SPECIFICATION MCSpec
CONSTANTS
    Half = 65536
    Lane = 4096
    Q = 3329
    CompressFrac = 46944
    Instrs <- MCInstrs
    MaxInstr = 1
    Programs = {"sampler"}
    Unassigned = {0}
    R = 65536
    KYBER_Q = 3329
    KYBER_N = 256
    QINV <- MCQinv
    BarrettPower = 67108864
    Zetas <- BuildZetas
    Scale <- BuildScale
    Polynomials <- MCPolynomials
    Shifts = {131}
    Kinds = {"ascon"}
    Rates <- MCRates
    K = 2
    N = 4
    BASE = 3
    DIGITS = 3
    MaxRefills = 4
    KYBER_K = 2
    KYBER_SYMBYTES = 2
    Coefficients = 16
    Keys = {k1, k2}
    MaxEncapsulations = 2
    MaxAlterations = 1
INVARIANT TriplesInOrder
CHECK_DEADLOCK FALSE
