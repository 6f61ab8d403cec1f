SPECIFICATION FairSpec
CONSTANTS
    Moduli <- MCModuli
    Numbers <- Positive
    NULL = NULL
INVARIANTS
    InverseIsNotNegative
CHECK_DEADLOCK FALSE
