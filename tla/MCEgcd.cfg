SPECIFICATION FairSpec
CONSTANTS
    Moduli <- MCModuli
    Numbers <- Positive
    NULL = NULL
INVARIANTS
    Bezout
    ResultIsGcd
    InverseIsCongruent
PROPERTIES
    Terminates
CHECK_DEADLOCK FALSE
