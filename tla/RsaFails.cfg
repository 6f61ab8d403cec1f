SPECIFICATION Spec
CONSTANTS
    TrialPrimes <- MCTrialPrimes
    Rounds = 1
    NULL = NULL
    Bits = 7
    MaxRounds = 2
    Base = 128
    N = 23
    g = 5
    k = 3
    H = 4
    Radicands <- MCRadicands
INVARIANTS
    FailureFreesAll
CHECK_DEADLOCK FALSE
