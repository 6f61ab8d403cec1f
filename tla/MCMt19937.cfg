SPECIFICATION CryptSpec
CONSTANTS
    N = 5
    M = 3
    Words <- MCWords
    Seeds <- MCWords
    States <- MCStates
    Indexes <- MCIndexes
    SeedWord <- MCSeedWord
    Twist <- MCTwist
    Temper <- MCTemper
    NULL = NULL
    Parts = 3
    Part <- MCPart
    Mix <- MCMix
    Inputs <- MCInputs
INVARIANTS
    CryptIsTheSeries
PROPERTIES
    ImplementsRecurrence
