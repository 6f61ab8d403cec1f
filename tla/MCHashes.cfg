SPECIFICATION Spec
CONSTANTS
    BlockSize = 8
    LengthSize = 3
    ByteBits = 2
    Data <- MCData
    Lengths <- MCLengths
    Resumed <- MCResumed
    MacBlock = 8
    MacLength = 5
    MacKeys <- MCMacKeys
    MacTexts <- MCMacTexts
    NULL = NULL
INVARIANTS
    HashesThePadded
    LengthIsWritten
    MacIsWholeOrNull
