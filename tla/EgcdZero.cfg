SPECIFICATION FairSpec
CONSTANTS
    Moduli <- MCModuli
    Numbers <- WithZero
    NULL = NULL
PROPERTIES
    ModInvReturns
CHECK_DEADLOCK FALSE
