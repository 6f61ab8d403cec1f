SPECIFICATION Spec
CONSTANTS
    NULL = NULL
    SizeWrap = 1024
    Calls <- MCCalls
    Keys <- MCKeys
    Values <- MCValues
    Texts <- MCTexts
    MaxMembers = 3
    Emails <- MCEmails
    Payloads <- MCPayloads
    ServiceKey <- MCServiceKey
    ServiceIv <- MCServiceIv
    Samples <- MCSamples
    WordTexts <- MCWordTexts
    Units <- MCUnits
    Buffers <- MCBuffers
    Sizes <- MCSizes
INVARIANTS
    ModesWholeOrNull
    ModesRoundTrip
    DecodeInvertsEncode
    ProfileReadsBack
    CommentsKeepTheirFields
    EncodingsInvert
    SlicesAreExact
    CipherIsAes
    DigestsAreRight
PROPERTIES
    ImplementsKvList
CHECK_DEADLOCK FALSE
