SPECIFICATION Spec
CONSTANTS
    alice = alice
    bob = bob
    eve = eve
    cassim = cassim
    mallory = mallory
    ZeroKey = ZeroKey
    NULL = NULL
    Clients <- MCClients
    Spoofing <- MCSpoofing
    Identity <- MCIdentity
    Password <- MCPassword
    I = "ali"
    P = "sesame"
    MaxSessions = 3
INVARIANTS
    TokenIsTheKeys
    OneTry
    SettledKeyWasProved
    OnlyAcceptedAuthenticate
PROPERTIES
    AuthenticatedMeansShared
    SettledSurvivesFinalize
    ImplementsAgreement
