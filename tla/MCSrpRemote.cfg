SPECIFICATION FairSpec
CONSTANTS
    alice = alice
    eve = eve
    cassim = cassim
    Clients <- MCClients
    Identity <- MCIdentity
    Password <- MCPassword
    I = "ali"
    P = "sesame"
    Backlog = 1
    MaxConns = 3
INVARIANTS
    SuccessWasVerified
    NoSocketLeaks
    UndisturbedSucceeds
PROPERTIES
    AuthenticateReturns
    ServerGetsBack
CHECK_DEADLOCK FALSE
