SPECIFICATION Spec
CONSTANTS
    ann = ann
    ben = ben
    cleo = cleo
    NULL = NULL
    Parties <- MCParties
    MaxExchanges = 3
SYMMETRY Symmetry
INVARIANTS
    SharedWasAgreed
    ChallengeProvesExchange
PROPERTIES
    ExchangeSharesOrForgets
