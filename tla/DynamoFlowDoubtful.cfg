SPECIFICATION Spec
CONSTANTS
    h1 = h1
    h2 = h2
    Handlers <- MCHandlers
    Accounts <- RefusedAccounts
    Info <- RefusedInfo
    Requests <- DoubtfulRequests
    MaxTxItems = 11
    MaxFaults = 1
SYMMETRY HandlerSymmetry
INVARIANTS
    ExactlyOnce
    RepliesAreTrue
    TrialBalance
