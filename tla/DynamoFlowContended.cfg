SPECIFICATION LiveSpec
CONSTANTS
    h1 = h1
    h2 = h2
    Handlers <- MCHandlers
    Accounts <- MCAccounts
    Info <- MCAccountsInfo
    Requests <- ContendedRequests
    MaxTxItems = 11
    MaxFaults = 1
INVARIANTS
    OccInvariant
    NonNegative
    BalancesMatchJournals
    AttemptsAreTrue
PROPERTIES
    RetryOnlyIfNotPosted
    ImplementsAtomicLedger
    EverySubmissionSettles
