SPECIFICATION Spec
CONSTANTS
    h1 = h1
    h2 = h2
    Handlers <- MCHandlers
    Accounts <- MCAccounts
    Existing = {1, 2, 3}
    Info <- MCInfo
    Requests <- MCRequests
    Exchanges <- MCExchanges
    Rates = {2, 3}
    MaxFaults = 1
PROPERTIES
    ExchangeRetryIsAnswered
