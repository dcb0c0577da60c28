SPECIFICATION WSpec
CONSTANTS
    Res <- MCRes
    Original <- MCOriginal
    Keys = {"a", "b"}
    Amounts = {1, 2}
    Funds = 4
    UniqueOutbox = TRUE
    Schedulers = {"s1", "s2"}
    BatchN = 1
    MaxErrors = 1
    PageSize = 100
INVARIANTS
    LifecycleInvariant
    NothingStranded
    RowsAndEventsMatchJournals
PROPERTIES
    OpenIsListed
    ClosedIsFinal
    ExpiredGetClosed
    SchedulersFollowLifecycle
CHECK_DEADLOCK FALSE
