SPECIFICATION OSpec
CONSTANTS
    d1 = d1
    d2 = d2
    Dispatchers <- MCDispatchers
    OutboxEvents = {1, 2, 3}
    BatchSize = 2
    Rejected = {1}
    MaxFaults = 1
INVARIANTS
    OInvariant
    NeverDropped
    DuplicatesAreFaults
PROPERTIES
    EventuallyPublished
CHECK_DEADLOCK FALSE
