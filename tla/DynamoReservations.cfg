SPECIFICATION DSpec
CONSTANTS
    h1 = h1
    h2 = h2
    Handlers <- MCHandlers
    Res <- TwoRes
    Original <- TwoOriginal
    Keys = {"a"}
    Amounts = {1, 2}
    Funds = 3
SYMMETRY HandlerSymmetry
INVARIANTS
    VersionsTell
    DBooksAreRight
PROPERTIES
    ImplementsReservations
