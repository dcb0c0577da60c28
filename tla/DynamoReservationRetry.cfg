SPECIFICATION DSpec
CONSTANTS
    h1 = h1
    h2 = h2
    Handlers <- MCHandlers
    Res <- OneRes
    Original <- OneOriginal
    Keys = {"a", "b"}
    Amounts = {1, 2}
    Funds = 3
SYMMETRY HandlerSymmetry
INVARIANTS
    RetryIsSafe
