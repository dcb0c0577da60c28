SPECIFICATION Spec
CONSTANTS
    AccountRows <- TwoAccounts
    Whole = 2
    RealLimit = 4
    DigitValues = {1, 2, 4}
    MaxTime = 4
    Unit = 4
    Ids = {1, 2}
    Limits = {0, 1}
INVARIANTS
    StoresAgree
    RightUpToResolution
CHECK_DEADLOCK FALSE
