SPECIFICATION SSpec
CONSTANTS
    p = p
    q = q
    t1 = t1
    t2 = t2
    Postings = {p, q}
    EntryAccounts <- MCEntryAccounts
    SnapAccounts = {1, 2}
    Snapshotters = {t1, t2}
    AsOf = {2}
    RetentionAge = 0
    BatchN = 1
    MaxTime = 3
INVARIANTS
    SInvariant
    ExactApartFromSnapshot
PROPERTIES
    NewestIsKept
SYMMETRY Calls
CHECK_DEADLOCK FALSE
