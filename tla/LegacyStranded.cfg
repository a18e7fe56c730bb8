SPECIFICATION Spec
CONSTANTS
    h1 = h1
    h2 = h2
    h3 = h3
    h4 = h4
    Hashes <- MCHashes
    DerivedId <- MCDerivedId
    OldRows <- MCOldRows
    PageSize = 2
    MaxLaunches = 3
CHECK_DEADLOCK FALSE
INVARIANT FreshHasNothing
