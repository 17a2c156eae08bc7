SPECIFICATION QuerySpec
CONSTANTS
    Data <- MCData
    Literal <- MCLiteral
    MainTree <- MCMainTree
    LocalFilters <- MCLocal
    MaxTables = 3
    MaxNatural = 4
    MaxAtoms = 2
    MaxLocal = 1
    Chains <- MCChains
    Orders <- MCOrders
    Fan = 2
    MaxRejected = 2
INVARIANTS
    NoFilterLost
    NaturalJoinsKeepRows
    FailsOnlyForWrongIterator
    RowStaysUntilAdvance
    KeptRowsChangeOnlyBehindSpareRoom
\* The table has been read.
CHECK_DEADLOCK FALSE
