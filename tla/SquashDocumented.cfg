SPECIFICATION Spec
CONSTANTS
    Data <- MCData
    Literal <- MCLiteral
    MainTree <- MCMainTree
    LocalFilters <- MCLocal
    MaxTables = 2
    MaxNatural = 3
    MaxAtoms = 2
    MaxLocal = 0
INVARIANT
    DocumentedJoinsAreSquashed
\* A query is planned once.
CHECK_DEADLOCK FALSE
