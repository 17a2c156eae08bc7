SPECIFICATION FilterSpec
CONSTANTS
  Column <- MCColumn
  handledCols <- MCHandled
  Value <- MCValue
  Norm <- MCNorm
  Filters <- MCTwoFilters
INVARIANT
  ConflictsGiveNoRows
\* The filters are classified once.
CHECK_DEADLOCK FALSE
