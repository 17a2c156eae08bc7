SPECIFICATION MCSpec
CONSTANTS
  Scans <- MCScans
  Repos = 2
  Width = 2
  MaxMarks = 2
  Column <- MCColumn
  handledCols <- MCHandled
  Value <- MCValue
  Norm <- MCNorm
  Filters <- MCFilters
  HashColumn <- MCHashColumn
INVARIANTS
  NoRowLost
  OnlyMatchingRows
  NothingSkippedSilently
  FailsForACause
  FilesOfATreeOnce
  ClosesRepositories
PROPERTIES
  ImplementsScan
  Terminates
\* A query that has ended does nothing.
CHECK_DEADLOCK FALSE
