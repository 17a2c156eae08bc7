SPECIFICATION FairSpec
CONSTANTS
  Plans <- MCPlans
  Width <- MCWidth
  MaxMarks <- MCMaxMarks
INVARIANTS
  NothingSkippedSilently
  FailsForACause
  NoAdvanceAfterEnd
PROPERTIES
  ImplementsJoin
  Terminates
\* A closed query does nothing.
CHECK_DEADLOCK FALSE
