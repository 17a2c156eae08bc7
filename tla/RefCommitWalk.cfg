SPECIFICATION FairSpec
CONSTANTS
  Commit <- MCCommit
  Tag <- MCTag
  Other <- MCOther
  Symbolic <- MCSymbolic
  BadRef <- MCBadRef
  None <- MCNone
  Repos <- MCRepos
PROPERTY
  Terminates
INVARIANTS
  HistoryIndexIsADistance
  WholeHistoryOfEachReference
  RepeatedOnlyIfWaiting
  NothingSkippedSilently
\* A closed iterator is not used again.
CHECK_DEADLOCK FALSE
