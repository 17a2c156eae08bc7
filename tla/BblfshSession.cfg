SPECIFICATION FairSpec
CONSTANTS
  p1 = p1
  p2 = p2
  c1 = c1
  c2 = c2
  c3 = c3
  c4 = c4
  nil = nil
  Proc <- MCProc
  Client <- MCClient
  None <- MCNone
  MaxAttempts = 2
INVARIANTS
  TypeOK
  OneLiveConnection
  ClosedStaysClosed
  ErrorsHaveACause
PROPERTY
  CallsEnd
