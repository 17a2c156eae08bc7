SPECIFICATION Spec
CONSTANTS
  Half = 4
  NoHash <- MCNoHash
  None <- MCNone
  Object <- MCObject
  Count <- MCCount
  Contents <- MCContents
  Stores <- MCStores
INVARIANTS
  LookupAgreesWithScan
  KeysStayReadable
  NoIndexWithoutItsRows
\* A lookup that has ended is over.
CHECK_DEADLOCK FALSE
