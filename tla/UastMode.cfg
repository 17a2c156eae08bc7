SPECIFICATION Spec
CONSTANTS
  Goroutine = {"g1", "g2"}
  None = "none"
  Rows <- MCRows
  Mode <- MCMode
  Manifests <- MCManifests
  MaxBlobSize = 2
  CacheSize = 1
  MaxCalls = 1
INVARIANT
  EvaluatesAsWritten
\* After the last call there is nothing to do.
CHECK_DEADLOCK FALSE
