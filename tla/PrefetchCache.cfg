CONSTANTS
  Proc = {p1, p2}
  Faults = {"exception", "crash"}
  MaxVer = 2
  FilesExpire = TRUE
  Reader = {r}
  Stored = {1, 2}
  MaxAge = 1
  MaxTime = 3
SPECIFICATION MCSpec
SYMMETRY Symmetry
INVARIANTS
  AttemptsMakeSense
  RetrievedAsStored
PROPERTIES
  NeverBackInTime
  StoredAtOnce
