CONSTANTS
  Proc = {p1, p2, p3}
  Faults = {}
  MaxVer = 2
  FilesExpire = FALSE
SPECIFICATION CacheSpec
SYMMETRY Symmetry
INVARIANT NoCircularWait
