CONSTANTS
  Group = {g, h, k}
  Day = 4
  Wait = 2
  Tolerances = {0, 2}
  Times = {0, 1, 2, 3, 4}
  NoMessage = NoMessage
  MaxEvents = 5
  MaxFailedOutputs = 1
  SizeOf <- Sizes
  MaxEnds = 3
  a = a  b = b  c = c
  Row <- ThreeRows
  TimeOf <- ThreeTimes
  Run = {p, q}
  MismatchIsFatal = {TRUE, FALSE}
  MaxFailures = 1
  v = v  w = w  NoLines = NoLines
  Content = {NoLines, v, w}
  Period = 2
  MaxRaw = 4
  MaxLate = 1
  MaxMishaps = 2
SPECIFICATION MCSpec
SYMMETRY Symmetry
CHECK_DEADLOCK FALSE
INVARIANTS
  GroupsAreRight
  FilesAgreeUnlessTorn
  TroubleHasACause
  ArchiveRecovers
PROPERTIES
  RowsAreKept
