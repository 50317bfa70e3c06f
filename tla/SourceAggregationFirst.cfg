CONSTANTS
  Group = {g, h}
  Day = 4
  Wait = 2
  Tolerances = {0}
  Times = {0, 1, 2, 3, 4}
  NoMessage = NoMessage
  MaxEvents = 4
  MaxFailedOutputs = 1
SPECIFICATION AggregationSpec
SYMMETRY Symmetry
CHECK_DEADLOCK FALSE
INVARIANTS
  FirstIsPublished
