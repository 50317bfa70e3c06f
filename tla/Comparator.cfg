CONSTANTS
  Lists <- ThreeLists
  NoUrl = NoUrl
  MaxDeliveries = 5
  MaxExits = 1
  MaxInterrupts = 1
SPECIFICATION ComparatorSpec
CHECK_DEADLOCK FALSE
INVARIANTS
  SeriesEndProperly
  ConsumersAgree
