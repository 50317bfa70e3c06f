CONSTANTS
  m1 = m1  m2 = m2  m3 = m3
  Msg <- ThreeMessages
  NoMsg = NoMsg
  Bad <- OneBad
  Parts = 2
  Bindings = 1
  Exchanges = 1
  Prefetch = 2
  MaxEvents = 2
  Events = {"loss", "kill", "fatal", "interrupt", "remote cancel", "graceful"}
  e1 = e1  e2 = e2  s1 = s1  s2 = s2
  Event <- TwoEvents
  SamplesOf <- TwoSamples
  Leeway = 1
  MaxDays = 1
  LastTime = 4
  MaxTroubles = 1
SPECIFICATION MCSpec
CHECK_DEADLOCK FALSE
INVARIANTS
  DuplicatesOnlyAfterBreakdown
  ConfirmedIsSent
PROPERTIES
  KeepsPromise
  NothingHangs
  ConfirmedIsNotRepeated
  CollectionsEnd
