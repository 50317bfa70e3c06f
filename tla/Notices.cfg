SPECIFICATION Spec
CONSTANTS
  Scenarios <- MCScenarios
  Clients = 2
INVARIANTS
  PublishedCountedMailed
PROPERTIES
  EntriesAreRight
  EveryEventIsCounted
CHECK_DEADLOCK FALSE
