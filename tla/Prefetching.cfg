CONSTANTS
  p1 = p1  p2 = p2  r1 = r1  r2 = r2
  Proc <- TwoProcesses
  Faults = {"exception", "crash"}
  Reader <- TwoReaders
  MaxVersion = 2
SPECIFICATION MCSpec
INVARIANTS
  AssertionsHold
PROPERTIES
  ImplementsJob
  NobodyWaitsForEver
  ImplementsPromise
  StateIsReliable
  NobodyHangs
