CONSTANTS
  p1 = p1  c1 = c1
  Pusher <- OnePusher
  Closer <- OneCloser
  MaxCalls = 2
  FifoMax = 1
  Attempts = 2
  MaxItems = 2
  Events = {"timeout", "fatal", "logging"}
SPECIFICATION FairPusherSpec
INVARIANTS
  SentAsAccepted
  ReopenedOnlyAfterGivingUp
PROPERTIES
  ImplementsQueue
  ShutdownEnds
