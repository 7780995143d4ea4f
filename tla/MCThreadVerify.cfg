SPECIFICATION FairSpec
CONSTANTS
  Callers = {c1, c2}
  NoCall = NoCall
  ThreadCount = 2
  QueueSize = 2
  MaxCalls = 2
INVARIANTS
  CallsSafe
PROPERTIES BegunInOrder CallsServed
CHECK_DEADLOCK FALSE
