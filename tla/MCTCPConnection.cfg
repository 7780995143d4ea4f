SPECIFICATION FairSpec
CONSTANTS
  MaxWrite = 2
  MaxBytes = 2
  MaxCalls = 2
  MaxOwed = 1
  MaxSome = 1
INVARIANTS
  DescriptorClosedOnce
  BytesDelivered
  NothingOwed
PROPERTIES ClosesFinish ImplementsChannel
CHECK_DEADLOCK FALSE
