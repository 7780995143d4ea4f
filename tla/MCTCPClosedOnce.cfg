SPECIFICATION Spec
CONSTANTS
  MaxWrite = 1
  MaxBytes = 2
  MaxCalls = 2
  MaxOwed = 2
  MaxSome = 1
INVARIANT ClosedOncePerState
CHECK_DEADLOCK FALSE
