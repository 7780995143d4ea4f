SPECIFICATION TlsSpec
CONSTANTS
  MaxWrite = 1
  MaxBytes = 1
  MaxCalls = 2
  MaxOwed = 1
  MaxSome = 1
  MaxQueue = 1
  UserCloses = {{"read", "write"}}
PROPERTY WrittenWhenFinished
CHECK_DEADLOCK FALSE
