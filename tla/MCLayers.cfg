SPECIFICATION LayersSpec
CONSTANTS
  MaxWrite = 1
  MaxBytes = 1
  MaxCalls = 2
  MaxOwed = 1
  MaxSome = 1
  MaxQueue = 1
  UserCloses = {{"read", "write"}}
  Users = {1, 2}
  Fds = {1, 2, 3, 4}
  Records = {1, 2, 3}
  Values <- BerValues
  MaxMembers = 2
  Gaps = {0, 29}
  JsTags = 30
  Boxes = {30}
  Classes <- BerClasses
  Lengths = {65536}
  MoreLengths = {126}
  Sizes = {125, 126, 256, 257, 65535, 65536}
  MaxFrames = 4
  MaxBeside = 1
  Deflate = TRUE
  Patience = 4
INVARIANTS TlsAnswers DescriptorsOwned WrittenIsRead WebSocketKept
CHECK_DEADLOCK FALSE
