SPECIFICATION BackendsSpec
CONSTANTS
  Depth = 2
  p = p
  q = q
  Updaters = {p, q}
  Last = 2
  Pieces = 2
  MaxAgain = 1
  Scopes = 3
  Groups = {g1, g2}
  NoGroup = NoGroup
  Conns = {c1, c2, c3}
  None = None
  MaxTimers = 1
  MaxSent = 2
  Members = {1, 2, 3}
  Topics = {1, 2}
  Partitions = {0, 1, 2}
  Nodes = {n1, n2}
  NoNode = NoNode
  Sockets = {x1, x2, x3}
  NoSocket = NoSocket
  Requests = {r1, r2}
  MaxRetries = 1
  MaxFieldCount = 2
  Given <- SomeGiven
  Places = 2
  Rows <- SomeRows
  Byte = 8
  Milli = 10
  Delta = 3
INVARIANTS OneOwner EndsClean ScopesTell PointersLive ClientKept FairShares ValuesKept
PROPERTY RevisionsWhole
CHECK_DEADLOCK FALSE
