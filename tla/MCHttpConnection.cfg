SPECIFICATION HttpSpec
CONSTANTS
  MaxRequests = 2
  BigBody = 3
  InMemory = 2
  Parsers = {q1, q2, q3}
  ThreadCount = 2
  MaxEntries = 1
  MaxChunks = 2
  MaxStarts = 2
  MaxParts = 1
  Certs <- Issued
  CertFiles <- IssuedAs
  PrivateKeys = {"k1", "k2"}
  CrlFiles = {0}
  NoKey = NoKey
  MaxFiles = 2
  MaxServed = 4
  MaxVersion = 2
  MaxRestarts = 3
  MaxElements = 5
  Names = {n1, n2, n3}
  NoName = NoName
  MaxAsked = 2
  Beneath <- Directory
  Scopes = {o1, o2}
  Throttle = 2
  MaxTime = 4
  MaxBinds = 3
  MaxFires = 3
  MaxNested = 2
INVARIANTS PipelineKept SharedSafely ThreadsOutlive ForwardsToTheEnd RepliedOnce CredentialsFit SiteServed
PROPERTIES NothingHangs
CHECK_DEADLOCK FALSE
