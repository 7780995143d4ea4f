SPECIFICATION WSSpec
CONSTANTS
  Conns = {c1, c2}
  MaxFrames = 2
  MaxLinks = 2
  MaxRequests = 2
  MaxRegs = 1
  MaxSignals = 1
  Classes <- StubClasses
  Services <- StubServices
  Samples <- StubSamples
  OldModules <- StubClassPaths
  Headers <- Texts
INVARIANTS MapsAgree ToldInOrder StoppedForAReason CallersAnswered StubsAgree
PROPERTY NobodyWaits
CHECK_DEADLOCK FALSE
