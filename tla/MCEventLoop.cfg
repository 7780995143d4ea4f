SPECIFICATION LoopSpec
CONSTANTS
  Users = {u1, u2, u3}
  Data = {f1, f2}
  NoData = NoData
  Max = 2
  Senders = {s1, s2}
  Conns = {x1, x2}
  Fds = {d1}
  NoFd = NoFd
  TimerCount = 7
  NoTimer = NoTimer
  Branches = 2
  Running = {0, 1}
  MaxNow = 2
  MaxDelay = 1
  MaxCalls = 1
  LogThreads = {t1, t2}
  Unsigned = 10
  MaxOpen = 2
  MaxMixed = 1
  LogLevels = {0, 4}
  Formats <- SomeFormats
  Mails = {m1, m2, m3}
  NoMail = NoMail
INVARIANTS WatchersTrue DueInOrder LogTells MailsInTurn
PROPERTIES Woken ImplementsFifo
CHECK_DEADLOCK FALSE
