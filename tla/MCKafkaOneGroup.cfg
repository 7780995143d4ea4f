SPECIFICATION KafkaSpec
CONSTANTS
  Groups = {g1, g2}
  NoGroup = NoGroup
  Conns = {c1, c2, c3}
  None = None
  MaxTimers = 1
  MaxSent = 2
INVARIANT OneGroup
CHECK_DEADLOCK FALSE
