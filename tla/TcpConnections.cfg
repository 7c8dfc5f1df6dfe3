SPECIFICATION Spec
CONSTANTS
  c1 = c1
  c2 = c2
  c3 = c3
  Conns = {c1, c2, c3}
  Messages <- Sizes
  Allowed = {c1, c2, c3}
  MaxConnections = 2
  Workers = {w1, w2}
  ReplyOctets = 2
  None = None
CHECK_DEADLOCK FALSE
INVARIANTS RequestsAsSent RepliesWhole
PROPERTIES RequestsAnswered  
