SPECIFICATION Spec
CONSTANTS
  a = a b = b w1 = w1 w2 = w2 w3 = w3
  Categories = {a, b}
  Settings <- AllSettings
  Global = Global
  Workers = {w1, w2, w3}
  None = None
  MaxPackets = 3
  MaxReloads = 3
INVARIANTS NothingLost UnwantedRemoved
CHECK_DEADLOCK FALSE
