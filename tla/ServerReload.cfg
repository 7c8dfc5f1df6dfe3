SPECIFICATION Spec
CONSTANTS
  u1 = u1 u2 = u2 t1 = t1 c1 = c1 c2 = c2 k1 = k1 k2 = k2 w1 = w1 w2 = w2
  p1 = p1 p2 = p2 s1 = s1
  UdpAddrs = {u1, u2}
  TcpAddrs = {t1}
  Conns = {c1}
  CtlConns = {}
  Workers = {w1, w2}
  Configs <- ReloadConfigs
  Bad = Bad
  None = None
  WorkerInit = "flaky"
  PipeCap = 3
  MaxPackets = 2
  MaxSignals = 2
  MaxFaults = 0
  MaxInitFailures = 0
  MaxTime = 0
INVARIANTS TypeOK SelectorFollowsListeners RequestsAccounted NothingLeftBehind FilesFollowConfig
