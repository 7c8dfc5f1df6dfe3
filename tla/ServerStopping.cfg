SPECIFICATION FairSpec
CONSTANTS
  u1 = u1 u2 = u2 t1 = t1 c1 = c1 c2 = c2 k1 = k1 k2 = k2 w1 = w1 w2 = w2
  p1 = p1 p2 = p2 s1 = s1
  UdpAddrs = {u1}
  TcpAddrs = {}
  Conns = {}
  CtlConns = {k1}
  Workers = {w1}
  Configs <- StoppingConfigs
  Bad = Bad
  None = None
  WorkerInit = "flaky"
  PipeCap = 6
  MaxPackets = 1
  MaxSignals = 2
  MaxFaults = 1
  MaxInitFailures = 1
  MaxTime = 0
PROPERTIES TerminationLeadsToExit ShutdownKept RequestsServed
