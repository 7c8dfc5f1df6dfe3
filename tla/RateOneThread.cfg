SPECIFICATION Spec
CONSTANTS
  t1 = t1 t2 = t2
  Threads = {t1}
  Rate = 2
  Per = 3
  Burst = 2
  MaxRequests = 7
  MaxTime = 6
 
PROPERTIES RefusalsJustified
CHECK_DEADLOCK FALSE
