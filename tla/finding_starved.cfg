SPECIFICATION FairSpec
CONSTANTS
  Networks = {n1}
  ConnKeys = {k1, k2}
  Conns = {c1, c2, c3, c4, c5, c6, c7, c8, c9, c10}
  Threads = {t1, t2, t3, t4}
  Requests = {r1}
  None = None
  DriverOn = TRUE
  MayFail = FALSE
  MaxEdits = 2
  MaxTemp = 1
VIEW LivenessView
PROPERTY EnabledNetworkPolled
