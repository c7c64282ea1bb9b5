SPECIFICATION Spec
CONSTANTS
  Networks = {n1, n2}
  ConnKeys = {k1, k2}
  Conns = {c1, c2, c3, c4, c5, c6, c7, c8, c9, c10, c11, c12}
  Threads = {t1, t2, t3, t4, t5, t6}
  Requests = {r1}
  None = None
  DriverOn = TRUE
  MayFail = TRUE
  MaxEdits = 1
  MaxTemp = 1
INVARIANTS OneThreadPerConnection GreenletsBounded OwnNetworkClient
PROPERTIES UndisturbedKeepsConnection DeletedStaysReleased
VIEW View
\* The scheduler may be gone, and MaxTemp then stops the polls.
CHECK_DEADLOCK FALSE
