SPECIFICATION Spec
CONSTANTS
  Clients = {c1, c2}
  c1 = c1
  c2 = c2
  Workers = {w1, w2}
  w1 = w1
  w2 = w2
  Hook = Hook
  Net = Net
  None = None
  ServerKey = ServerKey
  MaxRequests = 2
  Signalled = TRUE
  NetMayFail = TRUE
  ServersMayFail = TRUE
  ServersMayHang = TRUE
CHECK_DEADLOCK FALSE
INVARIANTS
  TypeOK
  ShutdownOnce
  CompletedMeansStopped
PROPERTIES
  ShutdownCompletes
  ThreadsEnd
