SPECIFICATION Spec
CONSTANTS
  ServerKey = ServerKey
  Clients = {c1}
  c1 = c1
  Workers = {w1}
  w1 = w1
  NumServers = 2
  ReadSharded = TRUE
  Texts <- SomeTexts
  Splits = {"line"}
  MaxTexts = 2
  MaxQueue = 2
  LeavesEarly = FALSE
  SetsMayFail = FALSE
SYMMETRY Symmetry
CHECK_DEADLOCK FALSE
INVARIANTS
  NetRuns
