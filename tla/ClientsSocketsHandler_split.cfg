SPECIFICATION Spec
CONSTANTS
  ServerKey = ServerKey
  Clients = {c1, c2}
  c1 = c1
  c2 = c2
  Workers = {w1, w2}
  w1 = w1
  w2 = w2
  NumServers = 2
  ReadSharded = TRUE
  Texts <- SomeTexts
  Splits = {"command", "header"}
  MaxTexts = 2
  MaxQueue = 2
  LeavesEarly = FALSE
  SetsMayFail = TRUE
CHECK_DEADLOCK FALSE
INVARIANTS
  TypeOK
  UndisturbedBuffer
  OneAnswerEach
  TimersForget
PROPERTIES
  EveryTextAnswered
  WellFormedIsAccepted
