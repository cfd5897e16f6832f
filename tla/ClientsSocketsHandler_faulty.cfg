SPECIFICATION Spec
CONSTANTS
  ServerKey = ServerKey
  Clients = {c1, c2}
  c1 = c1
  c2 = c2
  Workers = {w1, w2}
  w1 = w1
  w2 = w2
  NumServers = 1
  ReadSharded = TRUE
  Texts <- MixedTexts
  Splits = {}
  MaxTexts = 2
  MaxQueue = 2
  LeavesEarly = TRUE
  SetsMayFail = FALSE
SYMMETRY Symmetry
CHECK_DEADLOCK FALSE
INVARIANTS
  OnlyWellFormedServed
  StayersUndisturbed
