\* Sharded reads; the servers may refuse a get with an error.
SPECIFICATION FairSpec
CONSTANTS
  NumServers = 3
  ReadSharded = TRUE
  MaxRequests = 3
  MaxLost = 0
  SetReplies = {"STORED"}
  GetReplies = {"VALUE", "END", "ERROR", "SERVER_ERROR"}
  Capacity = 11000
  CommandLength = 9
  ErrorLength = 42
  LineLength = 20
  ValueLength = 60
  Cuts = {"inside", "line"}
INVARIANTS
  TypeOK
  AnswerIsForRequest
  AnswerIsComplete
  NothingLeftOnTheWire
  BuffersReset
PROPERTIES
  HandlerEnds
CHECK_DEADLOCK FALSE
