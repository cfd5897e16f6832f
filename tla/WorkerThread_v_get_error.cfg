\* A refused multi-GET is not answered.
SPECIFICATION FairSpec
CONSTANTS
  NumServers = 2
  ReadSharded = FALSE
  MaxRequests = 3
  MaxLost = 0
  SetReplies = {"STORED"}
  GetReplies = {"VALUE", "END", "ERROR", "SERVER_ERROR"}
  Capacity = 11000
  CommandLength = 9
  ErrorLength = 42
  LineLength = 20
  ValueLength = 60
  Cuts = {}
INVARIANTS
  NoRequestDropped
CHECK_DEADLOCK FALSE
