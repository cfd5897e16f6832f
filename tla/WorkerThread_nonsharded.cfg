\* Reads that go to one server; servers refuse SETs and reads.
SPECIFICATION FairSpec
CONSTANTS
  NumServers = 2
  ReadSharded = FALSE
  MaxRequests = 3
  MaxLost = 0
  SetReplies = {"STORED", "NOT_STORED", "ERROR"}
  GetReplies = {"VALUE", "END", "SERVER_ERROR"}
  Capacity = 11000
  CommandLength = 9
  ErrorLength = 42
  LineLength = 20
  ValueLength = 60
  Cuts = {"byte", "inside"}
PROPERTIES
  InStepUntilDropped
CHECK_DEADLOCK FALSE
