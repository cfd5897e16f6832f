\* Errors, answers too long together, single bytes, and a connection that breaks.
SPECIFICATION FairSpec
CONSTANTS
  NumServers = 2
  ReadSharded = TRUE
  MaxRequests = 3
  MaxLost = 1
  SetReplies = {"STORED", "ERROR"}
  GetReplies = {"VALUE", "SERVER_ERROR"}
  Capacity = 11000
  CommandLength = 9
  ErrorLength = 42
  LineLength = 20
  ValueLength = 6000
  Cuts = {"byte"}

  
PROPERTIES
  AckMeansStoredEverywhere
CHECK_DEADLOCK FALSE
