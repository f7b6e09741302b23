SPECIFICATION FairFlowSpec
CHECK_DEADLOCK FALSE
CONSTANTS
  MaxAttempts = 2
  MaxCommands = 2
  MaxStarts = 2
  Code <- Codes
  NodeCode = 0
  File = {"a", "b"}
  PageFile = "a"
  OnlineFile = "b"
INVARIANTS PageIsSound RestsOnNewest CommandsKeepTheirWord
PROPERTIES EverythingEnds
