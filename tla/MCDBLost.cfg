SPECIFICATION FairSpec
CONSTANTS
  c1 = c1
  c2 = c2
  t1 = t1
  NoOne = NoOne
  Clients <- MCClients
  Owner = c1
  Texts <- MCTexts
  Calls <- WriteCalls
  InitialFile <- EmptyTables
  Quiesce = TRUE
  MayReconnect = FALSE
  CommitMayFail = FALSE
  MaxCalls = 2
  MaxOpens = 1
  MaxCrashes = 0
CHECK_DEADLOCK FALSE
PROPERTY FinishedWriteCommitted
