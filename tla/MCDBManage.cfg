SPECIFICATION DBSpec
CONSTANTS
  c1 = c1
  c2 = c2
  t1 = t1
  NoOne = NoOne
  Clients <- MCClients
  Owner = c1
  Texts <- MCTexts
  Calls <- AllCalls
  InitialFile <- NoTables
  Quiesce = TRUE
  MayReconnect = TRUE
  CommitMayFail = FALSE
  MaxCalls = 3
  MaxOpens = 2
  MaxCrashes = 1
CHECK_DEADLOCK FALSE
INVARIANTS
  TransactionOpen
  OneThreadPerDb
PROPERTY ImplementsDurableStore
