SPECIFICATION MCSpec
CONSTANTS
  r1 = r1
  r2 = r2
  b1 = b1
  b2 = b2
  p1 = p1
  p2 = p2
  c1 = c1
  c2 = c2
  t1 = t1
  NoBody = NoBody
  Readers <- MCReaders
  Bodies <- MCBodies
  solver_count = 2
  Capacity = 2
  Records = 4
  Nothing = Nothing
  Pushers = {q1, q2}
  Crews <- MCCrews
  MaxPushes = 2
  NoOne = NoOne
  Clients <- MCClients
  Owner = c1
  Texts <- MCTexts
  Calls <- FewCalls
  InitialFile <- EmptyTables
  Quiesce = TRUE
  MayReconnect = FALSE
  CommitMayFail = FALSE
  MaxCalls = 2
  MaxOpens = 1
  MaxCrashes = 0
INVARIANTS
  DataGoRound
  RoundRobin
  RegistryExact
  TakenInOrder
PROPERTIES
  SetUpReturns
  PopReturns
  EveryCallReturns
  RequestServed
