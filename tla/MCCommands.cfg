SPECIFICATION Spec
CONSTANTS
  WireClients = {c1}
  SqlCallers = {g1}
  Ids = {1, 2}
  Collections = {n1, n2}
  Home <- SameHome
  MaxResult = 2
  BatchSizes = {0, 1}
  DefaultBatchSize = 1
  IdleTimeout = 0
  MaxBatch = 3
  MaxClock = 2
  Exposed = {TRUE, FALSE}
  MaxWrites = 3
INVARIANTS CursorsInv ReplyAccountsForBatch FenceHolds SessionLeftClean
PROPERTIES GatewayReturns AbandonedCursorsGo 
CHECK_DEADLOCK FALSE
