SPECIFICATION Spec
CONSTANTS
  Namespaces = {n1, n2}
  WireWriters = {}
  SqlWriters = {s1}
  Limits <- RowsOrAge
  Installed <- AnyDatabase
  MaxSeq = 3
  MaxTime = 3
  Free = Free
  Pruner = Pruner
  Streams = {c1}
  Tails = {t1}
  Watches <- WatchOne
  BatchSizes = {1, 2}
ACTION_CONSTRAINT Focus
INVARIANTS NoSilentGap DeliversOnce StartTimeInclusiveIfOrdered ConsumersInv
PROPERTIES LostOnlyWhenPruned ImplementsEventFeed
