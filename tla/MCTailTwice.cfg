SPECIFICATION Spec
CONSTANTS
  Namespaces = {n1}
  WireWriters = {}
  SqlWriters = {s1}
  Limits <- Unlimited
  Installed <- OnlyFresh
  MaxSeq = 2
  MaxTime = 1
  Free = Free
  Pruner = Pruner
  Streams = {}
  Tails = {c1}
  Watches <- WatchOne
  BatchSizes = {1, 2}
INVARIANTS TailDeliversOnce
