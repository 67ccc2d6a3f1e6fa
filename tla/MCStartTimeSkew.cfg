SPECIFICATION Spec
CONSTANTS
  Namespaces = {n1}
  WireWriters = {}
  SqlWriters = {s1, s2}
  Limits <- Unlimited
  Installed <- OnlyFresh
  MaxSeq = 3
  MaxTime = 2
  Free = Free
  Pruner = Pruner
  Streams = {c1}
  Tails = {}
  Watches <- WatchOne
  BatchSizes = {1, 2}
INVARIANTS StartTimeInclusive
