SPECIFICATION FairSpec
CONSTANTS
  Namespaces = {n1}
  WireWriters = {w1}
  SqlWriters = {s1}
  Limits <- Unlimited
  Installed <- OnlyFresh
  MaxSeq = 2
  MaxTime = 1
  Free = Free
  Pruner = Pruner
  Streams = {c1}
  Tails = {}
  Watches <- WatchOne
  BatchSizes = {1, 2}
PROPERTIES EventuallyDelivered
