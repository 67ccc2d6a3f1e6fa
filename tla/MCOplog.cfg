SPECIFICATION OplogSpec
CONSTANTS
  Namespaces = {n1}
  WireWriters = {w1}
  SqlWriters = {s1}
  Limits <- ByRowsOrAge
  Installed <- AnyDatabase
  MaxSeq = 4
  MaxTime = 3
  Free = Free
  Pruner = Pruner
INVARIANTS OplogTypeOK NewestSurvives WatermarkExact StampsAreTrue
PROPERTIES CommitsAboveHead PrunesOnlyExcess
