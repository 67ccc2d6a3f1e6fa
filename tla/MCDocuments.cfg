SPECIFICATION Spec
CONSTANTS
  Docs = {d1, d2}
  Stored = {d1}
  Ops = {a, b, c}
  Kinds <- AllKinds
  Servers = {TRUE, FALSE}
  None = None
SYMMETRY OpSymmetry
INVARIANTS UpdatesAccumulateIfIsolated RepliesAreTrueIfIsolated DocumentsInv OnlyInsertsWaitInCircle
CHECK_DEADLOCK FALSE
