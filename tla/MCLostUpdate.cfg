SPECIFICATION Spec
CONSTANTS
  Docs = {d1, d2}
  Stored = {d1, d2}
  Ops = {a, b}
  Kinds <- UpdateKinds
  Servers = {FALSE}
  None = None
SYMMETRY OpSymmetry
INVARIANTS UpdatesAccumulate
CHECK_DEADLOCK FALSE
