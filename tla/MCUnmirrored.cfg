SPECIFICATION Spec
CONSTANTS
  Sessions = {s1, s2}
  Indexes = {}
  Kinds <- OnlyInserts
  Aborts = FALSE
  NoIndex = NoIndex
SYMMETRY SessionSymmetry
INVARIANTS EveryWriteMirrored
