SPECIFICATION TablesSpec
CONSTANTS
  Sessions = {s1, s2}
  Indexes = {x1, x2}
  Kinds <- AllKinds
  Aborts = TRUE
  NoIndex = NoIndex
  Columns = {c1, c2}
  Stem <- DistinctStems
  Fields = {f, g}
  Types = {"INT", "TEXT"}
  Values <- SomeValues
  Scalars <- SomeScalars
  MaxCalls = 2
SYMMETRY Symmetries
INVARIANTS CatalogTypeOK MirrorOrInProgress ProjectionInv ColumnAgrees WriteThrough
CHECK_DEADLOCK FALSE
