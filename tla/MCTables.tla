------------------------------ MODULE MCTables ------------------------------
(* The two parts that alter tables, side by side: a behaviour is one of a  *)
(* collection's life or one of its projections.                            *)
EXTENDS MCCatalog, Projection

VARIABLE part

DistinctStems == [c \in Columns |-> c]
SomeValues == {Word, 2}
(* Text, an integer, and a double that is none.                            *)
SomeScalars == {<<"bare", Word>>, <<"$numberInt", 2>>, <<"$numberDouble", 3>>}

Symmetries == SessionSymmetry \cup Permutations(Columns) \cup Permutations(Fields)

TablesInit == Init /\ ProjectionInit /\ part \in {"catalog", "projection"}

TablesNext ==
  /\ UNCHANGED part
  /\ \/ part = "catalog" /\ Next /\ UNCHANGED projVars
     \/ part = "projection" /\ ProjectionNext /\ UNCHANGED vars

TablesSpec == TablesInit /\ [][TablesNext]_<<vars, projVars, part>>
=============================================================================
