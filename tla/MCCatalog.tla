----------------------------- MODULE MCCatalog -----------------------------
(* Instances of Catalog.                                                   *)
EXTENDS Catalog, TLC

AllKinds == Creating \cup Dropping \cup {"adopt", "dropIndex"}
OnlyInserts == {"insert"}

SessionSymmetry == Permutations(Sessions)
=============================================================================
