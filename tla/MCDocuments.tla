---------------------------- MODULE MCDocuments ----------------------------
(* Instances of Documents: every command on both supported servers.        *)
EXTENDS Documents, TLC

AllKinds == Reading \cup {"insert", "purge", "sql"}
UpdateKinds == {"update", "sql"}

(* Init and Next treat all operations alike.                                  *)
OpSymmetry == Permutations(Ops)
=============================================================================
