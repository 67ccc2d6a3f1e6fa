--------------------------- MODULE MCChangeStream ---------------------------
(* Small instances of ChangeStream.                                        *)
EXTENDS ChangeStream, MCOplog

Watched == CHOOSE n \in Namespaces : TRUE

(* Every consumer watches one namespace; others may be written to.         *)
WatchOne == [c \in Consumers |-> {Watched}]
=============================================================================
