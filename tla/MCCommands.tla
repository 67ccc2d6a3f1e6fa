----------------------------- MODULE MCCommands -----------------------------
(* Three parts of the command layer that have no state in common, side by  *)
(* side: a behaviour is one of the cursor registry, of one write command   *)
(* or of the SQL gateway.                                                  *)
EXTENDS Cursors, WriteBatch, SqlGateway

VARIABLE part
vars == <<cursorVars, batchVars, gatewayVars, part>>

SameHome == [u \in Users |-> CHOOSE ns \in Collections : TRUE]

Init ==
  /\ CursorsInit /\ BatchInit /\ GatewayInit
  /\ part \in {"cursors", "batch", "gateway"}
  /\ exposed => part = "gateway"

Next ==
  /\ UNCHANGED part
  /\ \/ part = "cursors" /\ CursorsNext /\ UNCHANGED <<batchVars, gatewayVars>>
     \/ part = "batch" /\ BatchNext /\ UNCHANGED <<cursorVars, gatewayVars>>
     \/ part = "gateway" /\ GatewayNext /\ UNCHANGED <<cursorVars, batchVars>>

Spec == Init /\ [][Next]_vars /\ CursorsFairness
=============================================================================
