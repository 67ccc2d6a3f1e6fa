----------------------------- MODULE SqlGateway -----------------------------
(***************************************************************************)
(* SQL for clients that only speak Mongo (sqlgateway.cc, sqlguard.cpp):    *)
(* {chimeraSql: ...} and a leading {$sql: ...} stage, on the connection's  *)
(* own session, which the next command uses again. A DBA turns             *)
(* chimera_mongo_sql_writes on and off at any moment.                      *)
(*                                                                         *)
(* A statement is its leading keyword, what it really does, and whether    *)
(* the server finds an error in it. The server is external: DDL commits    *)
(* what is open and is no part of a transaction, and anything else that    *)
(* writes is refused in a READ ONLY one.                                   *)
(***************************************************************************)
EXTENDS Integers, FiniteSets

CONSTANTS Exposed, MaxWrites

ASSUME SqlGatewayAssumption == Exposed \subseteq BOOLEAN /\ MaxWrites \in Nat

VARIABLES
  flag,      \* chimera_mongo_sql_writes
  exposed,   \* the listener is bound beyond loopback
  step,      \* where run_sql_gateway is
  stmt,      \* its statement
  readOnly,  \* its decision
  session,   \* the session's transaction: none, rw or ro
  pending,   \* writes of the open transaction
  written,   \* committed writes
  outcome,   \* how the last call ended
  manual     \* history: a client has run transaction statements of its own

gatewayVars == <<flag, exposed, step, stmt, readOnly, session, pending, written, outcome, manual>>

(* What a keyword may turn out to do: a SELECT may call a function that    *)
(* writes, EXPLAIN does nothing, WITH may stand before UPDATE.             *)
SqlTexts == {<<"SELECT", "reads">>, <<"SELECT", "writes">>, <<"EXPLAIN", "reads">>,
             <<"UPDATE", "writes">>, <<"WITH", "reads">>, <<"WITH", "writes">>,
             <<"CREATE", "ddl">>, <<"BEGIN", "begins">>}
SqlStatements == {[keyword |-> t[1], effect |-> t[2], fails |-> f] : t \in SqlTexts, f \in BOOLEAN}
NoStatement == [keyword |-> "", effect |-> "reads", fails |-> FALSE]

(* Mutant of IsReadOnlyStatement: WITH is let through, and so is DDL.      *)
GuardLetsDdl(s) == s.keyword \in {"SELECT", "EXPLAIN", "WITH", "CREATE"}

(* is_read_only_statement, by the leading keyword; SHOW and DESCRIBE are   *)
(* like EXPLAIN.                                                           *)
IsReadOnlyStatement(s) == s.keyword \in {"SELECT", "EXPLAIN"}

GatewayInit ==
  /\ flag = FALSE /\ exposed \in Exposed /\ step = "idle" /\ stmt = NoStatement
  /\ readOnly = TRUE /\ session = "none" /\ pending = 0 /\ written = 0
  /\ outcome = "ok" /\ manual = FALSE

SetFlag ==
  /\ flag' = ~flag
  /\ UNCHANGED <<exposed, step, stmt, readOnly, session, pending, written, outcome, manual>>

Return(result) == step' = "idle" /\ stmt' = NoStatement /\ outcome' = result

(* The guards: a listener others can reach, then the flag and the keyword, *)
(* looked at once.                                                         *)
Refuses(s) == exposed \/ (~flag /\ ~IsReadOnlyStatement(s))

Call(s) ==
  /\ step = "idle"
  /\ readOnly' = ~flag
  /\ IF Refuses(s) THEN Return("unauthorized")
     ELSE step' = (IF flag THEN "query" ELSE "start") /\ stmt' = s /\ UNCHANGED outcome
  /\ UNCHANGED <<flag, exposed, session, pending, written, manual>>

(* START TRANSACTION commits what an earlier statement left open.          *)
StartReadOnly ==
  /\ step = "start" /\ step' = "query"
  /\ session' = "ro" /\ written' = written + pending /\ pending' = 0
  /\ UNCHANGED <<flag, exposed, stmt, readOnly, outcome, manual>>

(* It fails before it has done anything, outside the try.                  *)
StartReadOnlyFails ==
  /\ step = "start" /\ Return("error")
  /\ UNCHANGED <<flag, exposed, readOnly, session, pending, written, manual>>

(* The server's answer to the statement.                                   *)
Errs == stmt.fails \/ (session = "ro" /\ stmt.effect = "writes")

Effect ==
  CASE stmt.effect = "writes" /\ session = "none" ->
         written' = written + 1 /\ UNCHANGED <<pending, session>>
    [] stmt.effect = "writes" /\ session = "rw" ->
         pending' = pending + 1 /\ UNCHANGED <<written, session>>
    [] stmt.effect = "ddl" ->
         written' = written + pending + 1 /\ pending' = 0 /\ session' = "none"
    [] stmt.effect = "begins" ->
         written' = written + pending /\ pending' = 0 /\ session' = "rw"
    [] OTHER -> UNCHANGED <<written, pending, session>>

Query ==
  /\ step = "query" /\ ~Errs
  /\ Effect
  /\ manual' = (manual \/ stmt.effect = "begins")
  /\ IF readOnly THEN step' = "commit" /\ UNCHANGED <<stmt, outcome>> ELSE Return("ok")
  /\ UNCHANGED <<flag, exposed, readOnly>>

(* Mutant of AfterError: the session keeps its READ ONLY transaction.      *)
NoRollback == UNCHANGED <<session, pending>>

(* catch: a read-only call rolls back.                                     *)
AfterError ==
  IF readOnly THEN session' = "none" /\ pending' = 0 ELSE UNCHANGED <<session, pending>>

QueryFails ==
  /\ step = "query" /\ Errs
  /\ AfterError
  /\ Return("error")
  /\ UNCHANGED <<flag, exposed, readOnly, written, manual>>

CommitReadOnly ==
  /\ step = "commit"
  /\ session' = "none" /\ written' = written + pending /\ pending' = 0
  /\ Return("ok")
  /\ UNCHANGED <<flag, exposed, readOnly, manual>>

(* Outside the try as well, and nothing rolls back: but the server ends a  *)
(* transaction whatever it answers to its COMMIT.                          *)
CommitReadOnlyFails ==
  /\ step = "commit"
  /\ session' = "none" /\ pending' = 0
  /\ Return("error")
  /\ UNCHANGED <<flag, exposed, readOnly, written, manual>>

Bounded == written + pending < MaxWrites

GatewayNext ==
  \/ SetFlag
  \/ \E s \in SqlStatements : Bounded /\ Call(s)
  \/ StartReadOnly \/ StartReadOnlyFails \/ Query \/ QueryFails \/ CommitReadOnly \/ CommitReadOnlyFails

GatewaySpec == GatewayInit /\ [][GatewayNext]_gatewayVars

----------------------------------------------------------------------------
(* Properties                                                              *)

(* "Writes are off unless a DBA turns them on, and that is enforced        *)
(* twice": no statement that was let in while they were off, a SELECT of a *)
(* writing function included, ever writes; whatever the DBA does with the  *)
(* flag while it runs.                                                     *)
ReadOnlyNeverWrites ==
  [][step = "query" /\ readOnly => written' + pending' <= written + pending]_gatewayVars

(* Between two calls the session has no transaction open, however the last *)
(* one ended, so that the connection's next command sees the present; only *)
(* a client that opened one itself, with writes on, has one. And a READ    *)
(* ONLY one, in which the next insert would fail, is never left behind.    *)
SessionLeftClean ==
  step = "idle" => session # "ro" /\ (~manual => session = "none")
=============================================================================
