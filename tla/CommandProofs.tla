--------------------------- MODULE CommandProofs ----------------------------
(***************************************************************************)
(* Proofs about one write command (WriteBatch) and about the SQL gateway   *)
(* (SqlGateway). They share no state; each has its inductive invariant,    *)
(* which says at every step of the handler what the property says of its   *)
(* end.                                                                    *)
(***************************************************************************)
EXTENDS WriteBatch, SqlGateway, FiniteSetTheorems, TLAPS

----------------------------------------------------------------------------
(* The SQL gateway                                                         *)

GatewayTypeOK ==
  /\ flag \in BOOLEAN /\ exposed \in BOOLEAN
  /\ step \in {"idle", "start", "query", "commit"}
  /\ stmt \in SqlStatements \cup {NoStatement}
  /\ readOnly \in BOOLEAN /\ manual \in BOOLEAN
  /\ session \in {"none", "rw", "ro"}
  /\ pending \in Nat /\ written \in Nat

(* A call that decided on read-only keeps to it: its statement passed the  *)
(* keyword guard, it is in a READ ONLY transaction from the start to its   *)
(* end, and nobody else ever is. A read-write transaction is a client's    *)
(* own.                                                                    *)
GatewayInductive ==
  /\ GatewayTypeOK
  /\ step \in {"start", "commit"} => readOnly
  /\ step # "idle" /\ readOnly => IsReadOnlyStatement(stmt)
  /\ step \in {"query", "commit"} /\ readOnly => session = "ro"
  /\ session = "ro" => step \in {"query", "commit"} /\ readOnly
  /\ session = "rw" => manual

(* The keyword guard, seen from the effects: a statement it lets in may    *)
(* read or write, but neither ends a transaction nor begins one.           *)
LEMMA GuardEffects ==
  ASSUME NEW s \in SqlStatements, IsReadOnlyStatement(s)
  PROVE  s.effect \in {"reads", "writes"}
  BY DEF SqlStatements, SqlTexts, IsReadOnlyStatement

(* The placeholder between calls is no statement the guard lets in.        *)
LEMMA NoStatementRefused == ~IsReadOnlyStatement(NoStatement)
  <1>1. NoStatement.keyword = ""
    BY DEF NoStatement
  <1> QED
    BY <1>1 DEF IsReadOnlyStatement

(* Every step of run_sql_gateway, and the DBA's, keeps the invariant.      *)
LEMMA GatewayStep ==
  ASSUME GatewayInductive, [GatewayNext]_gatewayVars
  PROVE  GatewayInductive'
<1> USE DEF GatewayInductive, GatewayTypeOK
<1>1. CASE SetFlag
  BY <1>1 DEF SetFlag, IsReadOnlyStatement
<1>2. ASSUME NEW s \in SqlStatements, Call(s)
      PROVE  GatewayInductive'
  BY <1>2 DEF Call, Return, Refuses, IsReadOnlyStatement
<1>3. CASE StartReadOnly
  BY <1>3 DEF StartReadOnly, IsReadOnlyStatement
<1>4. CASE Query
  <2>1. CASE readOnly
    <3>1. stmt \in SqlStatements /\ IsReadOnlyStatement(stmt)
      <4>1. IsReadOnlyStatement(stmt)
        BY <1>4, <2>1 DEF Query
      <4> QED
        BY <4>1, NoStatementRefused
    <3>2. stmt.effect = "reads"
      BY <1>4, <2>1, <3>1, GuardEffects DEF Query, Errs
    <3>3. UNCHANGED <<written, pending, session>>
      BY <1>4, <3>2 DEF Query, Effect
    <3> QED
      BY <1>4, <2>1, <3>1, <3>3 DEF Query, IsReadOnlyStatement
  <2>2. CASE ~readOnly
    <3>1. session # "ro"
      BY <2>2
    <3>2. /\ session' \in {session, "none", "rw"}
          /\ session' = "rw" => session = "rw" \/ stmt.effect = "begins"
          /\ pending' \in Nat /\ written' \in Nat
      BY <1>4, <3>1 DEF Query, Effect
    <3> QED
      BY <1>4, <2>2, <3>1, <3>2 DEF Query, Return, IsReadOnlyStatement
  <2> QED
    BY <2>1, <2>2
<1>5. CASE QueryFails
  BY <1>5 DEF QueryFails, AfterError, Return, IsReadOnlyStatement
<1>6. CASE CommitReadOnly
  BY <1>6 DEF CommitReadOnly, Return, IsReadOnlyStatement
<1>7. CASE StartReadOnlyFails
  BY <1>7 DEF StartReadOnlyFails, Return, IsReadOnlyStatement
<1>8. CASE CommitReadOnlyFails
  BY <1>8 DEF CommitReadOnlyFails, Return, IsReadOnlyStatement
<1>9. CASE UNCHANGED gatewayVars
  BY <1>9 DEF gatewayVars, IsReadOnlyStatement
<1> QED
  BY <1>1, <1>2, <1>3, <1>4, <1>5, <1>6, <1>7, <1>8, <1>9 DEF GatewayNext

(* The gateway's inductive invariant holds for every set of listeners and  *)
(* every bound.                                                            *)
LEMMA GatewayInvariant == GatewaySpec => []GatewayInductive
<1>1. GatewayInit => GatewayInductive
  <2> SUFFICES ASSUME GatewayInit PROVE GatewayInductive
    OBVIOUS
  <2>1. exposed \in BOOLEAN
    BY SqlGatewayAssumption, Zenon DEF GatewayInit
  <2> QED
    BY <2>1 DEF GatewayInit, GatewayInductive, GatewayTypeOK
<1> QED
  BY <1>1, GatewayStep, PTL DEF GatewaySpec

(* run_sql_gateway leaves no transaction open on the connection's session  *)
(* unless the client opened one itself, and never a READ ONLY one.         *)
THEOREM GatewayLeavesSessionClean == GatewaySpec => []SessionLeftClean
<1>1. GatewayInductive => SessionLeftClean
  BY DEF GatewayInductive, GatewayTypeOK, SessionLeftClean
<1> QED
  BY <1>1, GatewayInvariant, PTL

(* No statement run_sql_gateway let in while chimera_mongo_sql_writes was  *)
(* off writes anything, whenever the flag changes.                         *)
THEOREM GatewayReadOnlyCallsNeverWrite == GatewaySpec => ReadOnlyNeverWrites
<1>1. ASSUME GatewayInductive, [GatewayNext]_gatewayVars, step = "query", readOnly
      PROVE  written' + pending' <= written + pending
  <2> USE <1>1 DEF GatewayInductive, GatewayTypeOK
  <2>1. CASE Query
    <3>1. stmt \in SqlStatements /\ IsReadOnlyStatement(stmt)
      BY NoStatementRefused
    <3>2. stmt.effect = "reads"
      BY <2>1, <3>1, GuardEffects DEF Query, Errs
    <3> QED
      BY <2>1, <3>2 DEF Query, Effect
  <2>2. CASE QueryFails
    BY <2>2 DEF QueryFails, AfterError
  <2>3. CASE SetFlag \/ UNCHANGED gatewayVars
    <3>1. written' = written /\ pending' = pending
      BY <2>3, Zenon DEF SetFlag, gatewayVars
    <3> QED
      BY <3>1
  <2>4. /\ ~StartReadOnly /\ ~StartReadOnlyFails /\ ~CommitReadOnly /\ ~CommitReadOnlyFails
        /\ \A s \in SqlStatements : ~Call(s)
    BY DEF StartReadOnly, StartReadOnlyFails, CommitReadOnly, CommitReadOnlyFails, Call
  <2> QED
    BY <2>1, <2>2, <2>3, <2>4, Zenon DEF GatewayNext
<1>2. GatewayInductive /\ [GatewayNext]_gatewayVars =>
        [step = "query" /\ readOnly => written' + pending' <= written + pending]_gatewayVars
  BY <1>1
<1> QED
  BY <1>2, GatewayInvariant, PTL DEF GatewaySpec, ReadOnlyNeverWrites

----------------------------------------------------------------------------
(* One write command                                                       *)

InLoop == phase \in {"next", "body", "commit", "commit empty"}
Failing == {"malformed", "refused", "uncommitted"}
Stamping == {"writes", "nothing", "uncommitted"}

BatchTypeOK ==
  /\ batch.elements \in Batches /\ batch.ordered \in BOOLEAN
  /\ phase \in {"idle", "collection", "next", "body", "commit", "commit empty", "reply", "done"}
  /\ at \in 0..(Len(batch.elements) + 1)
  /\ IsFiniteSet(DOMAIN stored) /\ \A k \in DOMAIN stored : stored[k] \in Nat
  /\ errors \subseteq Nat
  /\ counted \in Nat /\ stamp \in Nat \cup {Unset} /\ clock \in Nat

(* What is stored and what failed, of the elements below at.               *)
Stores(n) == DOMAIN stored = {k \in 0..(n - 1) : batch.elements[k + 1] = "writes"}
Fails(n) == errors = {k \in 0..(n - 1) : batch.elements[k + 1] \in Failing}

(* The progress of the loop: before it, in it, and after it, which is no   *)
(* collection to delete from, an ordered batch at its error, or the end of *)
(* the batch.                                                              *)
Untouched == stored = <<>> /\ errors = {} /\ counted = 0 /\ stamp = Unset
Underway == at >= 1 /\ Stores(at - 1) /\ Fails(at - 1) /\ (batch.ordered => errors = {})
Stopped ==
  /\ batch.ordered /\ at \in 1..Len(batch.elements)
  /\ Stores(at - 1) /\ errors = {at - 1}
  /\ \A k \in 1..(at - 1) : batch.elements[k] \notin Failing
Ended == at = Len(batch.elements) + 1 /\ Underway

(* The stamp: no entry of the batch is later, and it is on the clock,      *)
(* about to come true with the COMMIT, or that of an element that lost it  *)
(* and after which none took another stamp.                                *)
StampOwed(n) ==
  \E k \in 1..n :
    /\ batch.elements[k] = "uncommitted"
    /\ \A j \in 1..n : batch.elements[j] \in Stamping => j <= k
StampTrue(n) == stamp <= clock \/ StampOwed(n)

(* The elements that are through.                                          *)
Passed == IF InLoop THEN at - 1 ELSE IF at <= Len(batch.elements) THEN at ELSE Len(batch.elements)

BatchInductive ==
  /\ BatchTypeOK
  /\ phase \in {"idle", "collection"} => at = 1 /\ Untouched
  /\ InLoop => Underway
  /\ phase \in {"body", "commit", "commit empty"} => More
  /\ phase = "body" => Element # "malformed"
  /\ phase = "commit" => Element \in {"writes", "uncommitted"} /\ stamp = clock + 1
  /\ phase = "commit empty" => Element = "nothing" /\ stamp <= clock
  /\ phase = "reply" => (at = 0 /\ Untouched) \/ Stopped
  /\ phase = "done" /\ answer.ok =>
       /\ (at = 0 /\ Untouched) \/ Stopped \/ Ended
       /\ answer.n = counted /\ answer.errors = errors
       /\ answer.time = stamp \/ (stamp = Unset /\ answer.time \in 0..clock)
  /\ counted = Cardinality(DOMAIN stored)
  /\ \A k \in DOMAIN stored : stored[k] <= stamp /\ stored[k] <= clock
  /\ phase \notin {"commit", "commit empty"} => StampTrue(Passed)

(* A batch is a sequence of outcomes.                                      *)
LEMMA BatchElements ==
  ASSUME BatchTypeOK
  PROVE  /\ Len(batch.elements) \in Nat
         /\ DOMAIN batch.elements = 1..Len(batch.elements)
         /\ \A k \in 1..Len(batch.elements) : batch.elements[k] \in Outcomes
<1>1. PICK n \in 0..MaxBatch : batch.elements \in [1..n -> Outcomes]
  BY DEF BatchTypeOK, Batches
<1>2. n \in Nat
  BY <1>1, WriteBatchAssumption
<1>3. batch.elements \in Seq(Outcomes)
  BY <1>1, <1>2
<1> QED
  BY <1>3

(* Reading the command leaves the counters alone.                          *)
LEMMA ReceivesStep ==
  ASSUME BatchInductive, NEW verb, NEW elements \in Batches, NEW ordered \in BOOLEAN,
         Receives(verb, elements, ordered)
  PROVE  BatchInductive'
<1>1. PICK n \in 0..MaxBatch : elements \in [1..n -> Outcomes]
  BY DEF Batches
<1>2. Len(elements) \in Nat
  BY <1>1, WriteBatchAssumption
<1>3. BatchTypeOK'
  BY <1>2 DEF Receives, BatchInductive, BatchTypeOK, Batches
<1>4. StampTrue(Passed)'
  BY DEF Receives, BatchInductive, BatchTypeOK, Untouched, StampTrue, Unset
<1> QED
  BY <1>3, <1>4 DEF Receives, BatchInductive, Untouched, InLoop, BatchTypeOK

(* create() or exists(): the loop begins with nothing done.                *)
LEMMA OpensStep ==
  ASSUME BatchInductive, NEW exists \in BOOLEAN, OpensCollection(exists)
  PROVE  BatchInductive'
<1>1. Len(batch.elements) \in Nat
  BY BatchElements DEF BatchInductive
<1>2. BatchTypeOK'
  BY <1>1 DEF OpensCollection, BatchInductive, BatchTypeOK, Batches
<1>3. stamp' <= clock' /\ Untouched'
  BY DEF OpensCollection, BatchInductive, BatchTypeOK, Untouched, Unset
<1>4. DOMAIN stored' = {}
  BY <1>3 DEF Untouched
<1>5. (InLoop => Underway)'
  BY <1>1, <1>3, <1>4 DEF OpensCollection, InLoop, Underway, Stores, Fails, BatchInductive, Untouched
<1> QED
  BY <1>1, <1>2, <1>3, <1>5 DEF OpensCollection, BatchInductive, StampTrue, Untouched, More, InLoop, BatchTypeOK

(* A failed element enters writeErrors, and its table rows do not exist:   *)
(* an ordered batch is Stopped there, any other one is Underway past it.   *)
LEMMA WriteErrorStep ==
  ASSUME BatchInductive, InLoop, More, Element \in Failing, StampTrue(at), WriteError,
         UNCHANGED <<batch, stored, counted, stamp, clock, answer>>
  PROVE  BatchInductive'
<1>0. BatchTypeOK /\ Underway /\ counted = Cardinality(DOMAIN stored)
      /\ \A k \in DOMAIN stored : stored[k] <= stamp /\ stored[k] <= clock
  BY DEF BatchInductive
<1>1. Len(batch.elements) \in Nat /\ at \in 1..Len(batch.elements)
  <2>1. Len(batch.elements) \in Nat
    BY <1>0, BatchElements
  <2>2. at \in 0..(Len(batch.elements) + 1)
    BY <1>0 DEF BatchTypeOK
  <2>3. at >= 1 /\ at <= Len(batch.elements)
    BY <1>0 DEF Underway, More
  <2> QED
    BY <2>1, <2>2, <2>3
<1>2. BatchTypeOK'
  <2>1. /\ at' \in {at, at + 1} /\ errors' = errors \cup {at - 1}
        /\ phase' \in {"reply", "next"}
    BY DEF WriteError
  <2>2. at' \in 0..(Len(batch.elements) + 1) /\ at - 1 \in Nat
    BY <1>1, <2>1
  <2> QED
    BY <1>0, <2>1, <2>2 DEF BatchTypeOK
<1>3. /\ counted' = Cardinality(DOMAIN stored')
      /\ \A k \in DOMAIN stored' : stored'[k] <= stamp' /\ stored'[k] <= clock'
  BY <1>0
<1>4. CASE batch.ordered
  <2>1. phase' = "reply" /\ at' = at /\ errors' = {at - 1}
    BY <1>0, <1>4 DEF WriteError, Stops, Underway
  <2>2. \A k \in 1..(at - 1) : batch.elements[k] \notin Failing
    <3> SUFFICES ASSUME NEW k \in 1..(at - 1), batch.elements[k] \in Failing PROVE FALSE
      OBVIOUS
    <3>1. k - 1 \in 0..(at - 2) /\ (k - 1) + 1 = k
      BY <1>1
    <3>2. errors = {} /\ errors = {j \in 0..(at - 2) : batch.elements[j + 1] \in Failing}
      BY <1>0, <1>1, <1>4 DEF Underway, Fails
    <3> QED
      BY <3>1, <3>2
  <2>3. Stopped'
    BY <1>0, <1>1, <1>4, <2>1, <2>2 DEF Stopped, Stores, Underway
  <2>4. StampTrue(Passed)'
    <3>1. batch' = batch /\ stamp' = stamp /\ clock' = clock
      OBVIOUS
    <3>2. ~InLoop'
      BY <2>1 DEF InLoop
    <3>3. Passed' = at
      BY <1>1, <2>1, <3>1, <3>2 DEF Passed
    <3> QED
      BY <3>1, <3>3, Zenon DEF StampTrue, StampOwed
  <2> QED
    BY <1>1, <1>2, <1>3, <2>1, <2>3, <2>4 DEF InLoop, BatchInductive
<1>5. CASE ~batch.ordered
  <2>1. phase' = "next" /\ at' = at + 1 /\ errors' = errors \cup {at - 1}
    BY <1>5 DEF WriteError, Stops
  <2>2. Stores(at)
    BY <1>0, <1>1 DEF Stores, Underway, Element, Failing
  <2>3. errors' = {k \in 0..(at - 1) : batch.elements[k + 1] \in Failing}
    BY <1>0, <1>1, <2>1 DEF Fails, Underway, Element
  <2>4. Underway'
    BY <1>1, <1>5, <2>1, <2>2, <2>3 DEF Underway, Stores, Fails
  <2>5. StampTrue(Passed)'
    <3>1. batch' = batch /\ stamp' = stamp /\ clock' = clock
      OBVIOUS
    <3>2. InLoop'
      BY <2>1 DEF InLoop
    <3>3. Passed' = at
      BY <1>1, <2>1, <3>1, <3>2 DEF Passed
    <3> QED
      BY <3>1, <3>3, Zenon DEF StampTrue, StampOwed
  <2> QED
    BY <1>1, <1>2, <1>3, <2>1, <2>4, <2>5 DEF InLoop, BatchInductive
<1> QED
  BY <1>4, <1>5

(* An element that takes no stamp leaves the stamp's standing as it was.   *)
LEMMA StampKept ==
  ASSUME at \in Nat, at >= 1, Element \notin Stamping, StampTrue(at - 1)
  PROVE  StampTrue(at)
<1>1. CASE stamp <= clock
  BY <1>1 DEF StampTrue
<1>2. CASE StampOwed(at - 1)
  <2>1. PICK k \in 1..(at - 1) :
          /\ batch.elements[k] = "uncommitted"
          /\ \A j \in 1..(at - 1) : batch.elements[j] \in Stamping => j <= k
    BY <1>2 DEF StampOwed
  <2>2. k \in 1..at
    BY <2>1
  <2>3. \A j \in 1..at : batch.elements[j] \in Stamping => j <= k
    BY <2>1 DEF Element
  <2> QED
    BY <2>1, <2>2, <2>3 DEF StampTrue, StampOwed
<1> QED
  BY <1>1, <1>2 DEF StampTrue

(* The three ways an element fails.                                        *)
LEMMA FailingStep ==
  ASSUME BatchInductive, Malformed \/ BodyFails \/ CommitFails
  PROVE  BatchInductive'
<1>1. InLoop /\ More /\ Element \in Failing /\ WriteError
      /\ UNCHANGED <<batch, stored, counted, stamp, clock, answer>>
  BY DEF BatchInductive, Malformed, BodyFails, CommitFails, InLoop, Failing
<1>2. BatchTypeOK /\ Underway
  BY <1>1 DEF BatchInductive
<1>3. at \in Nat /\ at >= 1
  <2>1. Len(batch.elements) \in Nat
    BY <1>2, BatchElements
  <2>2. at \in 0..(Len(batch.elements) + 1) /\ at >= 1
    BY <1>2 DEF BatchTypeOK, Underway
  <2> QED
    BY <2>1, <2>2
<1>4. StampTrue(at)
  <2>1. CASE Malformed \/ BodyFails
    <3>1. Element \notin Stamping /\ phase \in {"next", "body"}
      BY <2>1 DEF Malformed, BodyFails, Stamping
    <3>2. StampTrue(Passed) /\ Passed = at - 1
      BY <1>1, <3>1 DEF BatchInductive, Passed
    <3> QED
      BY <1>3, <3>1, <3>2, StampKept
  <2>2. CASE CommitFails
    <3>1. batch.elements[at] = "uncommitted" /\ at \in 1..at
      BY <1>3, <2>2 DEF CommitFails, Element
    <3>2. \A j \in 1..at : j <= at
      BY <1>3
    <3> QED
      BY <3>1, <3>2 DEF StampTrue, StampOwed
  <2> QED
    BY <2>1, <2>2
<1> QED
  BY <1>1, <1>4, WriteErrorStep

(* sql.begin() only moves the handler on.                                  *)
LEMMA BeginsStep ==
  ASSUME BatchInductive, Begins
  PROVE  BatchInductive'
<1>1. InLoop /\ InLoop' /\ phase' = "body"
      /\ UNCHANGED <<batch, at, stored, errors, counted, stamp, clock, answer>>
  BY DEF Begins, InLoop
<1>2. Underway' /\ More' /\ (Element # "malformed")'
  BY <1>1 DEF BatchInductive, Begins, Underway, Stores, Fails, More, Element
<1>3. StampTrue(Passed)'
  <2>1. StampTrue(Passed)
    BY DEF BatchInductive, Begins
  <2>2. Passed' = Passed
    BY <1>1 DEF Passed
  <2> QED
    BY <1>1, <2>1, <2>2, Zenon DEF StampTrue, StampOwed
<1>4. BatchTypeOK'
  BY <1>1 DEF BatchInductive, BatchTypeOK
<1> QED
  BY <1>1, <1>2, <1>3, <1>4 DEF BatchInductive

(* The body runs: the stamp is at least as late as every entry so far, and *)
(* it is the clock's, or the one the COMMIT will put on it.                *)
LEMMA BodyRunsStep ==
  ASSUME BatchInductive, BodyRuns
  PROVE  BatchInductive'
<1>0. /\ Element = "nothing" => phase' = "commit empty" /\ stamp' = clock
      /\ Element # "nothing" => phase' = "commit" /\ stamp' = clock + 1
  BY DEF BodyRuns, StampOfBody
<1>1. InLoop /\ InLoop' /\ phase' \in {"commit", "commit empty"}
      /\ UNCHANGED <<batch, at, stored, errors, counted, clock, answer>>
  BY DEF BodyRuns, InLoop
<1>2. BatchTypeOK /\ Underway /\ More /\ Element \notin {"malformed", "refused"}
  BY <1>1 DEF BatchInductive, BodyRuns
<1>3. Element \in Outcomes /\ Element' = Element
  <2>1. Len(batch.elements) \in Nat /\ \A k \in 1..Len(batch.elements) : batch.elements[k] \in Outcomes
    BY <1>2, BatchElements
  <2>2. at \in 0..(Len(batch.elements) + 1) /\ at >= 1 /\ at <= Len(batch.elements)
    BY <1>2 DEF BatchTypeOK, Underway, More
  <2>3. at \in 1..Len(batch.elements)
    BY <2>1, <2>2
  <2> QED
    BY <1>1, <2>1, <2>3 DEF Element
<1>4. Underway' /\ More'
  BY <1>1, <1>2 DEF Underway, Stores, Fails, More
<1>5. clock \in Nat /\ stamp' \in Nat /\ stamp' >= clock
  <2>1. clock \in Nat
    BY <1>2 DEF BatchTypeOK
  <2>2. stamp' = clock \/ stamp' = clock + 1
    BY <1>0, Zenon
  <2> QED
    BY <2>1, <2>2
<1>6. BatchTypeOK'
  BY <1>1, <1>2, <1>5 DEF BatchTypeOK
<1>7. \A k \in DOMAIN stored' : stored'[k] <= stamp' /\ stored'[k] <= clock'
  <2>1. \A k \in DOMAIN stored : stored[k] \in Nat /\ stored[k] <= clock
    BY <1>2 DEF BatchInductive, BatchTypeOK
  <2>2. stored' = stored /\ clock' = clock
    BY <1>1
  <2> QED
    BY <1>5, <2>1, <2>2
<1>8. /\ phase' = "commit" => Element' \in {"writes", "uncommitted"} /\ stamp' = clock' + 1
      /\ phase' = "commit empty" => Element' = "nothing" /\ stamp' <= clock'
  <2>1. CASE Element = "nothing"
    BY <1>0, <1>1, <1>3, <1>5, <2>1
  <2>2. CASE Element # "nothing"
    <3>1. Element \in {"writes", "uncommitted"}
      BY <1>2, <1>3, <2>2 DEF Outcomes
    <3> QED
      BY <1>0, <1>1, <1>3, <1>5, <2>2, <3>1
  <2> QED
    BY <2>1, <2>2
<1>9. counted' = Cardinality(DOMAIN stored')
  BY <1>1 DEF BatchInductive
<1> QED
  BY <1>1, <1>4, <1>6, <1>7, <1>8, <1>9, Zenon DEF BatchInductive

(* COMMIT: the element's entry, if it has one, is now in the table and the *)
(* clock has reached the stamp.                                            *)
LEMMA CommitsStep ==
  ASSUME BatchInductive, Commits
  PROVE  BatchInductive'
<1>1. InLoop /\ InLoop' /\ phase' = "next" /\ at' = at + 1
      /\ UNCHANGED <<batch, errors, stamp, answer>>
  BY DEF Commits, Committed, InLoop
<1>2. BatchTypeOK /\ Underway /\ More /\ Element \in {"writes", "nothing"}
  BY <1>1 DEF BatchInductive, Commits
<1>3. Len(batch.elements) \in Nat /\ at \in 1..Len(batch.elements)
  <2>1. Len(batch.elements) \in Nat
    BY <1>2, BatchElements
  <2>2. at \in 0..(Len(batch.elements) + 1) /\ at >= 1 /\ at <= Len(batch.elements)
    BY <1>2 DEF BatchTypeOK, Underway, More
  <2> QED
    BY <2>1, <2>2
<1>4. Fails(at) /\ (batch.ordered => errors = {})
  BY <1>2, <1>3 DEF Underway, Fails, Element, Failing
<1>5. Passed' = at
  BY <1>1, <1>3 DEF Passed
<1>6. CASE Element = "writes"
  <2>1. /\ clock' = clock + 1 /\ counted' = counted + 1
        /\ stored' = [k \in DOMAIN stored \cup {at - 1} |->
                        IF k = at - 1 THEN clock + 1 ELSE stored[k]]
    BY <1>2, <1>6 DEF Commits, Committed, BatchTypeOK
  <2>2. stamp = clock + 1 /\ clock \in Nat /\ counted \in Nat /\ IsFiniteSet(DOMAIN stored)
        /\ counted = Cardinality(DOMAIN stored)
        /\ \A k \in DOMAIN stored : stored[k] \in Nat /\ stored[k] <= clock
    BY <1>2, <1>6 DEF BatchInductive, BatchTypeOK, Commits
  <2>3. DOMAIN stored' = DOMAIN stored \cup {at - 1} /\ at - 1 \notin DOMAIN stored
    BY <1>2, <1>3, <2>1 DEF Underway, Stores
  <2>4. IsFiniteSet(DOMAIN stored') /\ counted' = Cardinality(DOMAIN stored')
    BY <2>1, <2>2, <2>3, FS_AddElement
  <2>5. \A k \in DOMAIN stored' : stored'[k] \in Nat /\ stored'[k] <= stamp' /\ stored'[k] <= clock'
    BY <1>1, <2>1, <2>2, <2>3
  <2>6. DOMAIN stored' = {k \in 0..(at - 1) : batch.elements[k + 1] = "writes"}
    BY <1>2, <1>3, <1>6, <2>3 DEF Underway, Stores, Element
  <2>7. Underway'
    BY <1>1, <1>3, <1>4, <2>6 DEF Underway, Stores, Fails
  <2>8. StampTrue(Passed)'
    BY <1>1, <2>1, <2>2 DEF StampTrue
  <2>9. BatchTypeOK'
    <3>1. clock' \in Nat /\ counted' \in Nat /\ at' \in 0..(Len(batch.elements) + 1)
      BY <1>1, <1>3, <2>1, <2>2
    <3> QED
      BY <1>1, <1>2, <2>4, <2>5, <3>1 DEF BatchTypeOK
  <2> QED
    BY <1>1, <2>4, <2>5, <2>7, <2>8, <2>9, Zenon DEF BatchInductive
<1>7. CASE Element = "nothing"
  <2>1. UNCHANGED <<clock, stored>> /\ counted' = counted + 0
    BY <1>7 DEF Commits, Committed
  <2>2. counted' = counted /\ stamp <= clock
    <3>1. counted \in Nat
      BY <1>2 DEF BatchTypeOK
    <3>2. phase = "commit empty"
      BY <1>7 DEF Commits, BatchInductive
    <3>3. stamp <= clock
      BY <3>2 DEF BatchInductive
    <3> QED
      BY <2>1, <3>1, <3>3
  <2>3. DOMAIN stored = {k \in 0..(at - 1) : batch.elements[k + 1] = "writes"}
    BY <1>2, <1>3, <1>7 DEF Underway, Stores, Element
  <2>4. Underway'
    BY <1>1, <1>3, <1>4, <2>1, <2>3 DEF Underway, Stores, Fails
  <2>5. StampTrue(Passed)'
    BY <1>1, <2>1, <2>2 DEF StampTrue
  <2>6. BatchTypeOK'
    <3>1. at' \in 0..(Len(batch.elements) + 1)
      BY <1>1, <1>3
    <3> QED
      BY <1>1, <1>2, <2>1, <2>2, <3>1 DEF BatchTypeOK
  <2>7. /\ counted' = Cardinality(DOMAIN stored')
        /\ \A k \in DOMAIN stored' : stored'[k] <= stamp' /\ stored'[k] <= clock'
    BY <1>1, <2>1, <2>2 DEF BatchInductive
  <2> QED
    BY <1>1, <2>4, <2>5, <2>6, <2>7, Zenon DEF BatchInductive
<1> QED
  BY <1>2, <1>6, <1>7

(* The reply is taken from the counters and the stamp as they stand.       *)
LEMMA RepliesStep ==
  ASSUME BatchInductive, Replies
  PROVE  BatchInductive'
<1>1. phase' = "done" /\ UNCHANGED <<batch, at, stored, errors, counted, stamp, clock>>
  BY DEF Replies
<1>2. /\ answer'.ok = TRUE /\ answer'.n = counted /\ answer'.errors = errors
      /\ answer'.time = IF stamp = Unset THEN clock ELSE stamp
  BY DEF Replies
<1>3. BatchTypeOK /\ clock \in Nat /\ Len(batch.elements) \in Nat
  BY BatchElements DEF BatchInductive, BatchTypeOK
<1>4. BatchTypeOK'
  BY <1>1, <1>3 DEF BatchTypeOK
<1>5. (at = 0 /\ Untouched) \/ Stopped \/ Ended
  <2>1. CASE phase = "reply"
    BY <2>1 DEF BatchInductive
  <2>2. CASE phase = "next" /\ ~More
    <3>1. Underway
      BY <2>2 DEF BatchInductive, InLoop
    <3>2. at \in 0..(Len(batch.elements) + 1) /\ ~(at <= Len(batch.elements))
      BY <1>3, <2>2 DEF BatchTypeOK, More
    <3>3. at = Len(batch.elements) + 1
      BY <1>3, <3>2
    <3> QED
      BY <3>1, <3>3 DEF Ended
  <2> QED
    BY <2>1, <2>2 DEF Replies
<1>6. ((at = 0 /\ Untouched) \/ Stopped \/ Ended)'
  BY <1>1, <1>5 DEF Untouched, Stopped, Ended, Underway, Stores, Fails
<1>7. (answer.n = counted /\ answer.errors = errors)'
  BY <1>1, <1>2
<1>8. (answer.time = stamp \/ (stamp = Unset /\ answer.time \in 0..clock))'
  <2>1. CASE stamp = Unset
    BY <1>1, <1>2, <1>3, <2>1
  <2>2. CASE stamp # Unset
    BY <1>1, <1>2, <2>2
  <2> QED
    BY <2>1, <2>2
<1>9. StampTrue(Passed)'
  <2>1. StampTrue(Passed)
    BY DEF BatchInductive, Replies
  <2>2. Passed' = Passed
    <3>1. ~InLoop'
      BY <1>1 DEF InLoop
    <3>2. CASE phase = "reply"
      <4>1. ~InLoop
        BY <3>2 DEF InLoop
      <4> QED
        BY <1>1, <3>1, <4>1 DEF Passed
    <3>3. CASE phase = "next" /\ ~More
      <4>1. InLoop /\ Underway
        BY <3>3 DEF BatchInductive, InLoop
      <4>2. at \in 0..(Len(batch.elements) + 1) /\ ~(at <= Len(batch.elements))
        BY <1>3, <3>3 DEF BatchTypeOK, More
      <4>3. at = Len(batch.elements) + 1
        BY <1>3, <4>2
      <4>4. Passed = at - 1 /\ Passed' = Len(batch.elements)
        BY <1>1, <3>1, <4>1, <4>2 DEF Passed
      <4> QED
        BY <1>3, <4>3, <4>4
    <3> QED
      BY <3>2, <3>3 DEF Replies
  <2> QED
    BY <1>1, <2>1, <2>2, Zenon DEF StampTrue, StampOwed
<1>10. ~InLoop'
  BY <1>1 DEF InLoop
<1>11. (counted = Cardinality(DOMAIN stored)
         /\ \A k \in DOMAIN stored : stored[k] <= stamp /\ stored[k] <= clock)'
  BY <1>1 DEF BatchInductive
<1> QED
  BY <1>1, <1>4, <1>6, <1>7, <1>8, <1>9, <1>10, <1>11, Zenon DEF BatchInductive

(* An error before the loop, and another session's commit: neither touches *)
(* what the batch has done, and the clock only goes up.                    *)
LEMMA OutsideStep ==
  ASSUME BatchInductive, CommandFails \/ OtherCommit
  PROVE  BatchInductive'
<1>0. BatchTypeOK /\ clock \in Nat
  BY DEF BatchInductive, BatchTypeOK
<1>1. CASE CommandFails
  <2>1. /\ phase = "collection" /\ phase' = "done" /\ answer'.ok = FALSE
        /\ UNCHANGED <<batch, at, stored, errors, counted, stamp, clock>>
    BY <1>1 DEF CommandFails, NoAnswer
  <2>2. BatchTypeOK' /\ ~InLoop'
    BY <1>0, <2>1 DEF BatchTypeOK, InLoop
  <2>3. stamp' <= clock'
    BY <1>0, <2>1 DEF BatchInductive, Untouched, Unset
  <2>4. (counted = Cardinality(DOMAIN stored)
          /\ \A k \in DOMAIN stored : stored[k] <= stamp /\ stored[k] <= clock)'
    BY <2>1 DEF BatchInductive
  <2> QED
    BY <2>1, <2>2, <2>3, <2>4, Zenon DEF BatchInductive, StampTrue
<1>2. CASE OtherCommit
  <2>1. /\ phase # "commit" /\ clock' = clock + 1
        /\ UNCHANGED <<batch, phase, at, stored, errors, counted, stamp, answer>>
    BY <1>2 DEF OtherCommit
  <2>2. BatchTypeOK' /\ (Untouched' <=> Untouched) /\ (Underway' <=> Underway)
        /\ (Stopped' <=> Stopped) /\ (Ended' <=> Ended) /\ (InLoop' <=> InLoop)
        /\ (More' <=> More) /\ Element' = Element
    <3>1. clock' \in Nat
      BY <1>0, <2>1
    <3>2. BatchTypeOK'
      BY <1>0, <2>1, <3>1 DEF BatchTypeOK
    <3> QED
      BY <2>1, <3>2, Zenon DEF Untouched, Underway, Stopped, Ended, InLoop, More, Element,
                               Stores, Fails
  <2>3. stamp \in Int /\ (stamp <= clock => stamp' <= clock')
    <3>1. stamp \in Int
      <4>1. stamp \in Nat \cup {Unset}
        BY <1>0 DEF BatchTypeOK
      <4> QED
        BY <4>1 DEF Unset
    <3> QED
      BY <1>0, <2>1, <3>1
  <2>4. phase = "commit empty" => stamp <= clock
    BY DEF BatchInductive
  <2>5. \A k \in DOMAIN stored' : stored'[k] <= stamp' /\ stored'[k] <= clock'
    <3>1. \A k \in DOMAIN stored : stored[k] \in Nat /\ stored[k] <= stamp /\ stored[k] <= clock
      BY <1>0 DEF BatchInductive, BatchTypeOK
    <3> QED
      BY <1>0, <2>1, <3>1
  <2>6. answer.time \in 0..clock => answer'.time \in 0..clock'
    BY <1>0, <2>1
  <2>7. phase \notin {"commit", "commit empty"} => StampTrue(Passed)'
    <3> SUFFICES ASSUME phase \notin {"commit", "commit empty"} PROVE StampTrue(Passed)'
      OBVIOUS
    <3>1. StampTrue(Passed)
      BY DEF BatchInductive
    <3>2. Passed' = Passed
      BY <2>1, <2>2 DEF Passed
    <3>3. CASE stamp <= clock
      BY <2>3, <3>3 DEF StampTrue
    <3>4. CASE StampOwed(Passed)
      <4>1. StampOwed(Passed)'
        BY <2>1, <3>2, <3>4, Zenon DEF StampOwed
      <4> QED
        BY <4>1 DEF StampTrue
    <3> QED
      BY <3>1, <3>3, <3>4 DEF StampTrue
  <2>8. counted' = Cardinality(DOMAIN stored')
    BY <2>1 DEF BatchInductive
  <2> QED
    BY <2>1, <2>2, <2>3, <2>4, <2>5, <2>6, <2>7, <2>8, Zenon DEF BatchInductive
<1> QED
  BY <1>1, <1>2

(* The batch's inductive invariant, for batches of every length.           *)
LEMMA BatchInvariant == BatchSpec => []BatchInductive
<1>1. BatchInit => BatchInductive
  <2> SUFFICES ASSUME BatchInit PROVE BatchInductive
    OBVIOUS
  <2>1. <<>> \in Batches /\ Len(<<>>) = 0
    <3>1. <<>> \in [1..0 -> Outcomes] /\ 0 \in 0..MaxBatch
      BY WriteBatchAssumption
    <3> QED
      BY <3>1 DEF Batches
  <2>2. IsFiniteSet({}) /\ Cardinality({}) = 0
    BY FS_EmptySet
  <2>3. DOMAIN stored = {}
    BY DEF BatchInit
  <2>4. BatchTypeOK
    BY <2>1, <2>2, <2>3 DEF BatchInit, BatchTypeOK, NoBatch
  <2>5. stamp <= clock /\ Untouched
    BY DEF BatchInit, Unset, Untouched
  <2> QED
    BY <2>2, <2>3, <2>4, <2>5 DEF BatchInit, BatchInductive, InLoop, StampTrue
<1>2. BatchInductive /\ [BatchNext]_batchVars => BatchInductive'
  <2> SUFFICES ASSUME BatchInductive, [BatchNext]_batchVars PROVE BatchInductive'
    OBVIOUS
  <2>1. CASE BatchNext
    BY <2>1, ReceivesStep, OpensStep, FailingStep, BeginsStep, BodyRunsStep, CommitsStep,
       RepliesStep, OutsideStep, Zenon DEF BatchNext
  <2>2. CASE UNCHANGED batchVars
    <3>1. UNCHANGED <<batch, phase, at, stored, errors, counted, stamp, clock, answer>>
      BY <2>2 DEF batchVars
    <3>2. /\ BatchTypeOK' <=> BatchTypeOK
          /\ Untouched' <=> Untouched
          /\ Underway' <=> Underway
      BY <3>1, Zenon DEF BatchTypeOK, Untouched, Underway, Stores, Fails
    <3>3. /\ Stopped' <=> Stopped
          /\ Ended' <=> Ended
          /\ InLoop' <=> InLoop
          /\ More' <=> More
          /\ Element' = Element
      BY <3>1, <3>2, Zenon DEF Stopped, Ended, InLoop, More, Element, Stores
    <3>4. StampTrue(Passed)' <=> StampTrue(Passed)
      <4>1. Passed' = Passed
        BY <3>1, <3>3 DEF Passed
      <4> QED
        BY <3>1, <4>1, Zenon DEF StampTrue, StampOwed
    <3> QED
      BY <3>1, <3>2, <3>3, <3>4, Zenon DEF BatchInductive
  <2> QED
    BY <2>1, <2>2
<1> QED
  BY <1>1, <1>2, PTL DEF BatchSpec

(* n, writeErrors and ordered tell a driver exactly which elements of its  *)
(* insert, update or delete were executed and which the table holds, for   *)
(* batches of every length.                                                *)
THEOREM RepliesAccountForBatches == BatchSpec => []ReplyAccountsForBatch
<1>1. ASSUME BatchInductive, Tried
      PROVE  ReplyAccountsForBatch
  <2> USE <1>1
  <2>0. BatchTypeOK /\ Len(batch.elements) \in Nat /\ DOMAIN batch.elements = 1..Len(batch.elements)
        /\ \A k \in 1..Len(batch.elements) : batch.elements[k] \in Outcomes
    BY BatchElements DEF BatchInductive
  <2>1. /\ Stopped \/ Ended
        /\ answer.n = Cardinality(DOMAIN stored) /\ answer.errors = errors
    <3>1. phase = "done" /\ answer.ok /\ at # 0
      BY <2>0 DEF Tried, BatchTypeOK
    <3> QED
      BY <3>1, Zenon DEF BatchInductive
  <2>2. Indices = 0..(Len(batch.elements) - 1)
    <3>1. \A x \in 0..(Len(batch.elements) - 1) : x + 1 \in 1..Len(batch.elements) /\ (x + 1) - 1 = x
      BY <2>0
    <3>2. Indices = {k - 1 : k \in 1..Len(batch.elements)}
      BY <2>0 DEF Indices
    <3>3. \A k \in 1..Len(batch.elements) : k - 1 \in 0..(Len(batch.elements) - 1)
      BY <2>0
    <3> QED
      BY <3>1, <3>2, <3>3
  <2> DEFINE first == CHOOSE k \in answer.errors : \A j \in answer.errors : k <= j
             executed == IF batch.ordered /\ answer.errors # {} THEN {k \in Indices : k < first}
                         ELSE Indices \ answer.errors
  <2>3. DOMAIN stored = {k \in executed : batch.elements[k + 1] = "writes"}
        /\ \A k \in executed : batch.elements[k + 1] \in {"writes", "nothing"}
    <3>1. CASE Stopped
      <4>1. at \in 1..Len(batch.elements) /\ answer.errors = {at - 1} /\ batch.ordered
            /\ DOMAIN stored = {k \in 0..(at - 1 - 1) : batch.elements[k + 1] = "writes"}
            /\ \A k \in 1..(at - 1) : batch.elements[k] \notin Failing
        BY <2>1, <3>1 DEF Stopped, Stores
      <4>2. first = at - 1
        BY <2>0, <4>1
      <4>3. executed = 0..(at - 2)
        BY <2>0, <2>2, <4>1, <4>2
      <4> HIDE DEF executed
      <4>4. \A k \in executed : batch.elements[k + 1] \in {"writes", "nothing"}
        <5> SUFFICES ASSUME NEW k \in executed PROVE batch.elements[k + 1] \in {"writes", "nothing"}
          OBVIOUS
        <5>1. k + 1 \in 1..(at - 1) /\ k + 1 \in 1..Len(batch.elements)
          BY <2>0, <4>1, <4>3
        <5> QED
          BY <2>0, <4>1, <5>1 DEF Failing, Outcomes
      <4>5. at - 1 - 1 = at - 2
        BY <2>0, <4>1
      <4> QED
        BY <4>1, <4>3, <4>4, <4>5
    <3>2. CASE Ended
      <4>1. at = Len(batch.elements) + 1 /\ at - 1 - 1 = Len(batch.elements) - 1
        BY <2>0, <3>2 DEF Ended
      <4>2. /\ DOMAIN stored = {k \in Indices : batch.elements[k + 1] = "writes"}
            /\ errors = {k \in Indices : batch.elements[k + 1] \in Failing}
            /\ batch.ordered => errors = {}
        BY <2>2, <3>2, <4>1 DEF Ended, Underway, Stores, Fails
      <4>3. executed = Indices \ errors
        BY <2>1, <4>2
      <4> HIDE DEF executed
      <4>4. \A k \in executed : batch.elements[k + 1] \in {"writes", "nothing"}
        <5> SUFFICES ASSUME NEW k \in executed PROVE batch.elements[k + 1] \in {"writes", "nothing"}
          OBVIOUS
        <5>1. k \in Indices /\ batch.elements[k + 1] \notin Failing /\ k + 1 \in 1..Len(batch.elements)
          BY <2>0, <2>2, <4>2, <4>3
        <5> QED
          BY <2>0, <5>1 DEF Failing, Outcomes
      <4> QED
        BY <4>2, <4>3, <4>4 DEF Failing
    <3> QED
      BY <2>1, <3>1, <3>2
  <2> HIDE DEF executed
  <2> QED
    BY <2>1, <2>3 DEF ReplyAccountsForBatch, executed, first
<1>2. BatchInductive => ReplyAccountsForBatch
  BY <1>1 DEF ReplyAccountsForBatch
<1> QED
  BY <1>2, BatchInvariant, PTL

(* The operationTime of a batch covers every entry it stored, and the      *)
(* clock reaches it: unless the last transaction lost its COMMIT.          *)
THEOREM FencesHold == BatchSpec => []FenceHolds
<1>1. BatchInductive => FenceHolds
  <2> SUFFICES ASSUME BatchInductive, phase = "done", answer.ok
               PROVE  FenceHolds
    BY DEF FenceHolds, FenceCoversBatch, FenceEnds
  <2>0. BatchTypeOK /\ Len(batch.elements) \in Nat /\ DOMAIN batch.elements = 1..Len(batch.elements)
    BY BatchElements DEF BatchInductive
  <2>1. /\ (at = 0 /\ Untouched) \/ Stopped \/ Ended
        /\ answer.time = stamp \/ (stamp = Unset /\ answer.time \in 0..clock)
        /\ StampTrue(Passed)
    BY DEF BatchInductive
  <2>2. \A k \in DOMAIN stored : stored[k] \in Nat /\ stored[k] <= stamp
    BY <2>0 DEF BatchInductive, BatchTypeOK
  <2>3. clock \in Nat /\ at \in 0..(Len(batch.elements) + 1)
    BY <2>0 DEF BatchTypeOK
  <2>4. FenceCoversBatch
    <3>1. CASE answer.time = stamp
      BY <2>2, <3>1 DEF FenceCoversBatch
    <3>2. CASE stamp = Unset
      <4>1. \A k \in DOMAIN stored : FALSE
        BY <2>2, <3>2 DEF Unset
      <4> QED
        BY <4>1 DEF FenceCoversBatch
    <3> QED
      BY <2>1, <3>1, <3>2
  <2>5. FenceEnds
    <3>1. CASE answer.time <= clock
      BY <3>1 DEF FenceEnds
    <3>2. CASE answer.time = stamp /\ StampOwed(Passed)
      <4>1. Passed = IF at <= Len(batch.elements) THEN at ELSE Len(batch.elements)
        BY DEF Passed, InLoop
      <4>2. Passed \in Nat /\ Passed <= Len(batch.elements) /\ Passed <= at
            /\ \A j \in 1..Len(batch.elements) : j <= at => j \in 1..Passed
        BY <2>0, <2>3, <4>1
      <4>3. PICK k \in 1..Passed :
              /\ batch.elements[k] = "uncommitted"
              /\ \A j \in 1..Passed : batch.elements[j] \in Stamping => j <= k
        BY <3>2 DEF StampOwed
      <4>4. k \in LastTried
        BY <2>0, <2>3, <4>2, <4>3 DEF LastTried
      <4>5. \A j \in LastTried : j <= k
        BY <2>0, <4>2, <4>3 DEF LastTried, Stamping
      <4> QED
        BY <4>3, <4>4, <4>5 DEF FenceEnds
    <3>3. answer.time <= clock \/ (answer.time = stamp /\ StampOwed(Passed))
      BY <2>1, <2>3 DEF StampTrue
    <3> QED
      BY <3>1, <3>2, <3>3
  <2> QED
    BY <2>4, <2>5 DEF FenceHolds
<1> QED
  BY <1>1, BatchInvariant, PTL
=============================================================================
