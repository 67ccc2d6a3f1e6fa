---------------------------- MODULE OplogProofs ----------------------------
(***************************************************************************)
(* Proofs about Oplog, for any number of writers, namespaces, limits and   *)
(* rows. The inductive invariant OplogInd adds to the stated properties    *)
(* what they rest on: who may have uncommitted rows, that they lie above   *)
(* every committed one, and that nothing a pruning pass has read can       *)
(* change before it deletes.                                               *)
(***************************************************************************)
EXTENDS Oplog, FiniteSetTheorems, TLAPS

(* Every nonempty set of naturals has a least element.                     *)
LEMMA MinOfNaturals ==
  ASSUME NEW S, S \subseteq Nat, S # {}
  PROVE  \E m \in S : \A x \in S : m <= x
<1>1. PICK m \in S : \A y \in S : ~(<<y, m>> \in OpToRel(<, Nat))
  BY NatLessThanWellFounded, WFMin, Zenon
<1>2. \A y \in S : ~(y < m)
  BY <1>1 DEF OpToRel
<1> QED
  BY <1>2

(* Every nonempty bounded set of naturals has a greatest element.          *)
LEMMA MaxOfNaturals ==
  ASSUME NEW S, S \subseteq Nat, S # {}, NEW b \in Nat, \A x \in S : x <= b
  PROVE  \E m \in S : \A x \in S : x <= m
<1> DEFINE T == {b - x : x \in S}
<1>1. \A x \in S : x \in Nat /\ x <= b /\ b - x \in Nat
  OBVIOUS
<1>2. PICK s \in S : TRUE
  OBVIOUS
<1>3. b - s \in T
  BY <1>2
<1>4. T \subseteq Nat
  BY <1>1, Zenon
<1>5. PICK k \in T : \A y \in T : k <= y
  BY <1>3, <1>4, MinOfNaturals
<1>6. PICK m \in S : k = b - m
  OBVIOUS
<1>7. \A x \in S : b - m <= b - x
  BY <1>5, <1>6
<1> QED
  BY <1>7

(* Newest picks the row with the greatest seq of a bounded set of rows.    *)
LEMMA NewestIsGreatest ==
  ASSUME NEW R, R \subseteq Rows, R # {}, NEW b \in Nat, \A r \in R : r.seq <= b
  PROVE  /\ Newest(R) \in R
         /\ \A q \in R : q.seq <= Newest(R).seq
<1> DEFINE S == {r.seq : r \in R}
<1>1. S \subseteq Nat /\ S # {} /\ \A x \in S : x <= b
  BY DEF Rows
<1>2. PICK m \in S : \A x \in S : x <= m
  BY <1>1, MaxOfNaturals
<1>3. PICK r \in R : r.seq = m
  OBVIOUS
<1>4. \A q \in R : q.seq <= r.seq
  BY <1>2, <1>3
<1> QED
  BY <1>4 DEF Newest

(* Oldest picks the row with the least seq.                                *)
LEMMA OldestIsLeast ==
  ASSUME NEW R, R \subseteq Rows, R # {}
  PROVE  /\ Oldest(R) \in R
         /\ \A q \in R : Oldest(R).seq <= q.seq
<1> DEFINE S == {r.seq : r \in R}
<1>1. S \subseteq Nat /\ S # {}
  BY DEF Rows
<1>2. PICK m \in S : \A x \in S : m <= x
  BY <1>1, MinOfNaturals
<1>3. PICK r \in R : r.seq = m
  OBVIOUS
<1>4. \A q \in R : r.seq <= q.seq
  BY <1>2, <1>3
<1> QED
  BY <1>4 DEF Oldest

----------------------------------------------------------------------------
(* Type correctness                                                        *)

(* The initial tables, whichever installed database is found, are typed.   *)
LEMMA InitType == OplogInit => OplogTypeOK
<1> SUFFICES ASSUME OplogInit PROVE OplogTypeOK
  OBVIOUS
<1>1. PICK d \in Installed :
        /\ now = 1 /\ log = d.all /\ oplog = d.kept
        /\ clock = d.clock /\ pclock = d.clock
        /\ hist = SeedHistory(d.kept)
        /\ next = IF d.all = {} THEN 1 ELSE Newest(d.all).seq + 1
        /\ lock = Free /\ pend = {}
        /\ wpc = [w \in Writers |-> "idle"]
        /\ wtime = [w \in Writers |-> 0]
        /\ stamp = [w \in Writers |-> ZeroTs]
        /\ mine = [w \in Writers |-> 0]
        /\ ppc = "idle" /\ plan = NoPlan
  BY DEF OplogInit
<1>2. /\ d.all \subseteq Rows /\ d.kept \subseteq Rows /\ d.clock \in Timestamps
      /\ \A r \in d.all : r.seq <= MaxSeq
      /\ MaxSeq \in Nat
  BY OplogAssumption
<1>3. next \in Nat \ {0}
  <2>1. CASE d.all = {}
    BY <1>1, <2>1
  <2>2. CASE d.all # {}
    <3>1. Newest(d.all) \in d.all
      BY <1>2, <2>2, NewestIsGreatest
    <3> QED
      BY <1>1, <1>2, <2>2, <3>1 DEF Rows
  <2> QED
    BY <2>1, <2>2
<1>4. hist \in [pruned : Nat, ts : Timestamps, legacy : BOOLEAN,
                baseline : Nat, baseTs : Timestamps]
  <2>1. CASE d.kept = {}
    BY <1>1, <2>1 DEF SeedHistory, ZeroTs, Timestamps
  <2>2. CASE d.kept # {}
    <3>1. Oldest(d.kept) \in Rows
      BY <1>2, <2>2, OldestIsLeast
    <3>2. /\ Oldest(d.kept).seq - 1 \in Nat
          /\ Ts(Oldest(d.kept)) \in Timestamps
          /\ (Oldest(d.kept).seq > 1) \in BOOLEAN
      BY <3>1 DEF Rows, Ts, Timestamps
    <3>3. ZeroTs \in Timestamps
      BY DEF ZeroTs, Timestamps
    <3> QED
      BY <1>1, <2>2, <3>2, <3>3 DEF SeedHistory
  <2> QED
    BY <2>1, <2>2
<1> QED
  BY <1>1, <1>2, <1>3, <1>4 DEF OplogTypeOK, NoPlan, ZeroTs, Timestamps

(* OplogHead is the seq of a row that is there and no row is above it.     *)
LEMMA HeadIsNewest ==
  ASSUME OplogTypeOK, RowsInv
  PROVE  /\ OplogHead \in Nat
         /\ oplog = {} => OplogHead = 0
         /\ oplog # {} => OplogHead \in Seqs(oplog)
         /\ \A r \in oplog : r.seq <= OplogHead
<1>1. CASE oplog = {}
  BY <1>1 DEF OplogHead
<1>2. CASE oplog # {}
  <2>1. \A r \in oplog : r.seq <= next
    BY DEF OplogTypeOK, RowsInv, Rows
  <2>2. Newest(oplog) \in oplog /\ \A q \in oplog : q.seq <= Newest(oplog).seq
    BY <1>2, <2>1, NewestIsGreatest DEF OplogTypeOK
  <2> QED
    BY <1>2, <2>2 DEF OplogHead, Seqs, OplogTypeOK, Rows
<1> QED
  BY <1>1, <1>2

(* Each step keeps the types; only the pruner's reads need RowsInv.        *)
LEMMA TypeStep ==
  ASSUME OplogTypeOK, RowsInv, [OplogNext]_oplogVars
  PROVE  OplogTypeOK'
<1> USE DEF OplogTypeOK, tableVars, writerVars, pruneVars
<1>1. ASSUME NEW w \in Writers, StartStatement(w) PROVE OplogTypeOK'
  BY <1>1 DEF StartStatement
<1>2. ASSUME NEW w \in Writers, NEW ns \in Namespaces, OplogAppend(w, ns)
      PROVE  OplogTypeOK'
  <2>1. NextTs(pclock, wtime[w]) \in Timestamps
    BY DEF NextTs, Timestamps
  <2> DEFINE c == NextTs(pclock, wtime[w])
             r == [seq |-> next, t |-> c.t, i |-> c.i, ns |-> ns]
  <2>2. r \in Rows
    BY <2>1 DEF Rows, Timestamps
  <2>3. pend' = pend \cup {r} /\ pclock' = c
    BY <1>2 DEF OplogAppend
  <2> HIDE DEF c, r
  <2> QED
    BY <1>2, <2>1, <2>2, <2>3 DEF OplogAppend, c
<1>3. ASSUME NEW w \in Writers, ReadStamp(w) PROVE OplogTypeOK'
  BY <1>3 DEF ReadStamp
<1>4. ASSUME NEW w \in Writers, Commit(w) PROVE OplogTypeOK'
  BY <1>4 DEF Commit
<1>5. ASSUME NEW w \in Writers, Rollback(w) PROVE OplogTypeOK'
  BY <1>5 DEF Rollback, ZeroTs, Timestamps
<1>6. ASSUME NEW w \in WireWriters, SignalWrite(w) PROVE OplogTypeOK'
  BY <1>6 DEF SignalWrite, ZeroTs, Timestamps, Writers
<1>7. ASSUME NEW l \in Limits, PruneHead(l) PROVE OplogTypeOK'
  <2>1. l.rows \in Nat /\ l.age \in Nat
    BY OplogAssumption
  <2>2. OplogHead \in Nat
    BY HeadIsNewest
  <2> QED
    BY <1>7, <2>1, <2>2 DEF PruneHead, PlanStep, NoPlan, ZeroTs, Timestamps
<1>8. CASE PruneAge
  BY <1>8 DEF PruneAge, PlanStep
<1>9. CASE PruneCut
  <2>1. RowCut(plan.rows) \in Nat
    <3>1. Seqs(oplog) \subseteq Nat
      BY DEF Seqs, Rows
    <3> QED
      BY <3>1 DEF RowCut
  <2>2. CASE plan.cutTime = 0 /\ RowCut(plan.rows) = 0
    BY <1>9, <2>2 DEF PruneCut, EndPass, NoPlan, ZeroTs, Timestamps
  <2>3. CASE ~(plan.cutTime = 0 /\ RowCut(plan.rows) = 0)
    BY <1>9, <2>1, <2>3 DEF PruneCut
  <2> QED
    BY <2>2, <2>3
<1>10. CASE PruneNewest
  <2>1. CASE Selected(plan) = {}
    BY <1>10, <2>1 DEF PruneNewest, EndPass, NoPlan, ZeroTs, Timestamps
  <2>2. CASE Selected(plan) # {}
    <3>1. Selected(plan) \subseteq Rows /\ \A r \in Selected(plan) : r.seq <= plan.head
      BY DEF Selected, Rows
    <3>2. Newest(Selected(plan)) \in Rows
      BY <2>2, <3>1, NewestIsGreatest
    <3> QED
      BY <1>10, <2>2, <3>2 DEF PruneNewest, Rows
  <2> QED
    BY <2>1, <2>2
<1>11. CASE PruneTs
  BY <1>11 DEF PruneTs, PlanStep, Selected, Rows, Ts, Timestamps
<1>12. CASE PruneLock
  BY <1>12 DEF PruneLock
<1>13. CASE PruneDelete
  <2>1. RaiseWatermarks(hist, plan.newest, plan.ts) \in
          [pruned : Nat, ts : Timestamps, legacy : BOOLEAN,
           baseline : Nat, baseTs : Timestamps]
    BY DEF RaiseWatermarks
  <2> QED
    BY <1>13, <2>1 DEF PruneDelete, EndPass, NoPlan, ZeroTs, Timestamps
<1>14. CASE PruneFail
  BY <1>14 DEF PruneFail, EndPass, NoPlan, ZeroTs, Timestamps
<1>15. CASE Tick
  BY <1>15 DEF Tick
<1>16. CASE CrashOplog
  BY <1>16 DEF CrashOplog, EndPass, NoPlan, ZeroTs, Timestamps
<1>17. CASE UNCHANGED oplogVars
  BY <1>17 DEF oplogVars
<1> QED
  BY <1>1, <1>2, <1>3, <1>4, <1>5, <1>6, <1>7, <1>8, <1>9, <1>10, <1>11,
     <1>12, <1>13, <1>14, <1>15, <1>16, <1>17
     DEF OplogNext, OplogStep, WriterStep, PrunePass

----------------------------------------------------------------------------
(* The inductive invariant, one lemma per conjunct                         *)

(* The lock's non-writer owners are no writers.                            *)
LEMMA Owners == Free # Pruner /\ Free \notin Writers /\ Pruner \notin Writers
  BY OplogAssumption

(* The parts of the invariant other than types hold initially.             *)
LEMMA InitParts ==
  OplogInit => RowsInv /\ LockInv /\ HistoryInv /\ PlanInv
               /\ NewestSurvives /\ WatermarkExact
<1> SUFFICES ASSUME OplogInit
             PROVE  RowsInv /\ LockInv /\ HistoryInv /\ PlanInv
                    /\ NewestSurvives /\ WatermarkExact
  OBVIOUS
<1>1. PICK d \in Installed :
        /\ log = d.all /\ oplog = d.kept
        /\ clock = d.clock /\ pclock = d.clock
        /\ hist = SeedHistory(d.kept)
        /\ next = IF d.all = {} THEN 1 ELSE Newest(d.all).seq + 1
        /\ lock = Free /\ pend = {}
        /\ ppc = "idle"
  BY DEF OplogInit
<1>2. /\ d.all \subseteq Rows /\ d.kept \subseteq d.all
      /\ \A r, q \in d.all : r.seq = q.seq => r = q
      /\ \A r \in d.all \ d.kept, q \in d.kept : r.seq < q.seq
      /\ \A r \in d.all : r.seq <= MaxSeq /\ \E q \in d.kept : r.seq <= q.seq
      /\ MaxSeq \in Nat
  BY OplogAssumption
<1>3. hist.pruned = 0 /\ hist.ts = ZeroTs
  BY <1>1 DEF SeedHistory
<1>4. LockInv /\ PlanInv
  BY <1>1, Owners DEF LockInv, PlanInv
<1>5. NewestSurvives
  BY <1>1, <1>2 DEF NewestSurvives
<1>6. CASE d.all = {}
  <2>1. log = {} /\ oplog = {} /\ next = 1 /\ hist.baseline = 0
    BY <1>1, <1>2, <1>6 DEF SeedHistory
  <2> QED
    BY <1>1, <1>3, <1>4, <1>5, <2>1 DEF RowsInv, HistoryInv, WatermarkExact
<1>7. CASE d.all # {}
  <2>1. /\ Newest(d.all) \in d.all
        /\ \A q \in d.all : q.seq <= Newest(d.all).seq
    BY <1>2, <1>7, NewestIsGreatest
  <2>2. d.kept # {}
    BY <1>2, <1>7
  <2>3. /\ Oldest(d.kept) \in d.kept
        /\ \A q \in d.kept : Oldest(d.kept).seq <= q.seq
    BY <1>2, <2>2, OldestIsLeast
  <2>4. hist.baseline = Oldest(d.kept).seq - 1
    BY <1>1, <2>2 DEF SeedHistory
  <2>5. next = Newest(d.all).seq + 1
    BY <1>1, <1>7
  <2>6. \A r \in d.all : r.seq \in Nat /\ r.seq > 0
    BY <1>2 DEF Rows
  <2>7. RowsInv
    BY <1>1, <1>2, <2>1, <2>5, <2>6 DEF RowsInv
  <2>8. HistoryInv
    BY <1>1, <1>2, <1>3, <1>7, <2>1, <2>3, <2>4, <2>5, <2>6 DEF HistoryInv
  <2>9. {r \in log \ oplog : r.seq > hist.baseline} = {}
    <3> SUFFICES ASSUME NEW r \in log \ oplog PROVE ~(r.seq > hist.baseline)
      OBVIOUS
    <3>1. r.seq < Oldest(d.kept).seq
      BY <1>1, <1>2, <2>3
    <3> QED
      BY <1>1, <1>2, <2>3, <2>4, <2>6, <3>1
  <2> QED
    BY <1>3, <1>4, <1>5, <2>7, <2>8, <2>9 DEF WatermarkExact
<1> QED
  BY <1>6, <1>7

(* Rows stay unique and uncommitted rows stay on top.                      *)
LEMMA RowsStep ==
  ASSUME OplogTypeOK, RowsInv, LockInv, [OplogNext]_oplogVars
  PROVE  RowsInv'
<1> USE DEF RowsInv, tableVars
<1>0. \A r \in log \cup pend : r.seq \in Nat
  BY DEF OplogTypeOK, Rows
<1>1. ASSUME NEW w \in Writers, StartStatement(w) PROVE RowsInv'
  BY <1>1 DEF StartStatement
<1>2. ASSUME NEW w \in Writers, NEW ns \in Namespaces, OplogAppend(w, ns)
      PROVE  RowsInv'
  <2>1. PICK p : p.seq = next /\ pend' = pend \cup {p}
    BY <1>2 DEF OplogAppend
  <2>2. next' = next + 1 /\ next \in Nat /\ UNCHANGED <<log, oplog>>
    BY <1>2 DEF OplogAppend, OplogTypeOK
  <2> QED
    BY <1>0, <2>1, <2>2
<1>3. ASSUME NEW w \in Writers, ReadStamp(w) PROVE RowsInv'
  BY <1>3 DEF ReadStamp
<1>4. ASSUME NEW w \in Writers, Commit(w) PROVE RowsInv'
  BY <1>4 DEF Commit
<1>5. ASSUME NEW w \in Writers, Rollback(w) PROVE RowsInv'
  BY <1>5 DEF Rollback
<1>6. ASSUME NEW w \in WireWriters, SignalWrite(w) PROVE RowsInv'
  BY <1>6 DEF SignalWrite
<1>7. ASSUME PrunePass \/ PruneFail \/ Tick PROVE RowsInv'
  <2>1. UNCHANGED <<log, pend, next>> /\ oplog' \subseteq oplog
    BY <1>7 DEF PrunePass, PruneHead, PruneAge, PruneCut, PruneNewest, PruneTs,
                PruneLock, PruneDelete, PruneFail, PlanStep, Tick
  <2> QED
    BY <2>1
<1>8. CASE CrashOplog
  BY <1>8 DEF CrashOplog
<1>9. CASE UNCHANGED oplogVars
  BY <1>9 DEF oplogVars
<1> QED
  BY <1>1, <1>2, <1>3, <1>4, <1>5, <1>6, <1>7, <1>8, <1>9
     DEF OplogNext, OplogStep, WriterStep

(* Uncommitted state stays with the owner of the clock row.                *)
LEMMA LockStep ==
  ASSUME OplogTypeOK, LockInv, [OplogNext]_oplogVars
  PROVE  LockInv'
<1> USE Owners DEF LockInv, OplogTypeOK, tableVars, writerVars, pruneVars
<1>1. ASSUME NEW w \in Writers, StartStatement(w) PROVE LockInv'
  BY <1>1 DEF StartStatement
<1>2. ASSUME NEW w \in Writers, NEW ns \in Namespaces, OplogAppend(w, ns)
      PROVE  LockInv'
  BY <1>2 DEF OplogAppend
<1>3. ASSUME NEW w \in Writers, ReadStamp(w) PROVE LockInv'
  BY <1>3 DEF ReadStamp
<1>4. ASSUME NEW w \in Writers, Commit(w) PROVE LockInv'
  BY <1>4 DEF Commit
<1>5. ASSUME NEW w \in Writers, Rollback(w) PROVE LockInv'
  BY <1>5 DEF Rollback
<1>6. ASSUME NEW w \in WireWriters, SignalWrite(w) PROVE LockInv'
  BY <1>6 DEF SignalWrite, Writers
<1>7. ASSUME NEW l \in Limits, PruneHead(l) PROVE LockInv'
  BY <1>7 DEF PruneHead, PlanStep
<1>8. CASE PruneAge \/ PruneTs
  BY <1>8 DEF PruneAge, PruneTs, PlanStep
<1>9. CASE PruneCut \/ PruneNewest
  BY <1>9 DEF PruneCut, PruneNewest, EndPass
<1>10. CASE PruneLock
  BY <1>10 DEF PruneLock
<1>11. CASE PruneDelete \/ PruneFail
  BY <1>11 DEF PruneDelete, PruneFail, EndPass
<1>12. CASE Tick
  BY <1>12 DEF Tick
<1>13. CASE CrashOplog
  BY <1>13 DEF CrashOplog, EndPass
<1>14. CASE UNCHANGED oplogVars
  BY <1>14 DEF oplogVars
<1> QED
  BY <1>1, <1>2, <1>3, <1>4, <1>5, <1>6, <1>7, <1>8, <1>9, <1>10, <1>11,
     <1>12, <1>13, <1>14 DEF OplogNext, OplogStep, WriterStep, PrunePass

(* What a step may do to the rows and the history.                         *)
Quiet == UNCHANGED <<log, oplog, pend, next, hist>>
Append == /\ \E p \in Rows : p.seq = next /\ pend' = pend \cup {p}
          /\ next' = next + 1
          /\ UNCHANGED <<log, oplog, hist>>
Publish == /\ log' = log \cup pend /\ oplog' = oplog \cup pend /\ pend' = {}
           /\ UNCHANGED <<next, hist>>
Undo == /\ pend' = {} /\ next' \in Nat \ {0} /\ \A r \in log : r.seq < next'
        /\ UNCHANGED <<log, oplog, hist>>

(* Every step but the pruner's deletion has one of these four effects.     *)
LEMMA Effects ==
  ASSUME OplogTypeOK, RowsInv, LockInv, [OplogNext]_oplogVars
  PROVE  Quiet \/ Append \/ Publish \/ Undo \/ PruneDelete
<1> USE DEF tableVars
<1>1. ASSUME NEW w \in Writers, WriterStep(w)
      PROVE  Quiet \/ Append \/ Publish \/ Undo
  <2>1. CASE StartStatement(w)
    BY <2>1 DEF StartStatement, Quiet
  <2>2. ASSUME NEW ns \in Namespaces, OplogAppend(w, ns) PROVE Append
    <3> DEFINE c == NextTs(pclock, wtime[w])
               p == [seq |-> next, t |-> c.t, i |-> c.i, ns |-> ns]
    <3>1. c \in Timestamps
      BY DEF NextTs, Timestamps, OplogTypeOK
    <3>2. p \in Rows /\ p.seq = next
      BY <3>1 DEF Rows, Timestamps, OplogTypeOK
    <3>3. pend' = pend \cup {p}
      BY <2>2 DEF OplogAppend
    <3> HIDE DEF p
    <3> QED
      BY <2>2, <3>2, <3>3 DEF OplogAppend, Append
  <2>3. CASE ReadStamp(w)
    BY <2>3 DEF ReadStamp, Quiet
  <2>4. CASE Commit(w)
    BY <2>4 DEF Commit, Quiet, Publish
  <2>5. CASE Rollback(w)
    BY <2>5 DEF Rollback, Quiet, Undo, RowsInv, OplogTypeOK
  <2> QED
    BY <1>1, <2>1, <2>2, <2>3, <2>4, <2>5 DEF WriterStep
<1>2. ASSUME NEW w \in WireWriters, SignalWrite(w) PROVE Quiet
  BY <1>2 DEF SignalWrite, Quiet
<1>3. ASSUME PrunePass \/ PruneFail \/ Tick, ~PruneDelete PROVE Quiet
  BY <1>3 DEF PrunePass, PruneHead, PruneAge, PruneCut, PruneNewest, PruneTs,
              PruneLock, PruneFail, PlanStep, Tick, Quiet
<1>4. CASE CrashOplog
  BY <1>4 DEF CrashOplog, Undo, OplogTypeOK
<1>5. CASE UNCHANGED oplogVars
  BY <1>5 DEF oplogVars, Quiet
<1> QED
  BY <1>1, <1>2, <1>3, <1>4, <1>5 DEF OplogNext, OplogStep

(* A deletion leaves everything but oplog and hist, raises hist, and keeps *)
(* the row at the planned head.                                            *)
LEMMA DeleteEffect ==
  ASSUME OplogTypeOK, RowsInv, PlanInv, PruneDelete
  PROVE  /\ UNCHANGED <<log, pend, next>>
         /\ oplog' = oplog \ Selected(plan)
         /\ hist' = RaiseWatermarks(hist, plan.newest, plan.ts)
         /\ hist'.baseline = hist.baseline
         /\ \E k \in oplog' : k.seq = plan.head
<1> DEFINE doomed == {r \in Selected(plan) :
                        r.seq <= plan.newest /\ plan.newest \in Seqs(Selected(plan))}
<1>1. ppc = "delete"
  BY DEF PruneDelete
<1>2. doomed = Selected(plan) /\ doomed # {}
  BY <1>1 DEF PlanInv, Seqs
<1>3. /\ oplog' = oplog \ doomed
      /\ hist' = IF doomed = {} THEN hist
                                 ELSE RaiseWatermarks(hist, plan.newest, plan.ts)
      /\ UNCHANGED <<log, pend, next>>
  BY DEF PruneDelete
<1>4. hist'.baseline = hist.baseline
  BY <1>2, <1>3 DEF RaiseWatermarks, OplogTypeOK
<1>5. PICK k \in oplog : k.seq = plan.head
  BY <1>1 DEF PlanInv, Seqs
<1>6. k \notin Selected(plan)
  BY <1>5 DEF Selected, OplogTypeOK
<1> QED
  BY <1>2, <1>3, <1>4, <1>5, <1>6

(* The baseline stays below the rows, a deletion time needs a deletion.    *)
LEMMA HistoryStep ==
  ASSUME OplogTypeOK, RowsInv, LockInv, HistoryInv, PlanInv, NewestSurvives,
         [OplogNext]_oplogVars
  PROVE  HistoryInv'
<1> USE DEF HistoryInv
<1>0. hist.baseline \in Nat /\ next \in Nat /\ \A r \in log \cup pend : r.seq \in Nat
  BY DEF OplogTypeOK, Rows
<1>1. CASE Quiet
  BY <1>1 DEF Quiet
<1>2. CASE Append
  BY <1>0, <1>2 DEF Append
<1>3. CASE Publish
  BY <1>3 DEF Publish
<1>4. CASE Undo
  <2>1. hist.baseline < next'
    <3>1. CASE log = {}
      BY <1>4, <3>1 DEF Undo
    <3>2. CASE log # {}
      <4>1. PICK q \in oplog : TRUE
        BY <3>2 DEF NewestSurvives
      <4>2. q \in log /\ hist.baseline < q.seq
        BY <4>1 DEF RowsInv
      <4> QED
        BY <1>0, <1>4, <4>2 DEF Undo
    <3> QED
      BY <3>1, <3>2
  <2> QED
    BY <1>4, <2>1 DEF Undo
<1>5. CASE PruneDelete
  <2>1. plan.newest \in Seqs(Selected(plan)) /\ Selected(plan) \subseteq Rows
    BY <1>5 DEF PruneDelete, PlanInv, Selected, OplogTypeOK
  <2>2. plan.newest \in Nat /\ plan.newest > 0
    BY <2>1 DEF Seqs, Rows
  <2>3. hist'.pruned # 0
    <3>1. hist' = RaiseWatermarks(hist, plan.newest, plan.ts)
      BY <1>5, DeleteEffect
    <3>2. hist'.pruned = IF hist.pruned > plan.newest THEN hist.pruned ELSE plan.newest
      BY <3>1 DEF RaiseWatermarks, OplogTypeOK
    <3> QED
      BY <2>2, <3>2 DEF OplogTypeOK
  <2>4. /\ UNCHANGED <<log, pend, next>> /\ oplog' \subseteq oplog
        /\ hist'.baseline = hist.baseline
    BY <1>5, DeleteEffect
  <2> QED
    BY <2>3, <2>4
<1> QED
  BY <1>1, <1>2, <1>3, <1>4, <1>5, Effects

(* The newest committed row is never deleted.                              *)
LEMMA NewestStep ==
  ASSUME OplogTypeOK, RowsInv, LockInv, PlanInv, NewestSurvives,
         [OplogNext]_oplogVars
  PROVE  NewestSurvives'
<1> USE DEF NewestSurvives
<1>0. \A r \in log \cup oplog \cup pend : r.seq \in Nat
  BY DEF OplogTypeOK, Rows
<1>1. CASE Quiet \/ Append \/ Undo
  BY <1>1 DEF Quiet, Append, Undo
<1>2. CASE Publish
  BY <1>0, <1>2 DEF Publish
<1>3. CASE PruneDelete
  <2>1. PICK k \in oplog' : k.seq = plan.head
    BY <1>3, DeleteEffect
  <2>2. log' = log /\ oplog' = oplog \ Selected(plan)
    BY <1>3, DeleteEffect
  <2> SUFFICES ASSUME NEW r \in log PROVE \E q \in oplog' : r.seq <= q.seq
    BY <2>2
  <2>3. PICK q \in oplog : r.seq <= q.seq
    OBVIOUS
  <2>4. q.seq \in Nat /\ r.seq \in Nat /\ k.seq \in Nat
    BY <1>0, <2>1, <2>2
  <2>5. CASE q \in Selected(plan)
    BY <2>1, <2>3, <2>4, <2>5 DEF Selected
  <2>6. CASE q \notin Selected(plan)
    BY <2>2, <2>3, <2>6
  <2> QED
    BY <2>5, <2>6
<1> QED
  BY <1>1, <1>2, <1>3, Effects

(* Commits between planning and deletion add rows above the planned head,  *)
(* so they change nothing the plan relies on.                              *)
LEMMA PlanKept ==
  ASSUME OplogTypeOK, RowsInv, LockInv, PlanInv, UNCHANGED pruneVars,
         Quiet \/ Append \/ Publish \/ Undo
  PROVE  PlanInv'
<1>1. CASE ppc = "idle"
  BY <1>1 DEF PlanInv, pruneVars
<1>2. CASE ppc # "idle"
  <2>1. PICK k \in oplog : k.seq = plan.head
    BY <1>2 DEF PlanInv, Seqs
  <2>2. oplog \subseteq oplog'
    BY DEF Quiet, Append, Publish, Undo
  <2>3. \A r \in oplog' : r \notin oplog => r.seq > plan.head
    <3> SUFFICES ASSUME NEW r \in oplog', r \notin oplog PROVE r.seq > plan.head
      OBVIOUS
    <3>1. r \in pend
      BY DEF Quiet, Append, Publish, Undo
    <3>2. k \in log /\ k.seq < r.seq
      BY <2>1, <3>1 DEF RowsInv
    <3> QED
      BY <2>1, <3>1, <3>2 DEF OplogTypeOK, Rows
  <2>4. oplog' \subseteq Rows
    BY DEF Quiet, Append, Publish, Undo, OplogTypeOK
  <2>5. {r \in oplog' : r.seq < plan.head /\ (r.t < plan.cutTime \/ r.seq < plan.cutSeq)}
          = Selected(plan)
    BY <2>2, <2>3, <2>4 DEF Selected, OplogTypeOK, Rows
  <2>6. Selected(plan)' = Selected(plan)
    BY <2>5 DEF Selected, pruneVars
  <2>7. Seqs(oplog) \subseteq Seqs(oplog)'
    BY <2>2 DEF Seqs
  <2>8. plan' = plan /\ ppc' = ppc
    BY DEF pruneVars
  <2>9. Seqs(Selected(plan))' = Seqs(Selected(plan))
    BY <2>6 DEF Seqs
  <2> QED
    BY <2>6, <2>7, <2>8, <2>9 DEF PlanInv
<1> QED
  BY <1>1, <1>2

(* The pruner's own steps establish the plan piece by piece.               *)
LEMMA PlanInvStep ==
  ASSUME OplogTypeOK, RowsInv, LockInv, PlanInv, [OplogNext]_oplogVars
  PROVE  PlanInv'
<1> USE DEF tableVars, writerVars, pruneVars
<1>1. CASE UNCHANGED pruneVars /\ ~PruneDelete
  BY <1>1, Effects, PlanKept
<1>2. ASSUME NEW l \in Limits, PruneHead(l) PROVE PlanInv'
  <2>1. ppc' = "age" /\ plan'.head = OplogHead /\ OplogHead # 0 /\ oplog' = oplog
    BY <1>2 DEF PruneHead, PlanStep, NoPlan
  <2>2. OplogHead \in Seqs(oplog)
    BY <2>1, HeadIsNewest
  <2> QED
    BY <2>1, <2>2 DEF PlanInv, Seqs
<1>3. CASE PruneAge \/ PruneCut
  <2>1. oplog' = oplog /\ ppc \in {"age", "cut"}
    BY <1>3 DEF PruneAge, PruneCut, PlanStep
  <2>2. \/ ppc' = "idle"
        \/ ppc' \in {"cut", "newest"} /\ plan'.head = plan.head
    BY <1>3 DEF PruneAge, PruneCut, PlanStep, EndPass, OplogTypeOK
  <2> QED
    BY <2>1, <2>2 DEF PlanInv, Seqs
<1>4. CASE PruneNewest
  <2>1. CASE Selected(plan) = {}
    BY <1>4, <2>1 DEF PruneNewest, EndPass, PlanInv
  <2>2. CASE Selected(plan) # {}
    <3>1. Selected(plan) \subseteq Rows /\ \A r \in Selected(plan) : r.seq <= plan.head
      BY DEF Selected, OplogTypeOK, Rows
    <3>2. /\ Newest(Selected(plan)) \in Selected(plan)
          /\ \A q \in Selected(plan) : q.seq <= Newest(Selected(plan)).seq
      BY <2>2, <3>1, NewestIsGreatest DEF OplogTypeOK
    <3>3. /\ ppc = "newest" /\ ppc' = "ts" /\ oplog' = oplog
          /\ plan' = [plan EXCEPT !.newest = Newest(Selected(plan)).seq]
      BY <1>4, <2>2 DEF PruneNewest
    <3>4. /\ plan'.head = plan.head /\ plan'.cutTime = plan.cutTime
          /\ plan'.cutSeq = plan.cutSeq
          /\ plan'.newest = Newest(Selected(plan)).seq
      BY <3>3 DEF OplogTypeOK
    <3>5. Selected(plan)' = Selected(plan)
      BY <3>3, <3>4 DEF Selected
    <3>6. /\ Seqs(Selected(plan))' = Seqs(Selected(plan))
          /\ Seqs(oplog)' = Seqs(oplog)
      BY <3>3, <3>5 DEF Seqs
    <3> QED
      BY <3>2, <3>3, <3>4, <3>5, <3>6 DEF PlanInv, Seqs
  <2> QED
    BY <2>1, <2>2
<1>5. CASE PruneTs
  <2>1. PICK r \in Selected(plan) :
          /\ \A q \in Selected(plan) : ~TsLess(r, q)
          /\ plan' = [plan EXCEPT !.ts = Ts(r)]
    BY <1>5 DEF PruneTs
  <2>2. ppc = "ts" /\ ppc' = "lock" /\ oplog' = oplog
    BY <1>5 DEF PruneTs, PlanStep
  <2>3. /\ plan'.head = plan.head /\ plan'.cutTime = plan.cutTime
        /\ plan'.cutSeq = plan.cutSeq /\ plan'.newest = plan.newest
        /\ plan'.ts = Ts(r)
    BY <2>1 DEF OplogTypeOK
  <2>4. Selected(plan)' = Selected(plan)
    BY <2>2, <2>3 DEF Selected
  <2>5. /\ Seqs(Selected(plan))' = Seqs(Selected(plan))
        /\ Seqs(oplog)' = Seqs(oplog)
    BY <2>2, <2>4 DEF Seqs
  <2>6. \A q \in Selected(plan) : ~TsLess(Ts(r), q)
    BY <2>1 DEF TsLess, Ts
  <2> QED
    BY <2>1, <2>2, <2>3, <2>4, <2>5, <2>6 DEF PlanInv
<1>6. CASE PruneLock
  <2>1. ppc = "lock" /\ ppc' = "delete" /\ plan' = plan /\ oplog' = oplog
    BY <1>6 DEF PruneLock
  <2>2. Selected(plan)' = Selected(plan)
    BY <2>1 DEF Selected
  <2>3. /\ Seqs(Selected(plan))' = Seqs(Selected(plan))
        /\ Seqs(oplog)' = Seqs(oplog)
    BY <2>1, <2>2 DEF Seqs
  <2> QED
    BY <2>1, <2>2, <2>3 DEF PlanInv
<1>7. CASE PruneDelete \/ PruneFail \/ CrashOplog
  <2>1. ppc' = "idle"
    BY <1>7 DEF PruneDelete, PruneFail, CrashOplog, EndPass
  <2> QED
    BY <2>1 DEF PlanInv
<1>8. \/ UNCHANGED pruneVars
      \/ \E l \in Limits : PruneHead(l)
      \/ PruneAge \/ PruneCut \/ PruneNewest \/ PruneTs \/ PruneLock
      \/ PruneDelete \/ PruneFail \/ CrashOplog
  BY DEF OplogNext, OplogStep, WriterStep, PrunePass, StartStatement, OplogAppend,
         ReadStamp, Commit, Rollback, SignalWrite, Tick, oplogVars
<1> QED
  BY <1>1, <1>2, <1>3, <1>4, <1>5, <1>6, <1>7, <1>8

(* The watermarks keep naming exactly what has been deleted.               *)
LEMMA WatermarkStep ==
  ASSUME OplogTypeOK, RowsInv, LockInv, HistoryInv, PlanInv, WatermarkExact,
         [OplogNext]_oplogVars
  PROVE  WatermarkExact'
<1> DEFINE lost == {r \in log \ oplog : r.seq > hist.baseline}
<1>1. CASE Quiet \/ Append \/ Undo
  <2>1. UNCHANGED <<log, oplog, hist>>
    BY <1>1 DEF Quiet, Append, Undo
  <2> QED
    BY <2>1 DEF WatermarkExact
<1>2. CASE Publish
  <2>1. log' \ oplog' = log \ oplog
    <3>1. \A r \in pend : r \notin log
      BY DEF RowsInv, OplogTypeOK, Rows
    <3> QED
      BY <1>2, <3>1 DEF Publish, RowsInv
  <2>2. hist' = hist
    BY <1>2 DEF Publish
  <2> QED
    BY <2>1, <2>2 DEF WatermarkExact
<1>3. CASE PruneDelete
  <2>1. /\ log' = log /\ oplog' = oplog \ Selected(plan)
        /\ hist' = RaiseWatermarks(hist, plan.newest, plan.ts)
        /\ hist'.baseline = hist.baseline
    BY <1>3, DeleteEffect
  <2>2. ppc = "delete"
    BY <1>3 DEF PruneDelete
  <2>3. Selected(plan) \subseteq oplog /\ oplog \subseteq log
    BY DEF Selected, RowsInv
  <2>4. lost' = lost \cup Selected(plan)
    <3>1. \A r \in Selected(plan) : r.seq > hist.baseline
      BY <2>3 DEF HistoryInv, OplogTypeOK, Rows
    <3>2. lost' = {r \in log \ (oplog \ Selected(plan)) : r.seq > hist.baseline}
      BY <2>1
    <3> QED
      BY <2>3, <3>1, <3>2
  <2>5. /\ plan.newest \in Seqs(Selected(plan))
        /\ \A r \in Selected(plan) : r.seq <= plan.newest /\ ~TsLess(plan.ts, r)
        /\ \E r \in Selected(plan) : Ts(r) = plan.ts
    BY <2>2 DEF PlanInv
  <2>6. /\ hist'.pruned = IF hist.pruned > plan.newest THEN hist.pruned ELSE plan.newest
        /\ hist'.ts = IF TsLess(hist.ts, plan.ts) THEN plan.ts ELSE hist.ts
    BY <2>1 DEF RaiseWatermarks, OplogTypeOK
  <2>7. /\ hist.pruned \in Nat /\ plan.newest \in Nat
        /\ hist.ts \in Timestamps /\ plan.ts \in Timestamps
        /\ lost \subseteq Rows /\ Selected(plan) \subseteq Rows
    BY <2>3 DEF OplogTypeOK
  <2>8. /\ \A r \in lost : r.seq <= hist.pruned /\ ~TsLess(hist.ts, r)
        /\ hist.pruned # 0 => /\ \E r \in lost : r.seq = hist.pruned
                              /\ \E r \in lost : Ts(r) = hist.ts
    BY DEF WatermarkExact
  <2> HIDE DEF lost
  <2>9. \A r \in lost \cup Selected(plan) : r.seq <= hist'.pruned
    BY <2>5, <2>6, <2>7, <2>8 DEF Rows
  <2>10. \A r \in lost \cup Selected(plan) : ~TsLess(hist'.ts, r)
    BY <2>5, <2>6, <2>7, <2>8 DEF Rows, TsLess, Timestamps
  <2>11. \E r \in lost \cup Selected(plan) : r.seq = hist'.pruned
    BY <2>5, <2>6, <2>7, <2>8 DEF Seqs
  <2>12. \E r \in lost \cup Selected(plan) : Ts(r) = hist'.ts
    <3>1. CASE TsLess(hist.ts, plan.ts)
      BY <2>5, <2>6, <3>1
    <3>2. CASE ~TsLess(hist.ts, plan.ts) /\ hist.pruned # 0
      BY <2>6, <2>8, <3>2
    <3>3. CASE ~TsLess(hist.ts, plan.ts) /\ hist.pruned = 0
      <4>1. hist.ts = ZeroTs
        BY <3>3 DEF HistoryInv
      <4>2. plan.ts = ZeroTs
        BY <2>7, <3>3, <4>1 DEF TsLess, ZeroTs, Timestamps
      <4> QED
        BY <2>5, <2>6, <3>3, <4>1, <4>2
    <3> QED
      BY <3>1, <3>2, <3>3
  <2> QED
    BY <2>4, <2>9, <2>10, <2>11, <2>12 DEF WatermarkExact, lost
<1> QED
  BY <1>1, <1>2, <1>3, Effects

----------------------------------------------------------------------------
(* Theorems                                                                *)

(* The inductive invariant holds in every reachable state.                 *)
THEOREM OplogInvariant == OplogSpec => []OplogInd
<1>1. OplogInit => OplogInd
  BY InitType, InitParts DEF OplogInd
<1>2. OplogInd /\ [OplogNext]_oplogVars => OplogInd'
  BY TypeStep, RowsStep, LockStep, HistoryStep, PlanInvStep, NewestStep, WatermarkStep
     DEF OplogInd
<1> QED
  BY <1>1, <1>2, PTL DEF OplogSpec

(* The tables, the writers and the pruning plan are always well typed.     *)
THEOREM OplogTypeCorrect == OplogSpec => []OplogTypeOK
  BY OplogInvariant, PTL DEF OplogInd

(* prune_oplog never deletes the newest committed row.                     *)
THEOREM PrunerKeepsNewest == OplogSpec => []NewestSurvives
  BY OplogInvariant, PTL DEF OplogInd

(* prune_oplog's watermarks are exactly the newest deleted seq and time,   *)
(* for any interleaving of writers, failed passes and crashes.             *)
THEOREM WatermarksAreExact == OplogSpec => []WatermarkExact
  BY OplogInvariant, PTL DEF OplogInd

(* Commit order is seq order: the clock row's lock serializes writers.     *)
THEOREM CommitOrderIsSeqOrder == OplogSpec => CommitsAboveHead
<1>1. OplogInd /\ [OplogNext]_oplogVars =>
        [\A r \in log' \ log, q \in log : q.seq < r.seq]_oplogVars
  <2> SUFFICES ASSUME OplogInd, [OplogNext]_oplogVars,
                      NEW r \in log' \ log, NEW q \in log
               PROVE  q.seq < r.seq
    OBVIOUS
  <2>1. Quiet \/ Append \/ Publish \/ Undo \/ PruneDelete
    BY Effects DEF OplogInd
  <2>2. r \in pend
    BY <2>1 DEF Quiet, Append, Publish, Undo, PruneDelete
  <2> QED
    BY <2>2 DEF OplogInd, RowsInv
<1> QED
  BY <1>1, OplogInvariant, PTL DEF OplogSpec, CommitsAboveHead

----------------------------------------------------------------------------
(* The times replies carry                                                 *)

(* The clock is the newest entry's time, committed or within the owner's   *)
(* transaction; a writer that has appended owns the clock until it ends,   *)
(* and its stamp is the clock it owns.                                     *)
StampInv ==
  /\ log # {} => \E r \in log : (\A q \in log : q.seq <= r.seq) /\ clock = Ts(r)
  /\ lock \in Writers =>
       \E r \in pend : /\ \A q \in pend : q.seq <= r.seq
                       /\ pclock = Ts(r) /\ mine[lock] = r.seq
  /\ \A w \in Writers :
       /\ wpc[w] = "idle" => mine[w] = 0
       /\ wpc[w] \in {"txn", "stamped"} /\ mine[w] # 0 => lock = w
       /\ wpc[w] = "stamped" /\ mine[w] # 0 => stamp[w] = pclock
       /\ wpc[w] = "signal" /\ mine[w] # 0 =>
            \E r \in log : r.seq = mine[w] /\ Ts(r) = stamp[w]

(* An installed database's clock is the time of its newest row.            *)
LEMMA InitStamps == OplogInit => StampInv
<1> SUFFICES ASSUME OplogInit PROVE StampInv
  OBVIOUS
<1>1. PICK d \in Installed :
        /\ log = d.all /\ clock = d.clock /\ lock = Free
        /\ wpc = [w \in Writers |-> "idle"] /\ mine = [w \in Writers |-> 0]
  BY DEF OplogInit
<1>2. /\ d.all \subseteq Rows /\ d.kept \subseteq d.all
      /\ \A r \in d.all : r.seq <= MaxSeq /\ \E q \in d.kept : r.seq <= q.seq
      /\ \A r, q \in d.all : r.seq = q.seq => r = q
      /\ \A r \in d.kept : (\A q \in d.kept : q.seq <= r.seq) => d.clock = Ts(r)
      /\ MaxSeq \in Nat
  BY OplogAssumption
<1>3. ASSUME log # {}
      PROVE  \E r \in log : (\A q \in log : q.seq <= r.seq) /\ clock = Ts(r)
  <2>1. PICK n \in d.all : \A q \in d.all : q.seq <= n.seq
    BY <1>1, <1>2, <1>3, NewestIsGreatest
  <2>2. PICK k \in d.kept : n.seq <= k.seq
    BY <1>2
  <2>3. n.seq \in Nat /\ k.seq \in Nat /\ k.seq <= n.seq
    BY <1>2, <2>1, <2>2 DEF Rows
  <2>4. k.seq = n.seq
    BY <2>2, <2>3
  <2>5. n = k
    BY <1>2, <2>4
  <2> QED
    BY <1>1, <1>2, <2>1, <2>5
<1> QED
  BY <1>1, <1>3, Owners DEF StampInv

(* The clock rules are kept while a writer appends, commits or gives up.   *)
LEMMA StampStep ==
  ASSUME OplogTypeOK, RowsInv, LockInv, StampInv, [OplogNext]_oplogVars
  PROVE  StampInv'
<1>0. /\ wpc \in [Writers -> {"idle", "txn", "stamped", "signal"}]
      /\ stamp \in [Writers -> Timestamps] /\ mine \in [Writers -> Nat]
      /\ \A r \in log \cup pend : r.seq \in Nat
  BY DEF OplogTypeOK, Rows
<1>1. ASSUME NEW w \in Writers, StartStatement(w) PROVE StampInv'
  <2>1. /\ UNCHANGED <<log, clock, lock, pend, pclock, stamp, mine>>
        /\ wpc[w] \in {"idle", "txn"} /\ wpc' = [wpc EXCEPT ![w] = "txn"]
    BY <1>1 DEF StartStatement, tableVars
  <2> QED
    BY <1>0, <2>1 DEF StampInv
<1>2. ASSUME NEW w \in Writers, NEW ns \in Namespaces, OplogAppend(w, ns)
      PROVE  StampInv'
  <2> DEFINE c == NextTs(pclock, wtime[w])
             p == [seq |-> next, t |-> c.t, i |-> c.i, ns |-> ns]
  <2>1. /\ wpc[w] = "txn" /\ lock \in {Free, w} /\ lock' = w
        /\ mine' = [mine EXCEPT ![w] = next] /\ UNCHANGED <<log, clock, wpc, stamp>>
    BY <1>2 DEF OplogAppend
  <2>2. pend' = pend \cup {p} /\ pclock' = c
    BY <1>2 DEF OplogAppend
  <2>3. p.seq = next /\ next \in Nat /\ Ts(p) = c
    BY DEF OplogTypeOK, Ts, NextTs
  <2>4. \A q \in pend : q.seq <= next
    BY <1>0, <2>3 DEF RowsInv
  <2>5. \E r \in pend' : /\ \A q \in pend' : q.seq <= r.seq
                         /\ pclock' = Ts(r) /\ mine'[w] = r.seq
    <3> HIDE DEF p, c
    <3> QED
      BY <1>0, <2>1, <2>2, <2>3, <2>4
  <2>6. \A v \in Writers \ {w} : /\ mine'[v] = mine[v]
                                 /\ wpc[v] \in {"txn", "stamped"} => mine[v] = 0
    BY <1>0, <2>1, Owners DEF StampInv
  <2> QED
    BY <2>1, <2>5, <2>6 DEF StampInv
<1>3. ASSUME NEW w \in Writers, ReadStamp(w) PROVE StampInv'
  <2>1. /\ wpc[w] = "txn" /\ wpc' = [wpc EXCEPT ![w] = "stamped"]
        /\ stamp' = [stamp EXCEPT ![w] = IF lock = w THEN pclock ELSE clock]
        /\ UNCHANGED <<log, clock, lock, pend, pclock, mine>>
    BY <1>3 DEF ReadStamp, tableVars
  <2>2. mine[w] # 0 => lock = w /\ stamp'[w] = pclock
    BY <1>0, <2>1 DEF StampInv
  <2>3. wpc'[w] = "stamped" /\ \A v \in Writers \ {w} : wpc'[v] = wpc[v] /\ stamp'[v] = stamp[v]
    BY <1>0, <2>1
  <2> QED
    BY <2>1, <2>2, <2>3 DEF StampInv
<1>4. ASSUME NEW w \in Writers, Commit(w) PROVE StampInv'
  <2>1. /\ wpc[w] = IF w \in WireWriters THEN "stamped" ELSE "txn"
        /\ wpc' = [wpc EXCEPT ![w] = IF w \in WireWriters THEN "signal" ELSE "idle"]
        /\ mine' = [mine EXCEPT ![w] = IF w \in WireWriters THEN @ ELSE 0]
        /\ UNCHANGED <<pclock, stamp>>
    BY <1>4 DEF Commit
  <2>2. /\ \A v \in Writers \ {w} : wpc'[v] = wpc[v] /\ mine'[v] = mine[v]
        /\ wpc'[w] = IF w \in WireWriters THEN "signal" ELSE "idle"
        /\ mine'[w] = IF w \in WireWriters THEN mine[w] ELSE 0
    BY <1>0, <2>1
  <2>3. CASE lock = w
    <3>1. log' = log \cup pend /\ clock' = pclock /\ lock' = Free
      BY <1>4, <2>3 DEF Commit
    <3>2. PICK r \in pend : /\ \A q \in pend : q.seq <= r.seq
                            /\ pclock = Ts(r) /\ mine[w] = r.seq
      BY <2>3 DEF StampInv
    <3>3. \A q \in log' : q.seq <= r.seq
      BY <1>0, <3>1, <3>2 DEF RowsInv
    <3>4. w \in WireWriters => stamp[w] = Ts(r)
      BY <1>0, <2>1, <3>2 DEF StampInv, RowsInv, OplogTypeOK, Rows
    <3>5. \A v \in Writers \ {w} : wpc[v] \in {"txn", "stamped"} => mine[v] = 0
      BY <2>3 DEF StampInv
    <3> QED
      BY <2>1, <2>2, <3>1, <3>2, <3>3, <3>4, <3>5, Owners DEF StampInv
  <2>4. CASE lock # w
    <3>1. UNCHANGED <<log, clock, pend, lock>>
      BY <1>4, <2>4 DEF Commit
    <3>2. mine[w] = 0
      BY <2>1, <2>4 DEF StampInv
    <3>3. mine'[w] = 0 /\ wpc'[w] \in {"signal", "idle"}
      BY <2>2, <3>2
    <3> QED
      BY <2>1, <2>2, <2>4, <3>1, <3>3 DEF StampInv
  <2> QED
    BY <2>3, <2>4
<1>5. ASSUME NEW w \in Writers, Rollback(w) PROVE StampInv'
  <2>1. /\ wpc' = [wpc EXCEPT ![w] = "idle"] /\ stamp' = [stamp EXCEPT ![w] = ZeroTs]
        /\ mine' = [mine EXCEPT ![w] = 0] /\ UNCHANGED <<log, clock>>
    BY <1>5 DEF Rollback
  <2>2. /\ wpc'[w] = "idle" /\ mine'[w] = 0
        /\ \A v \in Writers \ {w} : /\ wpc'[v] = wpc[v] /\ mine'[v] = mine[v]
                                    /\ stamp'[v] = stamp[v]
    BY <1>0, <2>1
  <2>3. CASE lock = w
    <3>1. lock' = Free /\ pclock' = clock
      BY <1>5, <2>3 DEF Rollback
    <3>2. \A v \in Writers \ {w} : wpc[v] \in {"txn", "stamped"} => mine[v] = 0
      BY <2>3 DEF StampInv
    <3> QED
      BY <2>1, <2>2, <3>1, <3>2, Owners DEF StampInv
  <2>4. CASE lock # w
    <3>1. UNCHANGED <<pclock, pend, lock>>
      BY <1>5, <2>4 DEF Rollback
    <3> QED
      BY <2>1, <2>2, <2>4, <3>1 DEF StampInv
  <2> QED
    BY <2>3, <2>4
<1>6. ASSUME NEW w \in WireWriters, SignalWrite(w) PROVE StampInv'
  <2>1. /\ wpc[w] = "signal" /\ wpc' = [wpc EXCEPT ![w] = "idle"]
        /\ stamp' = [stamp EXCEPT ![w] = ZeroTs] /\ mine' = [mine EXCEPT ![w] = 0]
        /\ UNCHANGED <<log, clock, lock, pend, pclock>> /\ w \in Writers
    BY <1>6 DEF SignalWrite, tableVars, Writers
  <2>2. lock # w
    BY <2>1 DEF LockInv
  <2>3. /\ wpc'[w] = "idle" /\ mine'[w] = 0
        /\ \A v \in Writers \ {w} : /\ wpc'[v] = wpc[v] /\ mine'[v] = mine[v]
                                    /\ stamp'[v] = stamp[v]
    BY <1>0, <2>1
  <2> QED
    BY <2>1, <2>2, <2>3 DEF StampInv
<1>7. ASSUME PrunePass \/ PruneFail \/ Tick \/ UNCHANGED oplogVars PROVE StampInv'
  <2>1. /\ UNCHANGED <<log, clock, pend, pclock, wpc, stamp, mine>>
        /\ lock' = lock \/ (lock \notin Writers /\ lock' \notin Writers)
    BY <1>7, Owners DEF PrunePass, PruneHead, PruneAge, PruneCut, PruneNewest, PruneTs,
       PruneLock, PruneDelete, PruneFail, PlanStep, Tick, oplogVars, tableVars, writerVars, LockInv
  <2> QED
    BY <2>1 DEF StampInv
<1>8. CASE CrashOplog
  <2>1. /\ UNCHANGED <<log, clock>> /\ lock' = Free
        /\ wpc' = [w \in Writers |-> "idle"] /\ mine' = [w \in Writers |-> 0]
    BY <1>8 DEF CrashOplog
  <2> QED
    BY <2>1, Owners DEF StampInv
<1> QED
  BY <1>1, <1>2, <1>3, <1>4, <1>5, <1>6, <1>7, <1>8 DEF OplogNext, OplogStep, WriterStep

(* Every operationTime run_atomically hands out is the time of the write's *)
(* own last entry, and the clock is that of the newest entry, whatever is  *)
(* rolled back and wherever the server dies.                               *)
THEOREM StampsAreTrueAlways == OplogSpec => []StampsAreTrue
<1>1. OplogInit => StampInv
  BY InitStamps
<1>2. OplogInd /\ StampInv /\ [OplogNext]_oplogVars => StampInv'
  BY StampStep DEF OplogInd
<1>3. OplogInd /\ StampInv => StampsAreTrue
  <2> SUFFICES ASSUME OplogInd, StampInv PROVE StampsAreTrue
    OBVIOUS
  <2>1. ASSUME log # {} PROVE clock = Ts(Newest(log))
    <3>1. PICK r \in log : (\A q \in log : q.seq <= r.seq) /\ clock = Ts(r)
      BY <2>1 DEF StampInv
    <3>2. Newest(log) \in log /\ \A q \in log : q.seq <= Newest(log).seq
      BY <3>1 DEF Newest
    <3>3. r.seq \in Nat /\ Newest(log).seq \in Nat
      BY <3>1, <3>2 DEF OplogInd, OplogTypeOK, Rows
    <3>4. r = Newest(log)
      BY <3>1, <3>2, <3>3 DEF OplogInd, RowsInv
    <3> QED
      BY <3>1, <3>4
  <2>2. StampIsOwnEntry
    BY DEF StampInv, StampIsOwnEntry, Writers
  <2> QED
    BY <2>1, <2>2 DEF StampsAreTrue, ClockIsNewestEntry
<1> QED
  BY <1>1, <1>2, <1>3, OplogInvariant, PTL DEF OplogSpec

----------------------------------------------------------------------------
(* What the pruner may delete                                              *)

(* What the cuts of a pruning pass promise: time goes on and rows are only *)
(* added until the pass deletes, so both stay true.                        *)
ExcessInv ==
  /\ plan.cutTime # 0 => plan.age > 0 /\ plan.cutTime + plan.age <= now
  /\ plan.cutSeq # 0 =>
       plan.rows > 0 /\ Cardinality({q \in oplog : q.seq >= plan.cutSeq}) >= plan.rows

(* Rows whose seqs are distinct and bounded are finitely many.             *)
LEMMA FiniteRows ==
  ASSUME NEW R, NEW n \in Nat, \A r \in R : r.seq \in 0..n,
         \A r, q \in R : r.seq = q.seq => r = q
  PROVE  IsFiniteSet(R)
<1> DEFINE f == [r \in R |-> r.seq]
<1>1. f \in Injection(R, 0..n)
  BY DEF Injection, IsInjective
<1>2. IsFiniteSet(0..n)
  BY FS_Interval
<1> QED
  BY <1>1, <1>2, FS_Injection

LEMMA OplogIsFinite ==
  ASSUME OplogTypeOK, RowsInv
  PROVE  IsFiniteSet(oplog)
<1>1. next \in Nat /\ \A r \in oplog : r.seq \in 0..next
  BY DEF OplogTypeOK, RowsInv, Rows
<1>2. \A r, q \in oplog : r.seq = q.seq => r = q
  BY DEF RowsInv
<1> QED
  BY <1>1, <1>2, FiniteRows

(* The rows-th newest row and the newer ones are as many as the limit.     *)
LEMMA RowCutKeepsEnough ==
  ASSUME OplogTypeOK, RowsInv, NEW n \in Nat, RowCut(n) # 0
  PROVE  n > 0 /\ Cardinality({q \in oplog : q.seq >= RowCut(n)}) >= n
<1> DEFINE s == RowCut(n)
           newer == {q \in oplog : q.seq > s}
           kept == {q \in oplog : q.seq >= s}
<1>1. s \in Seqs(oplog) /\ n > 0 /\ Cardinality(newer) = n - 1
  BY DEF RowCut
<1>2. PICK k \in oplog : k.seq = s
  BY <1>1 DEF Seqs
<1>3. IsFiniteSet(oplog) /\ s \in Nat /\ \A q \in oplog : q.seq \in Nat
  BY <1>2, OplogIsFinite DEF OplogTypeOK, Rows
<1> HIDE DEF s
<1>4. newer \cup {k} \subseteq kept /\ k \notin newer /\ kept \subseteq oplog
  BY <1>2, <1>3
<1> HIDE DEF newer, kept
<1>5. IsFiniteSet(kept) /\ IsFiniteSet(newer)
  BY <1>3, <1>4, FS_Subset
<1>6. Cardinality(newer \cup {k}) = n
  <2>1. Cardinality(newer \cup {k}) = IF k \in newer THEN Cardinality(newer)
                                      ELSE Cardinality(newer) + 1
    BY <1>5, FS_AddElement, Zenon
  <2>2. Cardinality(newer \cup {k}) = Cardinality(newer) + 1
    BY <1>4, <2>1
  <2> QED
    BY <1>1, <2>2
<1>7. Cardinality(newer \cup {k}) <= Cardinality(kept) /\ Cardinality(kept) \in Nat
  BY <1>4, <1>5, FS_Subset, FS_CardinalityType
<1> QED
  BY <1>1, <1>6, <1>7 DEF s, kept

(* More rows above the cut only make its promise easier to keep.           *)
LEMMA CutSurvivesGrowth ==
  ASSUME OplogTypeOK', RowsInv', OplogTypeOK, oplog \subseteq oplog', plan' = plan,
         now <= now', ExcessInv
  PROVE  ExcessInv'
<1> DEFINE kept == {q \in oplog : q.seq >= plan.cutSeq}
           kept2 == {q \in oplog' : q.seq >= plan.cutSeq}
<1>1. IsFiniteSet(oplog')
  <2>1. next' \in Nat /\ \A r \in oplog' : r.seq \in 0..next'
    BY DEF OplogTypeOK, RowsInv, Rows
  <2>2. \A r, q \in oplog' : r.seq = q.seq => r = q
    BY DEF RowsInv
  <2> QED
    BY <2>1, <2>2, FiniteRows
<1>2. kept \subseteq kept2 /\ kept2 \subseteq oplog'
  OBVIOUS
<1>3. IsFiniteSet(kept2) /\ IsFiniteSet(kept)
  BY <1>1, <1>2, FS_Subset
<1>4. Cardinality(kept) <= Cardinality(kept2)
  BY <1>2, <1>3, FS_Subset
<1>5. Cardinality(kept) \in Nat /\ Cardinality(kept2) \in Nat
  BY <1>3, FS_CardinalityType
<1>6. plan.rows \in Nat /\ plan.age \in Nat /\ plan.cutTime \in Nat /\ now \in Nat /\ now' \in Nat
  BY DEF OplogTypeOK
<1> HIDE DEF kept, kept2
<1>7. plan.cutSeq # 0 => plan.rows > 0 /\ Cardinality(kept2) >= plan.rows
  BY <1>4, <1>5, <1>6 DEF ExcessInv, kept
<1>8. plan.cutTime # 0 => plan.age > 0 /\ plan.cutTime + plan.age <= now'
  BY <1>6 DEF ExcessInv
<1> QED
  BY <1>7, <1>8 DEF ExcessInv, kept2

(* A plan with nothing cut yet promises nothing.                           *)
LEMMA NothingCut ==
  ASSUME plan'.cutTime = 0, plan'.cutSeq = 0
  PROVE  ExcessInv'
  BY DEF ExcessInv

LEMMA ExcessStep ==
  ASSUME OplogTypeOK, RowsInv, OplogTypeOK', RowsInv', LockInv, ExcessInv,
         [OplogNext]_oplogVars
  PROVE  ExcessInv'
<1>0. /\ now \in Nat /\ \A n \in Nat : n <= n
      /\ plan \in [rows : Nat, age : Nat, head : Nat, cutTime : Nat, cutSeq : Nat,
                   newest : Nat, ts : Timestamps]
  BY DEF OplogTypeOK
<1>1. ASSUME EndPass PROVE ExcessInv'
  BY <1>1, NothingCut DEF EndPass, NoPlan
<1>2. ASSUME NEW l \in Limits, PruneHead(l) PROVE ExcessInv'
  <2>1. plan'.cutTime = 0 /\ plan'.cutSeq = 0
    BY <1>2 DEF PruneHead, NoPlan
  <2> QED
    BY <2>1, NothingCut
<1>3. CASE PruneAge
  <2>1. oplog' = oplog /\ now' = now
    BY <1>3 DEF PruneAge, PlanStep, tableVars
  <2>2. /\ plan'.cutTime = IF plan.age > 0 /\ now > plan.age THEN now - plan.age ELSE 0
        /\ plan'.age = plan.age /\ plan'.rows = plan.rows /\ plan'.cutSeq = plan.cutSeq
    BY <1>0, <1>3 DEF PruneAge
  <2>3. plan'.cutTime # 0 => plan'.age > 0 /\ plan'.cutTime + plan'.age <= now'
    BY <1>0, <2>1, <2>2
  <2> QED
    BY <2>1, <2>2, <2>3 DEF ExcessInv
<1>4. CASE PruneCut
  <2>1. CASE plan.cutTime = 0 /\ RowCut(plan.rows) = 0
    BY <1>1, <1>4, <2>1 DEF PruneCut
  <2>2. CASE ~(plan.cutTime = 0 /\ RowCut(plan.rows) = 0)
    <3>1. plan' = [plan EXCEPT !.cutSeq = RowCut(plan.rows)] /\ oplog' = oplog /\ now' = now
      BY <1>4, <2>2 DEF PruneCut, tableVars
    <3>2. /\ plan'.cutTime = plan.cutTime /\ plan'.age = plan.age /\ plan'.rows = plan.rows
          /\ plan'.cutSeq = RowCut(plan.rows)
      BY <1>0, <3>1
    <3>3. RowCut(plan.rows) # 0 =>
            /\ plan.rows > 0
            /\ Cardinality({q \in oplog : q.seq >= RowCut(plan.rows)}) >= plan.rows
      BY <1>0, RowCutKeepsEnough
    <3> QED
      BY <3>1, <3>2, <3>3 DEF ExcessInv
  <2> QED
    BY <2>1, <2>2
<1>5. CASE PruneNewest
  <2>1. CASE Selected(plan) = {}
    BY <1>1, <1>5, <2>1 DEF PruneNewest
  <2>2. CASE Selected(plan) # {}
    <3>1. /\ oplog' = oplog /\ now' = now
          /\ plan' = [plan EXCEPT !.newest = Newest(Selected(plan)).seq]
      BY <1>5, <2>2 DEF PruneNewest, tableVars
    <3>2. /\ plan'.cutTime = plan.cutTime /\ plan'.age = plan.age
          /\ plan'.rows = plan.rows /\ plan'.cutSeq = plan.cutSeq
      BY <1>0, <3>1
    <3> QED
      BY <3>1, <3>2 DEF ExcessInv
  <2> QED
    BY <2>1, <2>2
<1>6. CASE PruneTs
  <2>1. oplog' = oplog /\ now' = now
    BY <1>6 DEF PruneTs, PlanStep, tableVars
  <2>2. /\ plan'.cutTime = plan.cutTime /\ plan'.age = plan.age
        /\ plan'.rows = plan.rows /\ plan'.cutSeq = plan.cutSeq
    BY <1>0, <1>6 DEF PruneTs
  <2> QED
    BY <2>1, <2>2 DEF ExcessInv
<1>7. CASE PruneDelete \/ PruneFail \/ CrashOplog
  BY <1>1, <1>7 DEF PruneDelete, PruneFail, CrashOplog
<1>8. CASE UNCHANGED pruneVars /\ ~PruneDelete
  <2>1. plan' = plan
    BY <1>8 DEF pruneVars
  <2>2. oplog \subseteq oplog'
    BY <1>8, Effects DEF Quiet, Append, Publish, Undo
  <2>3. now <= now'
    <3>1. now' = now \/ now' = now + 1
      BY DEF OplogNext, OplogStep, WriterStep, PrunePass, PruneHead, PruneAge, PruneCut,
         PruneNewest, PruneTs, PruneLock, PruneDelete, PruneFail, PlanStep, StartStatement,
         OplogAppend, ReadStamp, Commit, Rollback, SignalWrite, Tick, CrashOplog, oplogVars
    <3> QED
      BY <1>0, <3>1
  <2> QED
    BY <2>1, <2>2, <2>3, CutSurvivesGrowth
<1>9. CASE PruneLock
  BY <1>0, <1>9 DEF PruneLock, ExcessInv
<1>10. \/ UNCHANGED pruneVars
       \/ \E l \in Limits : PruneHead(l)
       \/ PruneAge \/ PruneCut \/ PruneNewest \/ PruneTs \/ PruneLock
       \/ PruneDelete \/ PruneFail \/ CrashOplog
  BY DEF OplogNext, OplogStep, WriterStep, PrunePass, StartStatement, OplogAppend,
         ReadStamp, Commit, Rollback, SignalWrite, Tick, oplogVars, pruneVars
<1> QED
  BY <1>2, <1>3, <1>4, <1>5, <1>6, <1>7, <1>8, <1>9, <1>10

(* A row that is deleted was over a limit at that moment.                  *)
LEMMA DeletedIsExcess ==
  ASSUME OplogTypeOK, RowsInv, LockInv, PlanInv, ExcessInv, [OplogNext]_oplogVars,
         NEW r \in oplog \ oplog'
  PROVE  \/ plan.age > 0 /\ r.t < now - plan.age
         \/ plan.rows > 0 /\ Cardinality({q \in oplog : q.seq > r.seq}) >= plan.rows
<1>1. PruneDelete
  BY Effects DEF Quiet, Append, Publish, Undo
<1>2. r \in Selected(plan)
  BY <1>1, DeleteEffect
<1>3. /\ r.t \in Nat /\ r.seq \in Nat /\ now \in Nat /\ plan.age \in Nat
      /\ plan.cutTime \in Nat /\ plan.cutSeq \in Nat /\ plan.rows \in Nat
      /\ \A q \in oplog : q.seq \in Nat
  BY DEF OplogTypeOK, Rows
<1>4. CASE r.t < plan.cutTime
  BY <1>3, <1>4 DEF ExcessInv
<1>5. CASE r.seq < plan.cutSeq
  <2> DEFINE kept == {q \in oplog : q.seq >= plan.cutSeq}
             newer == {q \in oplog : q.seq > r.seq}
  <2>1. plan.rows > 0 /\ Cardinality(kept) >= plan.rows
    BY <1>3, <1>5 DEF ExcessInv
  <2>2. kept \subseteq newer /\ newer \subseteq oplog
    BY <1>3, <1>5
  <2>3. IsFiniteSet(newer) /\ IsFiniteSet(kept)
    BY <2>2, OplogIsFinite, FS_Subset
  <2>4. Cardinality(kept) <= Cardinality(newer)
    BY <2>2, <2>3, FS_Subset
  <2>5. Cardinality(kept) \in Nat /\ Cardinality(newer) \in Nat
    BY <2>3, FS_CardinalityType
  <2> HIDE DEF kept
  <2>6. Cardinality(newer) >= plan.rows
    BY <1>3, <2>1, <2>4, <2>5
  <2> QED
    BY <2>1, <2>6
<1> QED
  BY <1>2, <1>4, <1>5 DEF Selected

(* prune_oplog deletes only what its limits give up, though writers commit *)
(* and time passes between its planning statements and the deletion.       *)
THEOREM PrunerTakesOnlyExcess == OplogSpec => PrunesOnlyExcess
<1>1. OplogInit => ExcessInv
  BY DEF OplogInit, NoPlan, ExcessInv
<1>2. OplogInd /\ ExcessInv /\ [OplogNext]_oplogVars => ExcessInv'
  BY ExcessStep, TypeStep, RowsStep DEF OplogInd
<1>3. OplogInd /\ ExcessInv /\ [OplogNext]_oplogVars =>
        [\A r \in oplog \ oplog' :
           \/ plan.age > 0 /\ r.t < now - plan.age
           \/ plan.rows > 0 /\ Cardinality({q \in oplog : q.seq > r.seq}) >= plan.rows
        ]_oplogVars
  BY DeletedIsExcess DEF OplogInd
<1> QED
  BY <1>1, <1>2, <1>3, OplogInvariant, PTL DEF OplogSpec, PrunesOnlyExcess
=============================================================================
