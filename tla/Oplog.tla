------------------------------- MODULE Oplog -------------------------------
(***************************************************************************)
(* The transactional oplog of plugin/chimera_mongo/oplog.cc: the clock row *)
(* every writer locks until it commits, the oplog table the triggers       *)
(* append to, the history row that records what has been deleted, and the  *)
(* pruner that deletes while holding the same clock row.                   *)
(*                                                                         *)
(* InnoDB is external and modelled by what this code relies on: a row lock *)
(* is held until commit or rollback, a plain SELECT sees committed rows    *)
(* only, a rollback gives back everything but the AUTO_INCREMENT values,   *)
(* and UNIX_TIMESTAMP() inside a trigger is the time at which the          *)
(* triggering statement started.                                           *)
(***************************************************************************)
EXTENDS Integers, FiniteSets

CONSTANTS
  Namespaces,    \* collections whose triggers append to the oplog
  WireWriters,   \* MongoDB connections: write through run_atomically
  SqlWriters,    \* plain SQL clients: same triggers, no signal after commit
  Limits,        \* settings [rows, age] of the retention variables
  Installed,     \* databases install_oplog_schema finds: [all, kept, clock]
  MaxSeq,        \* bound: AUTO_INCREMENT values handed out
  MaxTime,       \* bound: wall-clock seconds that pass
  Free, Pruner   \* clock-lock owners that are not writers

Writers == WireWriters \cup SqlWriters

ZeroTs == [t |-> 0, i |-> 0]
Ts(x) == [t |-> x.t, i |-> x.i]
TsLess(a, b) == a.t < b.t \/ (a.t = b.t /\ a.i < b.i)
Timestamps == [t : Nat, i : Nat]
Rows == [seq : Nat \ {0}, t : Nat, i : Nat, ns : Namespaces]

(***************************************************************************)
(* A database found at start-up holds the rows its oplog kept; the rows an *)
(* older version already pruned (all \ kept) are known to nobody. The old  *)
(* pruner deleted prefixes and always kept the newest row, the clock is    *)
(* the timestamp of the newest row.                                        *)
(***************************************************************************)
ASSUME OplogAssumption ==
  /\ MaxSeq \in Nat /\ MaxTime \in Nat \ {0}
  /\ WireWriters \cap SqlWriters = {}
  /\ Free # Pruner /\ Free \notin Writers /\ Pruner \notin Writers
  /\ \A l \in Limits : l.rows \in Nat /\ l.age \in Nat
  /\ \A d \in Installed :
       /\ d.all \subseteq Rows /\ d.kept \subseteq d.all /\ d.clock \in Timestamps
       /\ \A r, q \in d.all : r.seq = q.seq => r = q
       /\ \A r \in d.all \ d.kept, q \in d.kept : r.seq < q.seq
       /\ \A r \in d.all : r.seq <= MaxSeq /\ \E q \in d.kept : r.seq <= q.seq
       /\ \A r \in d.kept : (\A q \in d.kept : q.seq <= r.seq) => d.clock = Ts(r)

VARIABLES
  now,     \* UNIX_TIMESTAMP()
  log,     \* every row ever committed (history: the table forgets pruned rows)
  oplog,   \* chimera_meta.oplog, committed rows
  clock,   \* chimera_meta.oplog_clock, committed
  hist,    \* chimera_meta.oplog_history
  next,    \* next AUTO_INCREMENT value of oplog.seq
  lock,    \* owner of the clock row's X lock
  pend,    \* rows the lock owner's open transaction has inserted
  pclock,  \* the clock row as the lock owner sees it
  wpc,     \* per writer: "idle", "txn", "stamped", "signal"
  wtime,   \* per writer: start time of its current statement
  stamp,   \* per writer: operationTime captured for the reply
  mine,    \* per writer: seq of its transaction's last entry (history)
  ppc,     \* pruner: "idle" or the next statement of prune_oplog
  plan     \* pruner: what its planning statements have read

writerVars == <<wpc, wtime, stamp, mine>>
pruneVars == <<ppc, plan>>
tableVars == <<log, oplog, clock, hist, next, lock, pend, pclock>>
oplogVars == <<now, tableVars, writerVars, pruneVars>>

NoPlan == [rows |-> 0, age |-> 0, head |-> 0, cutTime |-> 0, cutSeq |-> 0,
           newest |-> 0, ts |-> ZeroTs]

Seqs(R) == {r.seq : r \in R}
Newest(R) == CHOOSE r \in R : \A q \in R : q.seq <= r.seq
Oldest(R) == CHOOSE r \in R : \A q \in R : r.seq <= q.seq

OplogHead == IF oplog = {} THEN 0 ELSE Newest(oplog).seq

(***************************************************************************)
(* The history row install_oplog_schema seeds: nothing pruned, and for a   *)
(* database that predates the row, a baseline just below the oldest row.   *)
(***************************************************************************)
SeedHistory(kept) ==
  LET none   == kept = {}
      oldest == Oldest(kept)
  IN [pruned |-> 0, ts |-> ZeroTs,
      legacy |-> ~none /\ oldest.seq > 1,
      baseline |-> IF none THEN 0 ELSE oldest.seq - 1,
      baseTs |-> IF none THEN ZeroTs ELSE Ts(oldest)]

HistoryFloor == IF hist.pruned > hist.baseline THEN hist.pruned ELSE hist.baseline

OplogInit ==
  \E d \in Installed :
    /\ now = 1
    /\ log = d.all /\ oplog = d.kept
    /\ clock = d.clock /\ pclock = d.clock
    /\ hist = SeedHistory(d.kept)
    /\ next = IF d.all = {} THEN 1 ELSE Newest(d.all).seq + 1
    /\ lock = Free /\ pend = {}
    /\ wpc = [w \in Writers |-> "idle"]
    /\ wtime = [w \in Writers |-> 0]
    /\ stamp = [w \in Writers |-> ZeroTs]
    /\ mine = [w \in Writers |-> 0]
    /\ ppc = "idle" /\ plan = NoPlan

----------------------------------------------------------------------------
(* Writers                                                                 *)

(* A data statement starts; its timestamp is fixed before any row lock.    *)
StartStatement(w) ==
  /\ wpc[w] \in {"idle", "txn"}
  /\ wpc' = [wpc EXCEPT ![w] = "txn"]
  /\ wtime' = [wtime EXCEPT ![w] = now]
  /\ UNCHANGED <<now, tableVars, stamp, mine, pruneVars>>

(* UPDATE oplog_clock SET ts_i = IF(ts_t = now, ts_i + 1, 1), ts_t = now   *)
NextTs(c, t) == [t |-> t, i |-> IF c.t = t THEN c.i + 1 ELSE 1]

(* Mutant: a row that finds the clock locked is inserted without waiting,  *)
(* in a transaction of its own.                                            *)
OplogAppendNoWait(w, ns) ==
  /\ wpc[w] = "txn"
  /\ next <= MaxSeq
  /\ next' = next + 1
  /\ LET c == NextTs(pclock, wtime[w])
         row == [seq |-> next, t |-> c.t, i |-> c.i, ns |-> ns]
     IN IF lock \in {Free, w}
        THEN /\ pclock' = c /\ pend' = pend \cup {row} /\ lock' = w
             /\ UNCHANGED <<log, oplog>>
        ELSE /\ log' = log \cup {row} /\ oplog' = oplog \cup {row}
             /\ UNCHANGED <<pclock, pend, lock>>
  /\ UNCHANGED <<now, clock, hist, wpc, wtime, stamp, mine, pruneVars>>

(* One row trigger fires: oplog_append takes the clock row, then inserts.  *)
OplogAppend(w, ns) ==
  /\ wpc[w] = "txn"
  /\ lock \in {Free, w}
  /\ next <= MaxSeq
  /\ LET c == NextTs(pclock, wtime[w])
     IN /\ pclock' = c
        /\ pend' = pend \cup {[seq |-> next, t |-> c.t, i |-> c.i, ns |-> ns]}
  /\ lock' = w
  /\ next' = next + 1
  /\ mine' = [mine EXCEPT ![w] = next]
  /\ UNCHANGED <<now, log, oplog, clock, hist, wpc, wtime, stamp, pruneVars>>

(* Mutant: the stamp is the clock as other sessions see it.                *)
ReadStampOutside(w) ==
  /\ wpc[w] = "txn" /\ w \in WireWriters
  /\ stamp' = [stamp EXCEPT ![w] = clock]
  /\ wpc' = [wpc EXCEPT ![w] = "stamped"]
  /\ UNCHANGED <<now, tableVars, wtime, mine, pruneVars>>

(* run_atomically reads current_operation_time inside the transaction, so  *)
(* one that has written sees its own clock. (One that has not may see an   *)
(* older committed clock than this; no property is about its stamp.)       *)
ReadStamp(w) ==
  /\ wpc[w] = "txn" /\ w \in WireWriters
  /\ stamp' = [stamp EXCEPT ![w] = IF lock = w THEN pclock ELSE clock]
  /\ wpc' = [wpc EXCEPT ![w] = "stamped"]
  /\ UNCHANGED <<now, tableVars, wtime, mine, pruneVars>>

Commit(w) ==
  /\ wpc[w] = IF w \in WireWriters THEN "stamped" ELSE "txn"
  /\ wpc' = [wpc EXCEPT ![w] = IF w \in WireWriters THEN "signal" ELSE "idle"]
  /\ wtime' = [wtime EXCEPT ![w] = 0]
  /\ mine' = [mine EXCEPT ![w] = IF w \in WireWriters THEN @ ELSE 0]
  /\ IF lock = w
     THEN /\ log' = log \cup pend /\ oplog' = oplog \cup pend
          /\ clock' = pclock /\ pend' = {} /\ lock' = Free
     ELSE UNCHANGED <<log, oplog, clock, pend, lock>>
  /\ UNCHANGED <<now, hist, next, pclock, stamp, pruneVars>>

(* Mutant: the clock is not part of the transaction that is rolled back.   *)
RollbackKeepsClock(w) ==
  /\ wpc[w] \in {"txn", "stamped"}
  /\ wpc' = [wpc EXCEPT ![w] = "idle"]
  /\ wtime' = [wtime EXCEPT ![w] = 0]
  /\ stamp' = [stamp EXCEPT ![w] = ZeroTs]
  /\ mine' = [mine EXCEPT ![w] = 0]
  /\ IF lock = w THEN clock' = pclock /\ pend' = {} /\ lock' = Free
                 ELSE UNCHANGED <<clock, pend, lock>>
  /\ UNCHANGED <<now, log, oplog, pclock, hist, next, pruneVars>>

(* An error, a lock-wait timeout or ROLLBACK: only the seqs stay consumed. *)
Rollback(w) ==
  /\ wpc[w] \in {"txn", "stamped"}
  /\ wpc' = [wpc EXCEPT ![w] = "idle"]
  /\ wtime' = [wtime EXCEPT ![w] = 0]
  /\ stamp' = [stamp EXCEPT ![w] = ZeroTs]
  /\ mine' = [mine EXCEPT ![w] = 0]
  /\ IF lock = w THEN pclock' = clock /\ pend' = {} /\ lock' = Free
                 ELSE UNCHANGED <<pclock, pend, lock>>
  /\ UNCHANGED <<now, log, oplog, clock, hist, next, pruneVars>>

(* signal_oplog_write, and the reply with its operationTime, after commit. *)
SignalWrite(w) ==
  /\ wpc[w] = "signal"
  /\ wpc' = [wpc EXCEPT ![w] = "idle"]
  /\ stamp' = [stamp EXCEPT ![w] = ZeroTs]
  /\ mine' = [mine EXCEPT ![w] = 0]
  /\ UNCHANGED <<now, tableVars, wtime, pruneVars>>

----------------------------------------------------------------------------
(* The pruner: planning statements in autocommit, then one transaction     *)

PlanStep(from, to) ==
  /\ ppc = from /\ ppc' = to
  /\ UNCHANGED <<now, tableVars, writerVars>>

EndPass == ppc' = "idle" /\ plan' = NoPlan

PruneHead(l) ==
  /\ l.rows # 0 \/ l.age # 0
  /\ OplogHead # 0
  /\ PlanStep("idle", "age")
  /\ plan' = [NoPlan EXCEPT !.rows = l.rows, !.age = l.age, !.head = OplogHead]

(* Mutant: no test for an age limit longer than the clock has run.         *)
PruneAgeUnderflow ==
  /\ PlanStep("age", "cut")
  /\ plan' = [plan EXCEPT !.cutTime = IF plan.age > 0 THEN now - plan.age ELSE 0]

PruneAge ==
  /\ PlanStep("age", "cut")
  /\ plan' = [plan EXCEPT !.cutTime =
                IF plan.age > 0 /\ now > plan.age THEN now - plan.age ELSE 0]

(* Mutant: sequence distance instead of rows.                              *)
RowCutByDistance(rows) ==
  IF rows > 0 /\ OplogHead >= rows THEN OplogHead - rows + 1 ELSE 0

(* The seq of the rows-th newest row that is there, if there are so many.  *)
RowCut(rows) ==
  LET cut == {s \in Seqs(oplog) :
                rows > 0 /\ Cardinality({r \in oplog : r.seq > s}) = rows - 1}
  IN IF cut = {} THEN 0 ELSE CHOOSE s \in cut : TRUE

PruneCut ==
  /\ ppc = "cut"
  /\ IF plan.cutTime = 0 /\ RowCut(plan.rows) = 0
     THEN EndPass
     ELSE ppc' = "newest" /\ plan' = [plan EXCEPT !.cutSeq = RowCut(plan.rows)]
  /\ UNCHANGED <<now, tableVars, writerVars>>

(* Mutant: the head itself may be deleted.                                 *)
SelectedWithHead(p) ==
  {r \in oplog : r.seq <= p.head /\ (r.t < p.cutTime \/ r.seq < p.cutSeq)}

(* The frozen WHERE clause: seq < head AND (ts_t < cutTime OR seq < cutSeq) *)
Selected(p) ==
  {r \in oplog : r.seq < p.head /\ (r.t < p.cutTime \/ r.seq < p.cutSeq)}

PruneNewest ==
  /\ ppc = "newest"
  /\ IF Selected(plan) = {}
     THEN EndPass
     ELSE ppc' = "ts" /\ plan' = [plan EXCEPT !.newest = Newest(Selected(plan)).seq]
  /\ UNCHANGED <<now, tableVars, writerVars>>

PruneTs ==
  /\ PlanStep("ts", "lock")
  /\ \E r \in Selected(plan) :
       /\ \A q \in Selected(plan) : ~TsLess(r, q)
       /\ plan' = [plan EXCEPT !.ts = Ts(r)]

PruneLock ==
  /\ ppc = "lock" /\ ppc' = "delete"
  /\ lock = Free /\ lock' = Pruner
  /\ UNCHANGED <<now, log, oplog, clock, hist, next, pend, pclock, writerVars, plan>>

(* Mutant: the seconds are assigned before the increment is compared.      *)
RaiseSecondsFirst(h, seq, ts) ==
  LET t == IF h.ts.t > ts.t THEN h.ts.t ELSE ts.t
      i == IF t = ts.t THEN (IF h.ts.i > ts.i THEN h.ts.i ELSE ts.i) ELSE h.ts.i
  IN [h EXCEPT !.pruned = IF @ > seq THEN @ ELSE seq, !.ts = [t |-> t, i |-> i]]

(* UPDATE oplog_history: both watermarks only ever rise.                   *)
RaiseWatermarks(h, seq, ts) ==
  [h EXCEPT !.pruned = IF @ > seq THEN @ ELSE seq,
            !.ts = IF TsLess(@, ts) THEN ts ELSE @]

(* Candidate check, DELETE, UPDATE and COMMIT under the clock lock.        *)
PruneDelete ==
  /\ ppc = "delete"
  /\ LET doomed == {r \in Selected(plan) :
                      r.seq <= plan.newest /\ plan.newest \in Seqs(Selected(plan))}
     IN /\ oplog' = oplog \ doomed
        /\ hist' = IF doomed = {} THEN hist
                                  ELSE RaiseWatermarks(hist, plan.newest, plan.ts)
  /\ lock' = Free
  /\ EndPass
  /\ UNCHANGED <<now, log, clock, next, pend, pclock, writerVars>>

(* Any statement of a pass may fail; the pruner thread logs and goes on.   *)
PruneFail ==
  /\ ppc # "idle"
  /\ EndPass
  /\ lock' = IF lock = Pruner THEN Free ELSE lock
  /\ UNCHANGED <<now, log, oplog, clock, hist, next, pend, pclock, writerVars>>

----------------------------------------------------------------------------

Tick ==
  /\ now < MaxTime /\ now' = now + 1
  /\ UNCHANGED <<tableVars, writerVars, pruneVars>>

(* The server dies and comes back: open transactions are undone, and the   *)
(* AUTO_INCREMENT counter is only known to be above every committed row.   *)
CrashOplog ==
  /\ lock' = Free /\ pend' = {} /\ pclock' = clock
  /\ \E n \in 1..next : (\A r \in log : r.seq < n) /\ next' = n
  /\ wpc' = [w \in Writers |-> "idle"]
  /\ wtime' = [w \in Writers |-> 0]
  /\ stamp' = [w \in Writers |-> ZeroTs]
  /\ mine' = [w \in Writers |-> 0]
  /\ EndPass
  /\ UNCHANGED <<now, log, oplog, clock, hist>>

WriterStep(w) ==
  \/ StartStatement(w)
  \/ \E ns \in Namespaces : OplogAppend(w, ns)
  \/ ReadStamp(w)
  \/ Commit(w)
  \/ Rollback(w)

PrunePass ==
  \/ \E l \in Limits : PruneHead(l)
  \/ PruneAge \/ PruneCut \/ PruneNewest \/ PruneTs \/ PruneLock \/ PruneDelete

(* Everything but the signal and the crash, which the consumers also see.  *)
OplogStep ==
  \/ \E w \in Writers : WriterStep(w)
  \/ PrunePass
  \/ PruneFail
  \/ Tick

OplogNext ==
  \/ OplogStep
  \/ \E w \in WireWriters : SignalWrite(w)
  \/ CrashOplog

OplogSpec == OplogInit /\ [][OplogNext]_oplogVars

----------------------------------------------------------------------------
(* Properties                                                              *)

(* Type invariant of the tables, the writers and the pruner's plan.        *)
OplogTypeOK ==
  /\ now \in Nat /\ next \in Nat \ {0}
  /\ log \subseteq Rows /\ oplog \subseteq Rows /\ pend \subseteq Rows
  /\ clock \in Timestamps /\ pclock \in Timestamps
  /\ hist \in [pruned : Nat, ts : Timestamps, legacy : BOOLEAN,
               baseline : Nat, baseTs : Timestamps]
  /\ lock \in Writers \cup {Free, Pruner}
  /\ wpc \in [Writers -> {"idle", "txn", "stamped", "signal"}]
  /\ wtime \in [Writers -> Nat]
  /\ stamp \in [Writers -> Timestamps]
  /\ mine \in [Writers -> Nat]
  /\ ppc \in {"idle", "age", "cut", "newest", "ts", "lock", "delete"}
  /\ plan \in [rows : Nat, age : Nat, head : Nat, cutTime : Nat, cutSeq : Nat,
               newest : Nat, ts : Timestamps]

(* Commit order is seq order (the claim of the comment above kClockTable): *)
(* rows become visible only above every row that was ever visible, however *)
(* the writers' statements, rollbacks and crashes interleave. A tail that  *)
(* moves to the head can therefore never be overtaken from below.          *)
CommitsAboveHead ==
  [][\A r \in log' \ log, q \in log : q.seq < r.seq]_oplogVars

(* The pruner never empties a written oplog and never deletes its newest   *)
(* row, so MAX(seq) is the last committed seq even right after a prune.    *)
NewestSurvives == \A r \in log : \E q \in oplog : r.seq <= q.seq

(* prune_oplog publishes exactly what it deleted: every missing row is at  *)
(* or below the watermarks (or the legacy baseline), and the watermarks    *)
(* name deleted rows, so neither a rollback gap nor a failed pass is ever  *)
(* reported as lost history.                                               *)
WatermarkExact ==
  LET lost == {r \in log \ oplog : r.seq > hist.baseline}
  IN /\ \A r \in lost : r.seq <= hist.pruned /\ ~TsLess(hist.ts, r)
     /\ hist.pruned # 0 => /\ \E r \in lost : r.seq = hist.pruned
                           /\ \E r \in lost : Ts(r) = hist.ts

(* A deleted row was over the age limit, or at least `rows` newer rows are *)
(* kept: writers that commit between planning and deletion never make the  *)
(* pruner take a row the limits protect.                                   *)
PrunesOnlyExcess ==
  [][\A r \in oplog \ oplog' :
       \/ plan.age > 0 /\ r.t < now - plan.age
       \/ plan.rows > 0 /\ Cardinality({q \in oplog : q.seq > r.seq}) >= plan.rows
    ]_oplogVars

(* The committed clock row, which every reply's operationTime comes from,  *)
(* is the timestamp of the newest committed entry: no rollback or crash    *)
(* leaves a time that no event carries.                                    *)
ClockIsNewestEntry == log # {} => clock = Ts(Newest(log))

(* run_atomically's stamp is the timestamp of the write's own last entry,  *)
(* whoever commits next: what a Meteor write fence waits for.              *)
StampIsOwnEntry ==
  \A w \in WireWriters : wpc[w] = "signal" /\ mine[w] # 0 =>
    \E r \in log : r.seq = mine[w] /\ Ts(r) = stamp[w]

(* Together: the time run_atomically hands to a reply is one that the log  *)
(* and every later reader of the clock agree on.                           *)
StampsAreTrue == ClockIsNewestEntry /\ StampIsOwnEntry

(* The comment above kClockTable: `seq` order and ts order are the same.   *)
TsFollowsSeq == \A r, q \in log : r.seq < q.seq => TsLess(r, q)

----------------------------------------------------------------------------
(* The inductive invariant                                                 *)

(* Rows are unique; uncommitted ones lie above every committed one.        *)
RowsInv ==
  /\ oplog \subseteq log
  /\ \A r, q \in log \cup pend : r.seq = q.seq => r = q
  /\ \A r \in log \cup pend : r.seq < next
  /\ \A r \in log, p \in pend : r.seq < p.seq

(* Only the owner of the clock row has uncommitted rows or clock values.   *)
LockInv ==
  /\ lock \in Writers => wpc[lock] \in {"txn", "stamped"}
  /\ lock \notin Writers => pend = {} /\ pclock = clock
  /\ lock = Pruner <=> ppc = "delete"

(* The legacy baseline lies below every row there is or will be, and there *)
(* is no deletion time without a deletion.                                 *)
HistoryInv ==
  /\ hist.baseline < next
  /\ \A r \in oplog \cup pend : hist.baseline < r.seq
  /\ log = {} => hist.baseline = 0
  /\ hist.pruned = 0 => hist.ts = ZeroTs

(* What a pruning pass has read stays true until it deletes: its head is   *)
(* still there, and newest and ts are the maxima of what it will delete.   *)
PlanInv ==
  /\ ppc # "idle" => plan.head \in Seqs(oplog)
  /\ ppc \in {"ts", "lock", "delete"} =>
       /\ plan.newest \in Seqs(Selected(plan))
       /\ \A r \in Selected(plan) : r.seq <= plan.newest
  /\ ppc \in {"lock", "delete"} =>
       /\ \E r \in Selected(plan) : Ts(r) = plan.ts
       /\ \A r \in Selected(plan) : ~TsLess(plan.ts, r)

OplogInd ==
  /\ OplogTypeOK /\ RowsInv /\ LockInv /\ HistoryInv /\ PlanInv
  /\ NewestSurvives /\ WatermarkExact
=============================================================================
