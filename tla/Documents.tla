----------------------------- MODULE Documents -----------------------------
(***************************************************************************)
(* Writes to the documents of one collection: the transactions that        *)
(* cmd_insert, cmd_update, cmd_delete and cmd_find_and_modify run through  *)
(* run_atomically, next to a plain SQL client. Collection::load is a plain *)
(* SELECT: it reads the transaction's snapshot and locks nothing. The row  *)
(* is locked by the statement that writes it, whose trigger then takes the *)
(* oplog clock; both locks are held until the transaction ends. An INSERT  *)
(* that finds its key in the index first takes a shared lock on the record *)
(* to see whether it is a duplicate, and all who wait get it together.     *)
(*                                                                         *)
(* InnoDB is external; the collection has no unique secondary index. The two supported servers differ in one point:      *)
(* MariaDB 11.8 fails a statement that locks a row changed after the       *)
(* snapshot (innodb_snapshot_isolation), 10.11 lets it write the row.      *)
(***************************************************************************)
EXTENDS Integers

CONSTANTS
  Docs,               \* _id values
  Stored,             \* documents there at the start
  Ops,                \* operations; each client runs one
  Kinds,              \* what an operation may be
  Servers,            \* values of innodb_snapshot_isolation the server may run with
  None                \* no lock owner, no document

(* "update", "multi", "upsert": updateOne, updateMany and an upsert by _id; *)
(* "pop": findAndModify with remove; "delete": deleteOne; "purge":          *)
(* deleteMany; "sql": UPDATE t SET doc = JSON_SET(doc, ...) WHERE _id = ... *)
Reading == {"update", "multi", "upsert", "pop", "delete"}
Removing == {"pop", "delete", "purge"}

(* A document is the set of updates it carries.                            *)
Absent == {None}
Contents == (SUBSET Ops) \cup {Absent}
Entries == [seq : Nat \ {0}, by : Ops, doc : Docs, val : Contents]

ASSUME DocumentsAssumption ==
  /\ Stored \subseteq Docs
  /\ Kinds \subseteq Reading \cup {"insert", "purge", "sql"}
  /\ Servers \subseteq BOOLEAN
  /\ None \notin Ops \cup Docs

VARIABLES
  isolated, \* innodb_snapshot_isolation of this server
  table,    \* committed documents
  mirror,   \* committed oplog entries
  last,     \* greatest seq handed out
  rowLock,  \* per document: owner of its row's X lock
  clockLock,\* owner of the oplog clock row
  pc,       \* per operation: "idle", "write", "trigger", "done", "failed"
  kind,     \* per operation: what it is
  view,     \* per operation: the snapshot load read
  seen,     \* per operation: last committed seq in its snapshot, or -1
  todo,     \* per operation: documents it has still to write
  cur,      \* per operation: the document whose row it has just written
  dup,      \* per operation: S lock of its duplicate check: "none", "asked", "shared"
  rows,     \* per operation: rows its open transaction has written
  pend,     \* per operation: entries of its open transaction
  modified, \* per operation: documents its reply counts as modified
  taken     \* per operation: documents findAndModify returns as removed

docVars == <<table, mirror, last, rowLock, clockLock>>
opVars == <<pc, kind, view, seen, todo, cur, dup, rows, pend, modified, taken>>
vars == <<isolated, docVars, opVars>>

Start(d) == IF d \in Stored THEN {} ELSE Absent
Present(t) == {d \in Docs : t[d] # Absent}
LastSeq(E) == IF E = {} THEN 0
              ELSE (CHOOSE e \in E : \A f \in E : f.seq <= e.seq).seq

Init ==
  /\ isolated \in Servers
  /\ table = [d \in Docs |-> Start(d)]
  /\ mirror = {} /\ last = 0
  /\ rowLock = [d \in Docs |-> None] /\ clockLock = None
  /\ pc = [o \in Ops |-> "idle"] /\ kind = [o \in Ops |-> "insert"]
  /\ view = [o \in Ops |-> table] /\ seen = [o \in Ops |-> -1]
  /\ todo = [o \in Ops |-> {}] /\ cur = [o \in Ops |-> None]
  /\ dup = [o \in Ops |-> "none"] /\ rows = [o \in Ops |-> <<>>]
  /\ pend = [o \in Ops |-> {}] /\ modified = [o \in Ops |-> {}]
  /\ taken = [o \in Ops |-> {}]

----------------------------------------------------------------------------
(* Starting an operation                                                   *)

Begin(o, k, D) ==
  /\ pc[o] = "idle" /\ k \in Kinds
  /\ pc' = [pc EXCEPT ![o] = "write"]
  /\ kind' = [kind EXCEPT ![o] = k]
  /\ todo' = [todo EXCEPT ![o] = D]
  /\ view' = [view EXCEPT ![o] = table]
  /\ UNCHANGED <<docVars, cur, dup, rows, pend, modified>>

(* Mutant of Chosen: !multi does not cut the matches down to one.          *)
AllMatches(k, F) == {F \cap Present(table)}

(* Documents load hands on: all matches, or the first in some order.       *)
Chosen(k, F) ==
  LET matches == F \cap Present(table)
  IN IF k = "multi" \/ matches = {} THEN {matches} ELSE {{d} : d \in matches}

(* Mutant of Load: the SELECT runs before the transaction begins.          *)
LoadOutside(o, k, F) ==
  /\ k \in {"update", "multi", "delete"}
  /\ \E D \in Chosen(k, F) : Begin(o, k, D)
  /\ UNCHANGED <<seen, taken>>

(* load(filter) of an update, SELECT _id ... LIMIT 1 of deleteOne.         *)
Load(o, k, F) ==
  /\ k \in {"update", "multi", "delete"}
  /\ \E D \in Chosen(k, F) : Begin(o, k, D)
  /\ seen' = [seen EXCEPT ![o] = LastSeq(mirror)]
  /\ UNCHANGED taken

(* findAndModify with remove: the document load saw is the reply's value.  *)
LoadToRemove(o, F) ==
  /\ \E D \in Chosen("pop", F) :
       Begin(o, "pop", D) /\ taken' = [taken EXCEPT ![o] = D]
  /\ seen' = [seen EXCEPT ![o] = LastSeq(mirror)]

(* An upsert filters by _id: it updates the document or inserts it.        *)
LoadUpsert(o, d) ==
  /\ Begin(o, "upsert", {d})
  /\ seen' = [seen EXCEPT ![o] = LastSeq(mirror)]
  /\ UNCHANGED taken

(* INSERT, DELETE ... WHERE and a plain SQL UPDATE read nothing before.    *)
StartStatement(o, k, D) ==
  /\ \/ k \in {"insert", "sql"} /\ \E d \in Docs : D = {d}
     \/ k = "purge" /\ D = Docs
  /\ Begin(o, k, D)
  /\ UNCHANGED <<seen, taken>>

----------------------------------------------------------------------------
(* One row                                                                 *)

(* The row as the statement finds it once it has the lock.                 *)
Current(o, d) == IF d \in DOMAIN rows[o] THEN rows[o][d] ELSE table[d]

Inserting(o, d) == kind[o] = "insert" \/ (kind[o] = "upsert" /\ view[o][d] = Absent)

(* What the statement stores; an SQL UPDATE computes it from the row it     *)
(* locked, the plugin from the document load returned.                     *)
NewDoc(o, d) ==
  CASE Inserting(o, d) -> {o}
    [] kind[o] \in Removing -> Absent
    [] kind[o] = "sql" -> Current(o, d) \cup {o}
    [] OTHER -> view[o][d] \cup {o}

(* Was a row of D written after o's snapshot, on a server that minds?      *)
(* The clock row is written with every document: D = Docs stands for it.   *)
Stale(o, D) ==
  isolated /\ seen[o] >= 0 /\ \E e \in mirror : e.doc \in D /\ e.seq > seen[o]

(* No other transaction has the row's X lock.                              *)
Reaches(o, d) ==
  pc[o] = "write" /\ d \in todo[o] /\ rowLock[d] \in {None, o} /\ ~Stale(o, {d})

(* Does the index hold a record of d: a row, another's uncommitted one, or *)
(* a deleted one that may not have been purged yet?                        *)
Recorded(d) == d \in Stored \/ rowLock[d] # None \/ \E e \in mirror : e.doc = d

Sharing(d) == {o \in Ops : dup[o] = "shared" /\ d \in todo[o]}

(* The X lock is free of the S locks of others, and the duplicate check of *)
(* an INSERT that began one is over.                                       *)
CanLock(o, d) == Reaches(o, d) /\ dup[o] # "asked" /\ Sharing(d) \subseteq {o}

Hits(o, d) == Inserting(o, d) = (Current(o, d) = Absent)

Counted(o) == kind[o] \in {"update", "multi", "upsert"}

(* apply_update gives back the document it was given: nothing is written.  *)
SkipUnchanged(o, d) ==
  /\ pc[o] = "write" /\ d \in todo[o]
  /\ Counted(o) /\ ~Inserting(o, d)
  /\ todo' = [todo EXCEPT ![o] = @ \ {d}]
  /\ UNCHANGED <<docVars, pc, kind, view, seen, cur, dup, rows, pend, modified, taken>>

(* INSERT finds a record of its key and asks for the S lock on it.         *)
AskShared(o, d) ==
  /\ pc[o] = "write" /\ d \in todo[o] /\ Inserting(o, d)
  /\ dup[o] = "none" /\ Recorded(d)
  /\ dup' = [dup EXCEPT ![o] = "asked"]
  /\ UNCHANGED <<docVars, pc, kind, view, seen, todo, cur, rows, pend, modified, taken>>

(* The X lock is gone, by commit or by rollback: S is granted to every one *)
(* who asked. If the row is there, a duplicate key error follows (Fail).   *)
GrantShared(o, d) ==
  /\ Reaches(o, d) /\ dup[o] = "asked"
  /\ dup' = [dup EXCEPT ![o] = "shared"]
  /\ UNCHANGED <<docVars, pc, kind, view, seen, todo, cur, rows, pend, modified, taken>>

With(f, d, v) == [x \in DOMAIN f \cup {d} |-> IF x = d THEN v ELSE f[x]]

(* insert, replace_document or DELETE reaches the row and locks it.        *)
WriteRow(o, d) ==
  /\ CanLock(o, d) /\ Hits(o, d)
  /\ rowLock' = [rowLock EXCEPT ![d] = o]
  /\ rows' = [rows EXCEPT ![o] = With(@, d, NewDoc(o, d))]
  /\ cur' = [cur EXCEPT ![o] = d]
  /\ pc' = [pc EXCEPT ![o] = "trigger"]
  /\ UNCHANGED <<table, mirror, last, clockLock, kind, view, seen, todo, dup, pend,
                 modified, taken>>

(* Mutant of MissRow: the plugin mirrors the write itself, row or no row.  *)
MissRowMirrored(o, d) ==
  /\ Reaches(o, d) /\ ~Inserting(o, d) /\ ~Hits(o, d) /\ clockLock \in {None, o}
  /\ clockLock' = o /\ last' = last + 1
  /\ pend' = [pend EXCEPT ![o] = @ \cup
       {[seq |-> last + 1, by |-> o, doc |-> d,
         val |-> IF Counted(o) THEN NewDoc(o, d) ELSE Absent]}]
  /\ todo' = [todo EXCEPT ![o] = @ \ {d}]
  /\ modified' = [modified EXCEPT ![o] = IF Counted(o) THEN @ \cup {d} ELSE @]
  /\ UNCHANGED <<table, mirror, rowLock, pc, kind, view, seen, cur, dup, rows, taken>>

(* The row is gone: zero rows affected, no trigger, but Collection::update *)
(* counts the document as modified all the same. A purged record leaves    *)
(* nothing to wait for, whoever shares the gap.                            *)
MissRow(o, d) ==
  /\ Reaches(o, d) /\ ~Inserting(o, d) /\ ~Hits(o, d)
  /\ todo' = [todo EXCEPT ![o] = @ \ {d}]
  /\ modified' = [modified EXCEPT ![o] = IF Counted(o) THEN @ \cup {d} ELSE @]
  /\ UNCHANGED <<docVars, pc, kind, view, seen, cur, dup, rows, pend, taken>>

(* The AFTER trigger of the row: oplog_append under the clock lock.        *)
Trigger(o) ==
  /\ pc[o] = "trigger" /\ clockLock \in {None, o}
  /\ ~Stale(o, Docs)
  /\ clockLock' = o
  /\ last' = last + 1
  /\ pend' = [pend EXCEPT ![o] =
                @ \cup {[seq |-> last + 1, by |-> o, doc |-> cur[o], val |-> rows[o][cur[o]]]}]
  /\ todo' = [todo EXCEPT ![o] = @ \ {cur[o]}]
  /\ modified' = [modified EXCEPT ![o] =
                    IF Counted(o) /\ ~Inserting(o, cur[o]) THEN @ \cup {cur[o]} ELSE @]
  /\ pc' = [pc EXCEPT ![o] = "write"]
  /\ UNCHANGED <<table, mirror, rowLock, kind, view, seen, cur, dup, rows, taken>>

----------------------------------------------------------------------------
(* The end of the transaction                                              *)

Unlock(o) ==
  /\ rowLock' = [d \in Docs |-> IF rowLock[d] = o THEN None ELSE rowLock[d]]
  /\ clockLock' = IF clockLock = o THEN None ELSE clockLock
  /\ dup' = [dup EXCEPT ![o] = "none"]

Commit(o) ==
  /\ pc[o] = "write" /\ todo[o] = {}
  /\ table' = [d \in Docs |-> Current(o, d)]
  /\ mirror' = mirror \cup pend[o]
  /\ rows' = [rows EXCEPT ![o] = <<>>] /\ pend' = [pend EXCEPT ![o] = {}]
  /\ pc' = [pc EXCEPT ![o] = "done"]
  /\ Unlock(o)
  /\ UNCHANGED <<last, kind, view, seen, todo, cur, modified, taken>>

(* Mutant of Fail: the error is reported without the rollback.             *)
FailNoRollback(o) ==
  /\ pc[o] \in {"write", "trigger"}
  /\ pc' = [pc EXCEPT ![o] = "failed"]
  /\ UNCHANGED <<docVars, kind, view, seen, todo, cur, dup, rows, pend, modified, taken>>

(* A duplicate key, a changed record, a deadlock, a lock wait timeout or a *)
(* lost connection: run_atomically rolls back and reports the error.       *)
Fail(o) ==
  /\ pc[o] \in {"write", "trigger"}
  /\ rows' = [rows EXCEPT ![o] = <<>>] /\ pend' = [pend EXCEPT ![o] = {}]
  /\ todo' = [todo EXCEPT ![o] = {}]
  /\ modified' = [modified EXCEPT ![o] = {}]
  /\ taken' = [taken EXCEPT ![o] = {}]
  /\ pc' = [pc EXCEPT ![o] = "failed"]
  /\ Unlock(o)
  /\ UNCHANGED <<table, mirror, last, kind, view, seen, cur>>

OpStep(o) ==
  \/ \E F \in SUBSET Docs : LoadToRemove(o, F) \/ \E k \in Reading : Load(o, k, F)
  \/ \E d \in Docs : LoadUpsert(o, d)
  \/ \E k \in Kinds, D \in SUBSET Docs : StartStatement(o, k, D)
  \/ \E d \in Docs : SkipUnchanged(o, d) \/ AskShared(o, d) \/ GrantShared(o, d)
                      \/ WriteRow(o, d) \/ MissRow(o, d)
  \/ Trigger(o)
  \/ Commit(o)
  \/ Fail(o)

Next == UNCHANGED isolated /\ \E o \in Ops : OpStep(o)
Spec == Init /\ [][Next]_vars

----------------------------------------------------------------------------
(* Properties                                                              *)

Open == {o \in Ops : pc[o] \in {"write", "trigger"}}

(* A closed transaction has no S lock either.                              *)
SharesTyped ==
  /\ dup \in [Ops -> {"none", "asked", "shared"}]
  /\ \A o \in Ops \ Open : dup[o] = "none"

(* The types, and: only an open transaction holds locks, rows or entries,  *)
(* so no path out of run_atomically leaves a transaction behind.           *)
DocumentsTypeOK ==
  /\ table \in [Docs -> Contents]
  /\ isolated \in BOOLEAN /\ mirror \subseteq Entries /\ last \in Nat
  /\ rowLock \in [Docs -> Open \cup {None}] /\ clockLock \in Open \cup {None}
  /\ pc \in [Ops -> {"idle", "write", "trigger", "done", "failed"}]
  /\ kind \in [Ops -> Kinds \cup {"insert"}]
  /\ view \in [Ops -> [Docs -> Contents]]
  /\ seen \in [Ops -> Nat \cup {-1}] /\ SharesTyped
  /\ todo \in [Ops -> SUBSET Docs] /\ cur \in [Ops -> Docs \cup {None}]
  /\ modified \in [Ops -> SUBSET Docs] /\ taken \in [Ops -> SUBSET Docs]
  /\ \A o \in Ops :
       /\ pend[o] \subseteq Entries
       /\ DOMAIN rows[o] \subseteq Docs
       /\ \A d \in DOMAIN rows[o] : rows[o][d] \in Contents
       /\ o \notin Open => pend[o] = {} /\ rows[o] = <<>>

EntriesOf(d) == {e \in mirror : e.doc = d}

(* Replaying the oplog gives the collection: whatever order updates,       *)
(* removals and SQL statements reach the rows and the clock in, the last   *)
(* committed entry of a document is what the table holds (the triggers of  *)
(* kAppendProcedure next to run_atomically).                               *)
ReplayMatchesTable ==
  \A d \in Docs :
    table[d] = IF EntriesOf(d) = {} THEN Start(d)
               ELSE (CHOOSE e \in EntriesOf(d) : \A f \in EntriesOf(d) : f.seq <= e.seq).val

(* However an operation ends, it leaves no lock, entry or half-written row *)
(* behind, and the oplog replays to the table (run_atomically).            *)
DocumentsInv == DocumentsTypeOK /\ ReplayMatchesTable

(* No committed update is overwritten: a version of a document carries     *)
(* every update of the version before it, though Collection::update        *)
(* computes it from a plain SELECT and writes it back whole (D6).          *)
UpdatesAccumulate ==
  \A d \in Docs : \A e, f \in EntriesOf(d) :
    /\ e.seq < f.seq /\ e.val # Absent /\ f.val # Absent
    /\ \A g \in EntriesOf(d) : g.seq <= e.seq \/ g.seq >= f.seq
    => e.val \subseteq f.val

(* With snapshot isolation the second of two racing updates fails, so that *)
(* no update is overwritten even so (MariaDB 11.8).                        *)
UpdatesAccumulateIfIsolated == isolated => UpdatesAccumulate

(* Every document a reply counts as modified, or hands out as removed, was *)
(* written by that very command: outcome.modified and findAndModify's      *)
(* value are set from what load saw, not from affected_rows. So two        *)
(* findAndModify never both return the same queued document, on a server   *)
(* with snapshot isolation.                                                *)
RepliesAreTrueIfIsolated == isolated =>
  \A o \in Ops : pc[o] = "done" =>
    modified[o] \cup taken[o] \subseteq {e.doc : e \in {f \in mirror : f.by = o}}

(* May an INSERT meet a lock of p on the gap its key falls into? S locks   *)
(* cover it, and so does a statement that found no row.                    *)
GapLocked(p) == dup[p] = "shared" \/ (pc[p] = "write" /\ todo[p] = {})

Waits(o, p) ==
  /\ o # p
  /\ \/ pc[o] = "trigger" /\ clockLock = p
     \/ pc[o] = "write" /\ \E d \in todo[o] : rowLock[d] = p
     \/ pc[o] = "write" /\ dup[o] # "asked" /\ \E d \in todo[o] :
          p \in Sharing(d) \/ (Inserting(o, d) /\ GapLocked(p))

(* An INSERT that passed its duplicate check and has not got the X lock.   *)
Contends(o) == dup[o] = "shared" /\ pc[o] = "write" /\ todo[o] # {}

(* Which commands need InnoDB's deadlock detector: updateMany and          *)
(* deleteMany, which lock a row after they hold the clock, and inserts     *)
(* that came upon a taken key together (Collection::insert, also from an   *)
(* upsert), each with the S lock the other's X lock waits for. No other    *)
(* commands wait in a circle: a row is locked before the clock.            *)
OnlyInsertsWaitInCircle ==
  \A S \in SUBSET {o \in Open : kind[o] \notin {"multi", "purge"}} :
    /\ S # {} /\ \A o \in S : \E p \in S : Waits(o, p)
    => \E o, p \in S : o # p /\ Contends(o) /\ Contends(p)
=============================================================================
