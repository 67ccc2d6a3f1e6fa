-------------------------- MODULE DocumentsProofs --------------------------
(***************************************************************************)
(* What concurrent write commands leave in a collection and its oplog, for *)
(* any number of documents and operations. The inductive invariant says    *)
(* what an open transaction owes the table: its rows are locked, each but  *)
(* the one in its trigger has its entry, and its entries come after all    *)
(* committed ones. With snapshot isolation it also ties what load read to  *)
(* what the row holds when it is locked.                                   *)
(***************************************************************************)
EXTENDS Documents, TLAPS

DocsOf(E) == {e.doc : e \in E}

(* The types, with the two functions DocumentsTypeOK says least about.     *)
StateTypes ==
  /\ DocumentsTypeOK
  /\ pend \in [Ops -> SUBSET Entries]
  /\ DOMAIN rows = Ops /\ rows = [o \in Ops |-> rows[o]]

(* Committed entries: numbered once, up to the clock, one of them newest.  *)
MirrorOrdered ==
  /\ \A e \in mirror : e.seq <= last
  /\ \A e, f \in mirror : e.seq = f.seq => e = f
  /\ mirror # {} => \E e \in mirror : \A f \in mirror : f.seq <= e.seq

(* Uncommitted entries belong to the owner of the clock: they are newer    *)
(* than all committed ones, and one of them is the newest there is.        *)
PendingOwned(o) ==
  /\ pend[o] # {} => clockLock = o /\ \E e \in pend[o] : e.seq = last
  /\ \A e \in pend[o] :
       /\ e.seq <= last /\ e.by = o
       /\ \A m \in mirror : m.seq < e.seq
       /\ e.doc \in DOMAIN rows[o] /\ e.val = rows[o][e.doc]
       /\ e.doc \notin todo[o]
  /\ \A e, f \in pend[o] : e.doc = f.doc \/ e.seq = f.seq => e = f

(* A written row is locked, and its entry is there or its trigger running. *)
RowsCovered(o) ==
  /\ \A d \in DOMAIN rows[o] :
       /\ rowLock[d] = o
       /\ \/ pc[o] = "trigger" /\ d = cur[o]
          \/ \E e \in pend[o] : e.doc = d
  /\ pc[o] = "trigger" => cur[o] \in DOMAIN rows[o] /\ cur[o] \in todo[o]

(* What ReplayMatchesTable says, without the choice of the newest entry.   *)
TableIsNewest ==
  \A d \in Docs :
    \/ EntriesOf(d) = {} /\ table[d] = Start(d)
    \/ \E e \in EntriesOf(d) :
         table[d] = e.val /\ \A f \in EntriesOf(d) : f.seq <= e.seq

(* Commands on one document lock its row, then the clock, then nothing.    *)
OneAtATime(o) ==
  o \in Open /\ kind[o] \notin {"multi", "purge"} =>
    /\ \A d, e \in todo[o] : d = e
    /\ \A d \in Docs : rowLock[d] = o => pc[o] = "trigger" \/ todo[o] = {}
    /\ clockLock = o => pc[o] = "write" /\ todo[o] = {}

(* A snapshot is older than every entry that is still to be committed.     *)
SnapshotOlder(o) ==
  /\ seen[o] <= last
  /\ \A p \in Ops : \A e \in pend[p] : seen[o] < e.seq
  /\ o \in Open /\ kind[o] \in Reading => seen[o] >= 0

(* A document without an entry after the snapshot is as load read it.      *)
SnapshotFresh(o) ==
  o \in Open => \A d \in Docs :
    ~(\E e \in mirror : e.doc = d /\ e.seq > seen[o]) => table[d] = view[o][d]

(* A row about to be committed carries what the committed one carries.     *)
RowsGrow(o) ==
  isolated => \A d \in DOMAIN rows[o] :
    rows[o][d] # Absent /\ table[d] # Absent => table[d] \subseteq rows[o][d]

(* load hands on documents it saw, and findAndModify's is among them.      *)
LoadedWereThere(o) ==
  /\ o \in Open /\ kind[o] \in {"update", "multi", "pop", "delete"} =>
       \A d \in todo[o] : view[o][d] # Absent
  /\ o \in Open /\ kind[o] # "pop" => taken[o] = {}
  /\ pc[o] = "idle" => modified[o] = {} /\ taken[o] = {}

(* What the reply will claim is pending, or still to be done.              *)
ClaimsPending(o) ==
  isolated /\ o \in Open =>
    /\ modified[o] \subseteq DocsOf(pend[o])
    /\ taken[o] \subseteq todo[o] \cup DocsOf(pend[o])

OpInv(o) ==
  /\ PendingOwned(o) /\ RowsCovered(o) /\ OneAtATime(o)
  /\ SnapshotOlder(o) /\ SnapshotFresh(o) /\ RowsGrow(o)
  /\ LoadedWereThere(o) /\ ClaimsPending(o)

DocumentsInductive ==
  /\ StateTypes
  /\ MirrorOrdered
  /\ TableIsNewest
  /\ \A o \in Ops : OpInv(o)
  /\ UpdatesAccumulateIfIsolated
  /\ RepliesAreTrueIfIsolated

----------------------------------------------------------------------------
(* Steps, seen from the operations that do not take them                   *)

(* An operation keeps all that is its own.                                 *)
OwnKept(p) ==
  /\ pc'[p] = pc[p] /\ kind'[p] = kind[p] /\ view'[p] = view[p]
  /\ seen'[p] = seen[p] /\ todo'[p] = todo[p] /\ cur'[p] = cur[p]
  /\ rows'[p] = rows[p] /\ pend'[p] = pend[p]
  /\ modified'[p] = modified[p] /\ taken'[p] = taken[p]

(* It keeps its locks, and the clock stands still while it holds it.       *)
LocksKept(p) ==
  /\ \A d \in Docs : rowLock'[d] = p <=> rowLock[d] = p
  /\ clockLock' = p <=> clockLock = p
  /\ clockLock = p => last' = last

(* The clock does not go back, and entries that are new come after it.     *)
ClockGoesOn ==
  /\ last' \in Nat /\ last <= last'
  /\ \A q \in Ops : \A e \in pend'[q] : e \in pend[q] \/ e.seq = last + 1

(* The parts of the types that the steps use, one fact each.               *)
LEMMA TypeFacts ==
  ASSUME StateTypes
  PROVE  /\ table \in [Docs -> Contents] /\ mirror \subseteq Entries /\ last \in Nat
         /\ rowLock \in [Docs -> Open \cup {None}] /\ clockLock \in Open \cup {None}
         /\ pc \in [Ops -> {"idle", "write", "trigger", "done", "failed"}]
         /\ kind \in [Ops -> Kinds \cup {"insert"}]
         /\ view \in [Ops -> [Docs -> Contents]]
         /\ seen \in [Ops -> Nat \cup {-1}]
         /\ todo \in [Ops -> SUBSET Docs] /\ cur \in [Ops -> Docs \cup {None}]
         /\ modified \in [Ops -> SUBSET Docs] /\ taken \in [Ops -> SUBSET Docs]
         /\ pend \in [Ops -> SUBSET Entries]
         /\ DOMAIN rows = Ops /\ rows = [o \in Ops |-> rows[o]]
BY Zenon DEF StateTypes, DocumentsTypeOK

(* The transaction of an operation that is not open is empty.              *)
LEMMA ClosedIsEmpty ==
  ASSUME StateTypes, NEW o \in Ops, o \notin Open
  PROVE  pend[o] = {} /\ rows[o] = <<>>
BY Zenon DEF StateTypes, DocumentsTypeOK

LEMMA RowTypes ==
  ASSUME StateTypes, NEW o \in Ops
  PROVE  DOMAIN rows[o] \subseteq Docs /\ \A d \in DOMAIN rows[o] : rows[o][d] \in Contents
BY Zenon DEF StateTypes, DocumentsTypeOK

LEMMA EntryTypes ==
  ASSUME NEW e \in Entries
  PROVE  e.seq \in Nat /\ e.doc \in Docs /\ e.val \in Contents /\ e.by \in Ops
BY DEF Entries

LEMMA OpenIsKept ==
  ASSUME NEW p \in Ops, pc'[p] = pc[p]
  PROVE  (p \in Open)' <=> p \in Open
BY DEF Open

(* S locks go with the transaction that has them.                          *)
LEMMA SharesKept ==
  ASSUME StateTypes, dup' = dup, Open \subseteq Open'
  PROVE  SharesTyped'
<1>1. SharesTyped
  BY Zenon DEF StateTypes, DocumentsTypeOK
<1> QED BY <1>1 DEF SharesTyped

LEMMA SharesReleased ==
  ASSUME StateTypes, NEW o \in Ops, Unlock(o), \A p \in Ops \ {o} : pc'[p] = pc[p]
  PROVE  SharesTyped'
<1>1. SharesTyped
  BY Zenon DEF StateTypes, DocumentsTypeOK
<1>2. Open \ {o} \subseteq Open' /\ dup' = [dup EXCEPT ![o] = "none"]
  BY DEF Open, Unlock
<1> QED BY <1>1, <1>2 DEF SharesTyped

(* What an operation keeps of its invariant whatever the others do.        *)
LEMMA OthersKeepLocks ==
  ASSUME StateTypes, NEW p \in Ops, OpInv(p), OwnKept(p), LocksKept(p)
  PROVE  /\ RowsCovered(p)' /\ OneAtATime(p)' /\ LoadedWereThere(p)'
         /\ isolated' = isolated => ClaimsPending(p)'
<1>1. (p \in Open)' <=> p \in Open
  BY OpenIsKept DEF OwnKept
<1>2. RowsCovered(p)'
  <2>1. RowsCovered(p) /\ DOMAIN rows[p] \subseteq Docs
    BY RowTypes, Zenon DEF OpInv
  <2> QED BY <2>1 DEF RowsCovered, OwnKept, LocksKept
<1>3. OneAtATime(p)'
  <2>1. OneAtATime(p)
    BY Zenon DEF OpInv
  <2> QED BY <1>1, <2>1 DEF OneAtATime, OwnKept, LocksKept
<1>4. LoadedWereThere(p)'
  <2>1. LoadedWereThere(p)
    BY Zenon DEF OpInv
  <2> QED BY <1>1, <2>1 DEF LoadedWereThere, OwnKept
<1>5. ASSUME isolated' = isolated PROVE ClaimsPending(p)'
  <2>1. ClaimsPending(p)
    BY Zenon DEF OpInv
  <2> QED BY <1>1, <1>5, <2>1 DEF ClaimsPending, OwnKept
<1> QED BY <1>2, <1>3, <1>4, <1>5, Zenon

LEMMA SnapshotsStayOlder ==
  ASSUME StateTypes, NEW p \in Ops, \A q \in Ops : OpInv(q), OwnKept(p), ClockGoesOn
  PROVE  SnapshotOlder(p)'
<1>1. SnapshotOlder(p)
  BY Zenon DEF OpInv
<1>2. (p \in Open)' <=> p \in Open
  BY OpenIsKept DEF OwnKept
<1>3. seen[p] \in Int /\ last \in Nat /\ seen'[p] = seen[p] /\ kind'[p] = kind[p]
  BY TypeFacts DEF OwnKept
<1>4. (seen[p] <= last)'
  BY <1>1, <1>3 DEF SnapshotOlder, ClockGoesOn
<1>5. ASSUME NEW q \in Ops, NEW e \in pend'[q] PROVE seen'[p] < e.seq
  <2>1. e \in pend[q] \/ e.seq = last + 1
    BY <1>5 DEF ClockGoesOn
  <2>2. CASE e \in pend[q]
    BY <1>1, <1>3, <2>2 DEF SnapshotOlder
  <2>3. CASE e.seq = last + 1
    BY <1>1, <1>3, <2>3 DEF SnapshotOlder
  <2> QED BY <2>1, <2>2, <2>3
<1> QED BY <1>1, <1>2, <1>3, <1>4, <1>5 DEF SnapshotOlder

(* A step of another operation that commits nothing.                       *)
LEMMA OthersKeepInvariant ==
  ASSUME StateTypes, \A q \in Ops : OpInv(q), NEW p \in Ops,
         OwnKept(p), LocksKept(p), ClockGoesOn,
         table' = table, mirror' = mirror, isolated' = isolated
  PROVE  OpInv(p)'
<1>1. RowsCovered(p)' /\ OneAtATime(p)' /\ LoadedWereThere(p)' /\ ClaimsPending(p)'
  BY OthersKeepLocks, Zenon
<1>2. SnapshotOlder(p)'
  BY SnapshotsStayOlder, Zenon
<1>3. OpInv(p)
  OBVIOUS
<1>4. PendingOwned(p)'
  <2>1. PendingOwned(p)
    BY <1>3, Zenon DEF OpInv
  <2>2. pend[p] \subseteq Entries /\ last \in Nat
    BY TypeFacts
  <2>3. \A e \in pend[p] : e.seq \in Nat
    BY <2>2, EntryTypes
  <2>4. \A e \in pend[p] : e.seq <= last'
    BY <2>1, <2>2, <2>3 DEF PendingOwned, ClockGoesOn
  <2>5. pend[p] # {} => clockLock' = p /\ last' = last
    BY <2>1 DEF PendingOwned, LocksKept
  <2> QED BY <2>1, <2>4, <2>5 DEF PendingOwned, OwnKept
<1>5. SnapshotFresh(p)'
  <2>1. SnapshotFresh(p) /\ ((p \in Open)' <=> p \in Open)
    BY <1>3, OpenIsKept DEF OpInv, OwnKept
  <2> QED BY <2>1 DEF SnapshotFresh, OwnKept
<1>6. RowsGrow(p)'
  <2>1. RowsGrow(p)
    BY <1>3, Zenon DEF OpInv
  <2> QED BY <2>1 DEF RowsGrow, OwnKept
<1> QED BY <1>1, <1>2, <1>4, <1>5, <1>6, Zenon DEF OpInv

(* The committed state is as good as before when nothing is committed.     *)
LEMMA CommittedKept ==
  ASSUME StateTypes, MirrorOrdered, TableIsNewest, UpdatesAccumulateIfIsolated,
         ClockGoesOn, table' = table, mirror' = mirror, isolated' = isolated
  PROVE  MirrorOrdered' /\ TableIsNewest' /\ UpdatesAccumulateIfIsolated'
<1>1. MirrorOrdered'
  <2>1. \A e \in mirror : e.seq \in Nat
    BY TypeFacts, EntryTypes
  <2>2. \A e \in mirror : e.seq <= last'
    BY <2>1, TypeFacts DEF MirrorOrdered, ClockGoesOn
  <2> QED BY <2>2 DEF MirrorOrdered
<1>2. TableIsNewest'
  BY DEF TableIsNewest, EntriesOf, Start
<1>3. UpdatesAccumulateIfIsolated'
  BY DEF UpdatesAccumulateIfIsolated, UpdatesAccumulate, EntriesOf
<1> QED BY <1>1, <1>2, <1>3

LEMMA RepliesKept ==
  ASSUME RepliesAreTrueIfIsolated, NEW o \in Ops, \A p \in Ops \ {o} : OwnKept(p),
         mirror \subseteq mirror', isolated' = isolated, pc'[o] # "done"
  PROVE  RepliesAreTrueIfIsolated'
<1> SUFFICES ASSUME isolated, NEW p \in Ops, pc'[p] = "done",
                    NEW d \in modified'[p] \cup taken'[p]
             PROVE  \E e \in mirror' : e.by = p /\ e.doc = d
  BY DEF RepliesAreTrueIfIsolated
<1>1. OwnKept(p)
  OBVIOUS
<1>2. pc[p] = "done" /\ d \in modified[p] \cup taken[p]
  BY <1>1 DEF OwnKept
<1> QED BY <1>2 DEF RepliesAreTrueIfIsolated

----------------------------------------------------------------------------
(* Starting an operation                                                   *)

LEMMA LastSeqIsNewest ==
  ASSUME StateTypes, MirrorOrdered
  PROVE  /\ LastSeq(mirror) \in Nat /\ LastSeq(mirror) <= last
         /\ mirror # {} => \E e \in mirror : LastSeq(mirror) = e.seq
<1>1. last \in Nat /\ \A e \in mirror : e.seq \in Nat
  BY TypeFacts, EntryTypes
<1>2. CASE mirror = {}
  BY <1>1, <1>2 DEF LastSeq
<1>3. CASE mirror # {}
  <2>1. PICK e \in mirror : \A f \in mirror : f.seq <= e.seq
    BY <1>3 DEF MirrorOrdered
  <2>2. \E g \in mirror : LastSeq(mirror) = g.seq
    BY <1>3, <2>1 DEF LastSeq
  <2> QED BY <1>1, <2>2 DEF MirrorOrdered
<1> QED BY <1>2, <1>3

(* What the four ways to start have in common.                             *)
Starts(o, k, D) ==
  /\ Begin(o, k, D) /\ D \subseteq Docs
  /\ k \in Reading => seen' = [seen EXCEPT ![o] = LastSeq(mirror)]
  /\ k \notin Reading => seen' = seen
  /\ k = "pop" => taken' = [taken EXCEPT ![o] = D]
  /\ k # "pop" => taken' = taken
  /\ k \in {"update", "multi", "pop", "delete"} => \A d \in D : table[d] # Absent
  /\ k \notin {"multi", "purge"} => \A d, e \in D : d = e

LEMMA ChosenWereThere ==
  ASSUME NEW k, NEW F \in SUBSET Docs, NEW D \in Chosen(k, F)
  PROVE  /\ D \subseteq Docs /\ \A d \in D : table[d] # Absent
         /\ k # "multi" => \A d, e \in D : d = e
<1>1. CASE k = "multi" \/ F \cap Present(table) = {}
  BY <1>1 DEF Chosen, Present
<1>2. CASE ~(k = "multi" \/ F \cap Present(table) = {})
  <2>1. PICK d \in F \cap Present(table) : D = {d}
    BY <1>2 DEF Chosen
  <2> QED BY <2>1 DEF Present
<1> QED BY <1>1, <1>2

LEMMA LoadStarts ==
  ASSUME NEW o \in Ops, NEW k \in Reading, NEW F \in SUBSET Docs, Load(o, k, F)
  PROVE  \E D : Starts(o, k, D)
<1>1. PICK D \in Chosen(k, F) : Begin(o, k, D)
  BY DEF Load
<1>2. k \in {"update", "multi", "delete"} /\ taken' = taken
      /\ seen' = [seen EXCEPT ![o] = LastSeq(mirror)]
  BY DEF Load
<1>3. D \subseteq Docs /\ (\A d \in D : table[d] # Absent) /\ (k # "multi" => \A d, e \in D : d = e)
  BY ChosenWereThere
<1> QED BY <1>1, <1>2, <1>3 DEF Starts

LEMMA LoadToRemoveStarts ==
  ASSUME NEW o \in Ops, NEW F \in SUBSET Docs, LoadToRemove(o, F)
  PROVE  \E k \in Reading : \E D : Starts(o, k, D)
<1>1. PICK D \in Chosen("pop", F) : Begin(o, "pop", D) /\ taken' = [taken EXCEPT ![o] = D]
  BY DEF LoadToRemove
<1>2. seen' = [seen EXCEPT ![o] = LastSeq(mirror)]
  BY DEF LoadToRemove
<1>3. D \subseteq Docs /\ (\A d \in D : table[d] # Absent) /\ (\A d, e \in D : d = e)
  BY ChosenWereThere
<1>4. Starts(o, "pop", D)
  BY <1>1, <1>2, <1>3 DEF Starts, Reading
<1> QED BY <1>4 DEF Reading

LEMMA LoadUpsertStarts ==
  ASSUME NEW o \in Ops, NEW d \in Docs, LoadUpsert(o, d)
  PROVE  \E k, D : Starts(o, k, D)
<1>1. Starts(o, "upsert", {d})
  BY DEF LoadUpsert, Starts, Reading
<1> QED BY <1>1

LEMMA StatementStarts ==
  ASSUME NEW o \in Ops, NEW k \in Kinds, NEW D \in SUBSET Docs, StartStatement(o, k, D)
  PROVE  Starts(o, k, D)
<1>1. Begin(o, k, D) /\ seen' = seen /\ taken' = taken
  BY DEF StartStatement
<1>2. CASE k \in {"insert", "sql"} /\ \E d \in Docs : D = {d}
  BY <1>1, <1>2 DEF Starts, Reading
<1>3. CASE k = "purge"
  BY <1>1, <1>3 DEF Starts, Reading
<1> QED BY <1>2, <1>3 DEF StartStatement

LEMMA StartPreserves ==
  ASSUME DocumentsInductive, isolated' = isolated, NEW o \in Ops, NEW k, NEW D, Starts(o, k, D)
  PROVE  DocumentsInductive'
<1>1. /\ StateTypes /\ MirrorOrdered /\ TableIsNewest /\ UpdatesAccumulateIfIsolated
      /\ RepliesAreTrueIfIsolated /\ \A p \in Ops : OpInv(p)
  BY Zenon DEF DocumentsInductive
<1>2. /\ pc[o] = "idle" /\ k \in Kinds /\ D \subseteq Docs
      /\ pc' = [pc EXCEPT ![o] = "write"] /\ kind' = [kind EXCEPT ![o] = k]
      /\ todo' = [todo EXCEPT ![o] = D] /\ view' = [view EXCEPT ![o] = table]
  BY Zenon DEF Starts, Begin
<1>3. /\ table' = table /\ mirror' = mirror /\ last' = last /\ rowLock' = rowLock
      /\ clockLock' = clockLock /\ cur' = cur /\ rows' = rows /\ pend' = pend
      /\ modified' = modified
  BY Zenon DEF Starts, Begin, docVars
<1>4. LastSeq(mirror) \in Nat /\ LastSeq(mirror) <= last
  BY <1>1, LastSeqIsNewest
<1>5. /\ seen' \in [Ops -> Nat \cup {-1}]
      /\ k \in Reading => seen'[o] = LastSeq(mirror)
      /\ k \notin Reading => seen'[o] = seen[o]
      /\ \A p \in Ops \ {o} : seen'[p] = seen[p]
  BY <1>1, <1>4, TypeFacts DEF Starts
<1>6. /\ taken' \in [Ops -> SUBSET Docs]
      /\ k = "pop" => taken'[o] = D
      /\ k # "pop" => taken'[o] = taken[o]
      /\ \A p \in Ops \ {o} : taken'[p] = taken[p]
  BY <1>1, <1>2, TypeFacts DEF Starts
<1>7. o \notin Open /\ (o \in Open)' /\ \A p \in Ops \ {o} : (p \in Open)' <=> p \in Open
  BY <1>1, <1>2, TypeFacts DEF Open
<1>8. /\ pc'[o] = "write" /\ kind'[o] = k /\ todo'[o] = D /\ view'[o] = table
      /\ rows[o] = <<>> /\ pend[o] = {}
  BY <1>1, <1>2, <1>7, TypeFacts, ClosedIsEmpty
<1>9. \A p \in Ops \ {o} : OwnKept(p)
  BY <1>1, <1>2, <1>3, <1>5, <1>6, TypeFacts DEF OwnKept
<1>10. ClockGoesOn
  BY <1>1, <1>3, TypeFacts DEF ClockGoesOn
<1>11. StateTypes'
  <2>7. SharesTyped'
    <3>1. dup' = dup /\ Open \subseteq Open'
      BY <1>7, Zenon DEF Starts, Begin, Open
    <3> QED BY <1>1, <3>1, SharesKept
  <2>1. /\ table' \in [Docs -> Contents] /\ mirror' \subseteq Entries /\ last' \in Nat
        /\ pc' \in [Ops -> {"idle", "write", "trigger", "done", "failed"}]
        /\ kind' \in [Ops -> Kinds \cup {"insert"}]
        /\ view' \in [Ops -> [Docs -> Contents]]
        /\ todo' \in [Ops -> SUBSET Docs] /\ cur' \in [Ops -> Docs \cup {None}]
        /\ modified' \in [Ops -> SUBSET Docs]
        /\ pend' \in [Ops -> SUBSET Entries]
    BY <1>1, <1>2, <1>3, TypeFacts
  <2>2. rowLock' \in [Docs -> Open' \cup {None}] /\ clockLock' \in Open' \cup {None}
    <3>1. Open \subseteq Open'
      BY <1>7 DEF Open
    <3> QED BY <1>1, <1>3, <3>1, TypeFacts
  <2>3. DOMAIN rows' = Ops /\ rows' = [p \in Ops |-> rows'[p]]
    BY <1>1, <1>3, TypeFacts
  <2>4. \A p \in Ops : /\ pend'[p] \subseteq Entries
                       /\ DOMAIN rows'[p] \subseteq Docs
                       /\ \A d \in DOMAIN rows'[p] : rows'[p][d] \in Contents
    BY <1>1, <1>3, RowTypes, TypeFacts
  <2>5. \A p \in Ops : p \notin Open' => pend'[p] = {} /\ rows'[p] = <<>>
    BY <1>1, <1>3, <1>7, ClosedIsEmpty
  <2>6. (isolated \in BOOLEAN)'
    BY <1>1, Zenon DEF StateTypes, DocumentsTypeOK
  <2> QED BY <1>5, <1>6, <2>1, <2>2, <2>3, <2>4, <2>5, <2>6, <2>7, Zenon DEF StateTypes, DocumentsTypeOK
<1>12. MirrorOrdered' /\ TableIsNewest' /\ UpdatesAccumulateIfIsolated'
  BY <1>1, <1>3, <1>10, CommittedKept, Zenon
<1>13. RepliesAreTrueIfIsolated'
  BY <1>1, <1>3, <1>8, <1>9, RepliesKept
<1>14. \A p \in Ops \ {o} : OpInv(p)'
  <2>1. \A p \in Ops : LocksKept(p)
    BY <1>3 DEF LocksKept
  <2> QED BY <1>1, <1>3, <1>9, <1>10, <2>1, OthersKeepInvariant
<1>15. OpInv(o)'
  <2>1. PendingOwned(o)'
    BY <1>3, <1>8 DEF PendingOwned
  <2>2. RowsCovered(o)'
    BY <1>3, <1>8 DEF RowsCovered
  <2>3. OneAtATime(o)'
    <3>1. o # None
      BY DocumentsAssumption
    <3>2. clockLock # o /\ \A d \in Docs : rowLock[d] # o
      BY <1>1, <1>7, <3>1, TypeFacts
    <3>3. k \notin {"multi", "purge"} => \A d, e \in D : d = e
      BY Zenon DEF Starts
    <3> QED BY <1>3, <1>8, <3>2, <3>3 DEF OneAtATime
  <2>4. SnapshotOlder(o)'
    <3>1. SnapshotOlder(o) /\ last \in Nat /\ seen[o] \in Int
      BY <1>1, TypeFacts DEF OpInv
    <3>2. CASE k \in Reading
      <4>1. ASSUME NEW p \in Ops, NEW e \in pend[p] PROVE LastSeq(mirror) < e.seq
        <5>1. /\ \A m \in mirror : m.seq < e.seq
              /\ e.seq \in Nat /\ e.seq > 0
          BY <1>1, <4>1, TypeFacts DEF OpInv, PendingOwned, Entries
        <5>2. CASE mirror = {}
          BY <5>1, <5>2 DEF LastSeq
        <5>3. CASE mirror # {}
          BY <1>1, <5>1, <5>3, LastSeqIsNewest
        <5> QED BY <5>2, <5>3
      <4> QED BY <1>3, <1>4, <1>5, <1>8, <3>1, <3>2, <4>1 DEF SnapshotOlder
    <3>3. CASE k \notin Reading
      BY <1>3, <1>5, <1>8, <3>1, <3>3 DEF SnapshotOlder
    <3> QED BY <3>2, <3>3
  <2>5. SnapshotFresh(o)'
    BY <1>3, <1>8 DEF SnapshotFresh
  <2>6. RowsGrow(o)'
    BY <1>3, <1>8 DEF RowsGrow
  <2>7. LoadedWereThere(o)'
    <3>1. modified[o] = {} /\ taken[o] = {}
      BY <1>1, <1>2 DEF OpInv, LoadedWereThere
    <3>2. k \in {"update", "multi", "pop", "delete"} => \A d \in D : table[d] # Absent
      BY Zenon DEF Starts
    <3>3. Absent' = Absent
      BY DEF Absent
    <3> QED BY <1>3, <1>6, <1>8, <3>1, <3>2, <3>3 DEF LoadedWereThere
  <2>8. ClaimsPending(o)'
    <3>1. modified[o] = {} /\ taken[o] = {}
      BY <1>1, <1>2 DEF OpInv, LoadedWereThere
    <3> QED BY <1>3, <1>6, <1>8, <3>1 DEF ClaimsPending
  <2> QED BY <2>1, <2>2, <2>3, <2>4, <2>5, <2>6, <2>7, <2>8, Zenon DEF OpInv
<1> QED BY <1>11, <1>12, <1>13, <1>14, <1>15, Zenon DEF DocumentsInductive

----------------------------------------------------------------------------
(* A document that is not written                                          *)

(* Between two rows, what is still to be written has not been written.     *)
LEMMA TodoIsUnwritten ==
  ASSUME NEW o \in Ops, OpInv(o), pc[o] = "write", NEW d \in todo[o]
  PROVE  d \notin DOMAIN rows[o] /\ Current(o, d) = table[d]
<1>1. PendingOwned(o) /\ RowsCovered(o)
  BY Zenon DEF OpInv
<1>2. d \notin DOMAIN rows[o]
  BY <1>1 DEF PendingOwned, RowsCovered
<1> QED BY <1>2 DEF Current

(* A row that is reached on a server that minds is as load read it.        *)
LEMMA LockedIsFresh ==
  ASSUME StateTypes, NEW o \in Ops, OpInv(o), isolated, kind[o] \in Reading,
         NEW d \in Docs, Reaches(o, d)
  PROVE  table[d] = view[o][d]
<1>1. o \in Open /\ ~Stale(o, {d})
  BY DEF Reaches, Open
<1>2. seen[o] >= 0
  BY <1>1 DEF OpInv, SnapshotOlder
<1>3. ~(\E e \in mirror : e.doc = d /\ e.seq > seen[o])
  BY <1>1, <1>2 DEF Stale
<1> QED BY <1>1, <1>3 DEF OpInv, SnapshotFresh

Drops(o, d) ==
  /\ pc[o] = "write" /\ d \in todo[o]
  /\ todo' = [todo EXCEPT ![o] = @ \ {d}]
  /\ UNCHANGED <<docVars, pc, kind, view, seen, cur, dup, rows, pend, taken>>
  /\ \/ modified' = modified
     \/ ~isolated /\ modified' = [modified EXCEPT ![o] = @ \cup {d}]
  /\ isolated => kind[o] # "pop"

LEMMA SkipDrops ==
  ASSUME NEW o \in Ops, NEW d \in Docs, SkipUnchanged(o, d)
  PROVE  Drops(o, d)
BY DEF SkipUnchanged, Drops, Counted

LEMMA MissDrops ==
  ASSUME StateTypes, NEW o \in Ops, OpInv(o), NEW d \in Docs, MissRow(o, d)
  PROVE  Drops(o, d)
<1>1. pc[o] = "write" /\ d \in todo[o] /\ Reaches(o, d)
  BY DEF MissRow, Reaches
<1>2. table[d] = Absent
  <2>1. Current(o, d) = Absent
    BY DEF MissRow, Hits, Inserting
  <2> QED BY <1>1, <2>1, TodoIsUnwritten
<1>3. ASSUME isolated PROVE kind[o] # "pop" /\ ~Counted(o)
  <2>1. kind[o] \in Reading => view[o][d] = Absent
    BY <1>1, <1>2, <1>3, LockedIsFresh
  <2>2. kind[o] \in {"update", "multi", "pop", "delete"} => view[o][d] # Absent
    BY <1>1 DEF OpInv, LoadedWereThere, Open
  <2>3. kind[o] = "upsert" => view[o][d] # Absent
    BY DEF MissRow, Inserting
  <2> QED BY <2>1, <2>2, <2>3 DEF Counted, Reading
<1>4. /\ modified' = [modified EXCEPT ![o] = IF Counted(o) THEN @ \cup {d} ELSE @]
      /\ modified \in [Ops -> SUBSET Docs]
  BY TypeFacts DEF MissRow
<1>5. ~Counted(o) => modified' = modified
  BY <1>4
<1>6. Counted(o) => modified' = [modified EXCEPT ![o] = @ \cup {d}]
  BY <1>4
<1> QED BY <1>1, <1>3, <1>5, <1>6, Zenon DEF MissRow, Drops

LEMMA DropPreserves ==
  ASSUME DocumentsInductive, isolated' = isolated, NEW o \in Ops, NEW d \in Docs, Drops(o, d)
  PROVE  DocumentsInductive'
<1>1. /\ StateTypes /\ MirrorOrdered /\ TableIsNewest /\ UpdatesAccumulateIfIsolated
      /\ RepliesAreTrueIfIsolated /\ \A p \in Ops : OpInv(p)
  BY Zenon DEF DocumentsInductive
<1>2. pc[o] = "write" /\ d \in todo[o] /\ todo' = [todo EXCEPT ![o] = @ \ {d}]
  BY Zenon DEF Drops
<1>3. /\ table' = table /\ mirror' = mirror /\ last' = last /\ rowLock' = rowLock
      /\ clockLock' = clockLock /\ pc' = pc /\ kind' = kind /\ view' = view
      /\ seen' = seen /\ cur' = cur /\ rows' = rows /\ pend' = pend /\ taken' = taken
  BY Zenon DEF Drops, docVars
<1>4. /\ modified' \in [Ops -> SUBSET Docs]
      /\ isolated => modified'[o] = modified[o]
      /\ \A p \in Ops \ {o} : modified'[p] = modified[p]
  <2>1. CASE modified' = modified
    BY <1>1, <2>1, TypeFacts
  <2>2. CASE ~isolated /\ modified' = [modified EXCEPT ![o] = @ \cup {d}]
    BY <1>1, <2>2, TypeFacts
  <2> QED BY <2>1, <2>2 DEF Drops
<1>5. todo' \in [Ops -> SUBSET Docs] /\ todo'[o] = todo[o] \ {d}
  BY <1>1, <1>2, TypeFacts
<1>6. Open' = Open /\ o \in Open
  BY <1>2, <1>3 DEF Open
<1>7. \A p \in Ops \ {o} : OwnKept(p)
  BY <1>1, <1>2, <1>3, <1>4, TypeFacts DEF OwnKept
<1>8. ClockGoesOn
  BY <1>1, <1>3, TypeFacts DEF ClockGoesOn
<1>9. StateTypes'
  <2>1. (isolated \in BOOLEAN)'
    BY <1>1, Zenon DEF StateTypes, DocumentsTypeOK
  <2>2. SharesTyped'
    <3>1. dup' = dup
      BY Zenon DEF Drops
    <3> QED BY <1>1, <1>6, <3>1, SharesKept
  <2> QED BY <1>1, <1>3, <1>4, <1>5, <1>6, <2>1, <2>2, Zenon DEF StateTypes, DocumentsTypeOK
<1>10. MirrorOrdered' /\ TableIsNewest' /\ UpdatesAccumulateIfIsolated'
  BY <1>1, <1>3, <1>8, CommittedKept, Zenon
<1>11. RepliesAreTrueIfIsolated'
  BY <1>1, <1>2, <1>3, <1>7, RepliesKept
<1>12. \A p \in Ops \ {o} : OpInv(p)'
  <2>1. \A p \in Ops : LocksKept(p)
    BY <1>3 DEF LocksKept
  <2> QED BY <1>1, <1>3, <1>7, <1>8, <2>1, OthersKeepInvariant
<1>13. OpInv(o)'
  <2>1. PendingOwned(o)'
    BY <1>1, <1>3, <1>5 DEF OpInv, PendingOwned
  <2>2. RowsCovered(o)'
    BY <1>1, <1>2, <1>3 DEF OpInv, RowsCovered
  <2>3. OneAtATime(o)'
    BY <1>1, <1>3, <1>5, <1>6 DEF OpInv, OneAtATime
  <2>4. SnapshotOlder(o)'
    BY <1>1, <1>3, <1>6 DEF OpInv, SnapshotOlder
  <2>5. SnapshotFresh(o)'
    BY <1>1, <1>3, <1>6 DEF OpInv, SnapshotFresh
  <2>6. RowsGrow(o)'
    BY <1>1, <1>3 DEF OpInv, RowsGrow
  <2>7. LoadedWereThere(o)'
    <3>1. LoadedWereThere(o)
      BY <1>1 DEF OpInv
    <3> QED BY <1>2, <1>3, <1>5, <1>6, <3>1 DEF LoadedWereThere
  <2>8. ClaimsPending(o)'
    <3>1. ASSUME isolated PROVE taken[o] = {} /\ modified[o] \subseteq DocsOf(pend[o])
      BY <1>1, <1>6, <3>1 DEF OpInv, LoadedWereThere, ClaimsPending, Drops
    <3> QED BY <1>3, <1>4, <3>1 DEF ClaimsPending
  <2> QED BY <2>1, <2>2, <2>3, <2>4, <2>5, <2>6, <2>7, <2>8, Zenon DEF OpInv
<1> QED BY <1>9, <1>10, <1>11, <1>12, <1>13, Zenon DEF DocumentsInductive

----------------------------------------------------------------------------
(* A row and its trigger                                                   *)

LEMMA KindSplit ==
  ASSUME StateTypes, NEW o \in Ops, kind[o] \notin Removing, kind[o] # "sql", kind[o] # "insert"
  PROVE  kind[o] \in {"update", "multi", "upsert"}
<1>1. kind[o] \in Kinds \cup {"insert"}
  BY TypeFacts
<1> QED BY <1>1, DocumentsAssumption DEF Reading, Removing

(* An update starts from a document that load saw.                         *)
LEMMA UpdateSaw ==
  ASSUME StateTypes, NEW o \in Ops, OpInv(o), NEW d \in Docs, WriteRow(o, d),
         ~Inserting(o, d), kind[o] \notin Removing, kind[o] # "sql"
  PROVE  kind[o] \in Reading /\ view[o][d] # Absent
<1>1. kind[o] \in {"update", "multi", "upsert"}
  BY KindSplit DEF Inserting
<1>2. o \in Open /\ d \in todo[o]
  BY DEF WriteRow, CanLock, Reaches, Open
<1> QED BY <1>1, <1>2 DEF OpInv, LoadedWereThere, Inserting, Reading

(* What a statement stores is a document, and with snapshot isolation it   *)
(* carries what the row carried.                                           *)
LEMMA WrittenRow ==
  ASSUME StateTypes, NEW o \in Ops, OpInv(o), NEW d \in Docs, WriteRow(o, d)
  PROVE  /\ NewDoc(o, d) \in Contents
         /\ isolated /\ NewDoc(o, d) # Absent /\ table[d] # Absent =>
              table[d] \subseteq NewDoc(o, d)
<1>1. pc[o] = "write" /\ d \in todo[o] /\ Reaches(o, d)
  BY DEF WriteRow, CanLock, Reaches
<1>2. Current(o, d) = table[d] /\ table[d] \in Contents /\ view[o][d] \in Contents
  BY <1>1, TodoIsUnwritten, TypeFacts
<1>3. CASE Inserting(o, d)
  <2>1. NewDoc(o, d) = {o}
    BY <1>3 DEF NewDoc, Inserting, Removing
  <2>2. table[d] = Absent
    BY <1>2, <1>3 DEF WriteRow, Hits, Inserting
  <2> QED BY <2>1, <2>2 DEF Contents
<1>4. CASE ~Inserting(o, d) /\ kind[o] \in Removing
  <2>1. NewDoc(o, d) = Absent
    BY <1>4 DEF NewDoc, Removing
  <2> QED BY <2>1 DEF Contents
<1>5. CASE ~Inserting(o, d) /\ kind[o] = "sql"
  <2>1. NewDoc(o, d) = table[d] \cup {o}
    BY <1>2, <1>5 DEF NewDoc, Removing
  <2>2. table[d] # Absent
    BY <1>2, <1>5 DEF WriteRow, Hits, Inserting
  <2> QED BY <1>2, <2>1, <2>2 DEF Contents
<1>6. CASE ~Inserting(o, d) /\ kind[o] \notin Removing /\ kind[o] # "sql"
  <2>1. NewDoc(o, d) = view[o][d] \cup {o}
    BY <1>6 DEF NewDoc
  <2>2. kind[o] \in Reading /\ view[o][d] # Absent
    BY <1>6, UpdateSaw
  <2>3. isolated => table[d] = view[o][d]
    BY <1>1, <2>2, LockedIsFresh
  <2> QED BY <1>2, <2>1, <2>2, <2>3 DEF Contents
<1> QED BY <1>3, <1>4, <1>5, <1>6

LEMMA WriteRowPreserves ==
  ASSUME DocumentsInductive, isolated' = isolated, NEW o \in Ops, NEW d \in Docs, WriteRow(o, d)
  PROVE  DocumentsInductive'
<1>1. /\ StateTypes /\ MirrorOrdered /\ TableIsNewest /\ UpdatesAccumulateIfIsolated
      /\ RepliesAreTrueIfIsolated /\ \A p \in Ops : OpInv(p)
  BY Zenon DEF DocumentsInductive
<1>2. pc[o] = "write" /\ d \in todo[o] /\ rowLock[d] \in {None, o}
  BY DEF WriteRow, CanLock, Reaches
<1>3. /\ table' = table /\ mirror' = mirror /\ last' = last /\ clockLock' = clockLock
      /\ kind' = kind /\ view' = view /\ seen' = seen /\ todo' = todo /\ pend' = pend
      /\ modified' = modified /\ taken' = taken
  BY Zenon DEF WriteRow
<1>4. /\ rowLock' = [rowLock EXCEPT ![d] = o] /\ cur' = [cur EXCEPT ![o] = d]
      /\ pc' = [pc EXCEPT ![o] = "trigger"]
      /\ rows' = [rows EXCEPT ![o] = With(rows[o], d, NewDoc(o, d))]
  BY DEF WriteRow
<1>5. /\ pc'[o] = "trigger" /\ cur'[o] = d /\ rowLock'[d] = o
      /\ \A x \in Docs \ {d} : rowLock'[x] = rowLock[x]
  BY <1>1, <1>4, TypeFacts
<1>6. /\ DOMAIN rows' = Ops /\ rows' = [p \in Ops |-> rows'[p]]
      /\ rows'[o] = With(rows[o], d, NewDoc(o, d))
      /\ \A p \in Ops \ {o} : rows'[p] = rows[p]
  BY <1>1, <1>4, TypeFacts
<1>7. /\ DOMAIN rows'[o] = DOMAIN rows[o] \cup {d}
      /\ rows'[o][d] = NewDoc(o, d)
      /\ \A x \in DOMAIN rows[o] : x # d /\ rows'[o][x] = rows[o][x]
  BY <1>1, <1>2, <1>6, TodoIsUnwritten DEF With
<1>8. o \in Open /\ Open' = Open
  BY <1>1, <1>2, <1>4, TypeFacts DEF Open
<1>9. \A p \in Ops \ {o} : OwnKept(p)
  BY <1>1, <1>3, <1>4, <1>6, TypeFacts DEF OwnKept
<1>10. ClockGoesOn
  BY <1>1, <1>3, TypeFacts DEF ClockGoesOn
<1>11. /\ NewDoc(o, d) \in Contents
       /\ isolated /\ NewDoc(o, d) # Absent /\ table[d] # Absent =>
            table[d] \subseteq NewDoc(o, d)
  BY <1>1, WrittenRow
<1>12. StateTypes'
  <2>1. (isolated \in BOOLEAN)'
    BY <1>1, Zenon DEF StateTypes, DocumentsTypeOK
  <2>2. /\ pc' \in [Ops -> {"idle", "write", "trigger", "done", "failed"}]
        /\ rowLock' \in [Docs -> Open' \cup {None}] /\ clockLock' \in Open' \cup {None}
        /\ cur' \in [Ops -> Docs \cup {None}]
    BY <1>1, <1>3, <1>4, <1>8, TypeFacts
  <2>3. \A p \in Ops : /\ pend'[p] \subseteq Entries
                       /\ DOMAIN rows'[p] \subseteq Docs
                       /\ \A x \in DOMAIN rows'[p] : rows'[p][x] \in Contents
    <3>1. /\ DOMAIN rows'[o] \subseteq Docs
          /\ \A x \in DOMAIN rows'[o] : rows'[o][x] \in Contents
      BY <1>1, <1>7, <1>11, RowTypes
    <3>2. \A p \in Ops \ {o} : /\ DOMAIN rows'[p] \subseteq Docs
                               /\ \A x \in DOMAIN rows'[p] : rows'[p][x] \in Contents
      BY <1>1, <1>6, RowTypes
    <3> QED BY <1>1, <1>3, <3>1, <3>2, TypeFacts
  <2>4. \A p \in Ops : p \notin Open' => pend'[p] = {} /\ rows'[p] = <<>>
    BY <1>1, <1>3, <1>6, <1>8, ClosedIsEmpty
  <2>5. /\ table' \in [Docs -> Contents] /\ mirror' \subseteq Entries /\ last' \in Nat
        /\ kind' \in [Ops -> Kinds \cup {"insert"}]
        /\ view' \in [Ops -> [Docs -> Contents]] /\ seen' \in [Ops -> Nat \cup {-1}]
        /\ todo' \in [Ops -> SUBSET Docs] /\ pend' \in [Ops -> SUBSET Entries]
        /\ modified' \in [Ops -> SUBSET Docs] /\ taken' \in [Ops -> SUBSET Docs]
    BY <1>1, <1>3, TypeFacts
  <2>6. SharesTyped'
    <3>1. dup' = dup
      BY Zenon DEF WriteRow
    <3> QED BY <1>1, <1>8, <3>1, SharesKept
  <2> QED BY <1>6, <2>1, <2>2, <2>3, <2>4, <2>5, <2>6, Zenon DEF StateTypes, DocumentsTypeOK
<1>13. MirrorOrdered' /\ TableIsNewest' /\ UpdatesAccumulateIfIsolated'
  BY <1>1, <1>3, <1>10, CommittedKept, Zenon
<1>14. RepliesAreTrueIfIsolated'
  BY <1>1, <1>3, <1>5, <1>9, RepliesKept
<1>15. \A p \in Ops \ {o} : OpInv(p)'
  <2>1. \A p \in Ops \ {o} : LocksKept(p)
    <3>1. None \notin Ops
      BY DocumentsAssumption
    <3> QED BY <1>2, <1>3, <1>5, <3>1 DEF LocksKept
  <2> QED BY <1>1, <1>3, <1>9, <1>10, <2>1, OthersKeepInvariant
<1>16. OpInv(o)'
  <2>1. PendingOwned(o)'
    BY <1>1, <1>3, <1>7 DEF OpInv, PendingOwned
  <2>2. RowsCovered(o)'
    <3>1. RowsCovered(o) /\ DOMAIN rows[o] \subseteq Docs
      BY <1>1, RowTypes DEF OpInv
    <3>2. \A x \in DOMAIN rows[o] : rowLock'[x] = o /\ \E e \in pend[o] : e.doc = x
      BY <1>2, <1>5, <3>1 DEF RowsCovered
    <3> QED BY <1>2, <1>3, <1>5, <1>7, <3>2 DEF RowsCovered
  <2>3. OneAtATime(o)'
    BY <1>1, <1>2, <1>3, <1>5, <1>8 DEF OpInv, OneAtATime
  <2>4. SnapshotOlder(o)'
    BY <1>1, <1>3, <1>8 DEF OpInv, SnapshotOlder
  <2>5. SnapshotFresh(o)'
    BY <1>1, <1>3, <1>8 DEF OpInv, SnapshotFresh
  <2>6. RowsGrow(o)'
    <3>1. RowsGrow(o)
      BY <1>1 DEF OpInv
    <3> QED BY <1>3, <1>7, <1>11, <3>1 DEF RowsGrow
  <2>7. LoadedWereThere(o)'
    BY <1>1, <1>3, <1>5, <1>8 DEF OpInv, LoadedWereThere
  <2>8. ClaimsPending(o)'
    BY <1>1, <1>3, <1>8 DEF OpInv, ClaimsPending
  <2> QED BY <2>1, <2>2, <2>3, <2>4, <2>5, <2>6, <2>7, <2>8, Zenon DEF OpInv
<1> QED BY <1>12, <1>13, <1>14, <1>15, <1>16, Zenon DEF DocumentsInductive

LEMMA TriggerPreserves ==
  ASSUME DocumentsInductive, isolated' = isolated, NEW o \in Ops, Trigger(o)
  PROVE  DocumentsInductive'
<1> DEFINE n == [seq |-> last + 1, by |-> o, doc |-> cur[o], val |-> rows[o][cur[o]]]
<1>1. /\ StateTypes /\ MirrorOrdered /\ TableIsNewest /\ UpdatesAccumulateIfIsolated
      /\ RepliesAreTrueIfIsolated /\ \A p \in Ops : OpInv(p)
  BY Zenon DEF DocumentsInductive
<1>2. pc[o] = "trigger" /\ clockLock \in {None, o} /\ clockLock' = o /\ last' = last + 1
  BY Zenon DEF Trigger
<1>3. /\ table' = table /\ mirror' = mirror /\ rowLock' = rowLock /\ kind' = kind
      /\ view' = view /\ seen' = seen /\ cur' = cur /\ rows' = rows /\ taken' = taken
  BY Zenon DEF Trigger
<1>4. /\ pend' = [pend EXCEPT ![o] = @ \cup {n}]
      /\ todo' = [todo EXCEPT ![o] = @ \ {cur[o]}]
      /\ pc' = [pc EXCEPT ![o] = "write"]
  BY Zenon DEF Trigger
<1>5. modified' = [modified EXCEPT ![o] =
                     IF Counted(o) /\ ~Inserting(o, cur[o]) THEN @ \cup {cur[o]} ELSE @]
  BY Zenon DEF Trigger
<1>6. cur[o] \in DOMAIN rows[o] /\ cur[o] \in todo[o] /\ cur[o] \in Docs
  BY <1>1, <1>2, TypeFacts DEF OpInv, RowsCovered
<1>7. n \in Entries
  BY <1>1, <1>6, TypeFacts, RowTypes DEF Entries
<1>8. n.seq = last + 1 /\ n.by = o /\ n.doc = cur[o] /\ n.val = rows[o][cur[o]]
  OBVIOUS
<1> HIDE DEF n
<1>9. /\ pend' \in [Ops -> SUBSET Entries] /\ pend'[o] = pend[o] \cup {n}
      /\ \A p \in Ops \ {o} : pend'[p] = pend[p]
  BY <1>1, <1>4, <1>7, TypeFacts
<1>10. /\ todo' \in [Ops -> SUBSET Docs] /\ todo'[o] = todo[o] \ {cur[o]}
       /\ pc' \in [Ops -> {"idle", "write", "trigger", "done", "failed"}] /\ pc'[o] = "write"
  BY <1>1, <1>4, TypeFacts
<1>11. /\ modified' \in [Ops -> SUBSET Docs] /\ modified'[o] \subseteq modified[o] \cup {cur[o]}
       /\ \A p \in Ops \ {o} : modified'[p] = modified[p]
  BY <1>1, <1>5, <1>6, TypeFacts
<1>12. o \in Open /\ Open' = Open
  BY <1>1, <1>2, <1>4, TypeFacts DEF Open
<1>13. last \in Nat /\ last' \in Nat /\ last <= last'
  BY <1>1, <1>2, TypeFacts
<1>14. \A p \in Ops \ {o} : OwnKept(p)
  BY <1>1, <1>3, <1>4, <1>9, <1>11, TypeFacts DEF OwnKept
<1>15. ClockGoesOn
  BY <1>8, <1>9, <1>13 DEF ClockGoesOn
<1>16. StateTypes'
  <2>1. (isolated \in BOOLEAN)'
    BY <1>1, Zenon DEF StateTypes, DocumentsTypeOK
  <2>2. /\ table' \in [Docs -> Contents] /\ mirror' \subseteq Entries
        /\ rowLock' \in [Docs -> Open' \cup {None}] /\ clockLock' \in Open' \cup {None}
        /\ kind' \in [Ops -> Kinds \cup {"insert"}]
        /\ view' \in [Ops -> [Docs -> Contents]] /\ seen' \in [Ops -> Nat \cup {-1}]
        /\ cur' \in [Ops -> Docs \cup {None}] /\ taken' \in [Ops -> SUBSET Docs]
    BY <1>1, <1>2, <1>3, <1>12, TypeFacts
  <2>3. \A p \in Ops : /\ pend'[p] \subseteq Entries
                       /\ DOMAIN rows'[p] \subseteq Docs
                       /\ \A x \in DOMAIN rows'[p] : rows'[p][x] \in Contents
    BY <1>1, <1>3, <1>9, RowTypes
  <2>4. \A p \in Ops : p \notin Open' => pend'[p] = {} /\ rows'[p] = <<>>
    BY <1>1, <1>3, <1>9, <1>12, ClosedIsEmpty
  <2>5. DOMAIN rows' = Ops /\ rows' = [p \in Ops |-> rows'[p]]
    BY <1>1, <1>3, TypeFacts
  <2>6. SharesTyped'
    <3>1. dup' = dup
      BY Zenon DEF Trigger
    <3> QED BY <1>1, <1>12, <3>1, SharesKept
  <2> QED BY <1>9, <1>10, <1>11, <1>13, <2>1, <2>2, <2>3, <2>4, <2>5, <2>6, Zenon
          DEF StateTypes, DocumentsTypeOK
<1>17. MirrorOrdered' /\ TableIsNewest' /\ UpdatesAccumulateIfIsolated'
  BY <1>1, <1>3, <1>15, CommittedKept, Zenon
<1>18. RepliesAreTrueIfIsolated'
  BY <1>1, <1>3, <1>10, <1>14, RepliesKept
<1>19. \A p \in Ops \ {o} : OpInv(p)'
  <2>1. \A p \in Ops \ {o} : LocksKept(p)
    <3>1. None \notin Ops
      BY DocumentsAssumption
    <3> QED BY <1>2, <1>3, <3>1 DEF LocksKept
  <2> QED BY <1>1, <1>3, <1>14, <1>15, <2>1, OthersKeepInvariant
<1>20. OpInv(o)'
  <2>1. PendingOwned(o)'
    <3>1. PendingOwned(o)
      BY <1>1 DEF OpInv
    <3>2. \A e \in pend[o] : e.seq \in Nat /\ e.seq <= last
      BY <1>1, <3>1, TypeFacts, EntryTypes DEF PendingOwned
    <3>3. \A m \in mirror : m.seq \in Nat /\ m.seq <= last
      BY <1>1, TypeFacts, EntryTypes DEF MirrorOrdered
    <3>4. clockLock' = o /\ n \in pend'[o] /\ n.seq = last'
      BY <1>2, <1>8, <1>9
    <3>5. ASSUME NEW e \in pend'[o]
          PROVE  /\ e.seq <= last' /\ e.by = o
                 /\ \A m \in mirror' : m.seq < e.seq
                 /\ e.doc \in DOMAIN rows'[o] /\ e.val = rows'[o][e.doc]
                 /\ e.doc \notin todo'[o]
      <4>1. CASE e \in pend[o]
        BY <1>2, <1>3, <1>10, <1>13, <3>1, <3>2, <4>1 DEF PendingOwned
      <4>2. CASE e = n
        BY <1>2, <1>3, <1>6, <1>8, <1>10, <1>13, <3>3, <4>2
      <4> QED BY <1>9, <4>1, <4>2
    <3>6. \A e \in pend[o] : e.doc # n.doc /\ e.seq # n.seq
      BY <1>6, <1>8, <1>13, <3>1, <3>2 DEF PendingOwned
    <3>7. \A e, f \in pend'[o] : e.doc = f.doc \/ e.seq = f.seq => e = f
      BY <1>9, <3>1, <3>6 DEF PendingOwned
    <3> QED BY <3>4, <3>5, <3>7 DEF PendingOwned
  <2>2. RowsCovered(o)'
    <3>1. RowsCovered(o)
      BY <1>1 DEF OpInv
    <3>2. \A d \in DOMAIN rows[o] : \E e \in pend'[o] : e.doc = d
      BY <1>8, <1>9, <3>1 DEF RowsCovered
    <3> QED BY <1>3, <1>10, <3>1, <3>2 DEF RowsCovered
  <2>3. OneAtATime(o)'
    <3>1. OneAtATime(o)
      BY <1>1 DEF OpInv
    <3>2. kind[o] \notin {"multi", "purge"} => todo'[o] = {}
      BY <1>6, <1>10, <1>12, <3>1 DEF OneAtATime
    <3> QED BY <1>3, <1>10, <3>2 DEF OneAtATime
  <2>4. SnapshotOlder(o)'
    <3>1. SnapshotOlder(o) /\ seen[o] \in Int
      BY <1>1, TypeFacts DEF OpInv
    <3>2. ASSUME NEW q \in Ops, NEW e \in pend'[q] PROVE seen[o] < e.seq
      <4>1. CASE e \in pend[q]
        BY <3>1, <4>1 DEF SnapshotOlder
      <4>2. CASE e.seq = last + 1
        BY <1>13, <3>1, <4>2 DEF SnapshotOlder
      <4> QED BY <1>15, <3>2, <4>1, <4>2 DEF ClockGoesOn
    <3>3. seen[o] <= last'
      BY <1>13, <3>1 DEF SnapshotOlder
    <3> QED BY <1>3, <1>12, <3>1, <3>2, <3>3 DEF SnapshotOlder
  <2>5. SnapshotFresh(o)'
    BY <1>1, <1>3, <1>12 DEF OpInv, SnapshotFresh
  <2>6. RowsGrow(o)'
    BY <1>1, <1>3 DEF OpInv, RowsGrow
  <2>7. LoadedWereThere(o)'
    BY <1>1, <1>3, <1>10, <1>12 DEF OpInv, LoadedWereThere
  <2>8. ClaimsPending(o)'
    <3>1. ClaimsPending(o) /\ cur[o] \in DocsOf(pend'[o]) /\ DocsOf(pend[o]) \subseteq DocsOf(pend'[o])
      BY <1>1, <1>8, <1>9 DEF OpInv, DocsOf
    <3> QED BY <1>3, <1>10, <1>11, <1>12, <3>1 DEF ClaimsPending
  <2> QED BY <2>1, <2>2, <2>3, <2>4, <2>5, <2>6, <2>7, <2>8, Zenon DEF OpInv
<1> QED BY <1>16, <1>17, <1>18, <1>19, <1>20, Zenon DEF DocumentsInductive

----------------------------------------------------------------------------
(* The end of a transaction                                                *)

(* Only the locks of the operation go; every other one keeps its own.      *)
LEMMA UnlockKeepsOthers ==
  ASSUME StateTypes, NEW o \in Ops, Unlock(o), last' = last,
         pc'[o] \notin {"write", "trigger"},
         \A p \in Ops \ {o} : pc'[p] = pc[p]
  PROVE  /\ \A p \in Ops \ {o} : LocksKept(p)
         /\ rowLock' \in [Docs -> Open' \cup {None}] /\ clockLock' \in Open' \cup {None}
<1>1. None \notin Ops
  BY DocumentsAssumption
<1>2. Open' = Open \ {o}
  BY DEF Open
<1>3. /\ rowLock' = [d \in Docs |-> IF rowLock[d] = o THEN None ELSE rowLock[d]]
      /\ clockLock' = IF clockLock = o THEN None ELSE clockLock
  BY Zenon DEF Unlock
<1>4. \A p \in Ops \ {o} : LocksKept(p)
  BY <1>1, <1>3 DEF LocksKept
<1>5. rowLock' \in [Docs -> Open' \cup {None}] /\ clockLock' \in Open' \cup {None}
  BY <1>2, <1>3, TypeFacts
<1> QED BY <1>4, <1>5

LEMMA FailPreserves ==
  ASSUME DocumentsInductive, isolated' = isolated, NEW o \in Ops, Fail(o)
  PROVE  DocumentsInductive'
<1>1. /\ StateTypes /\ MirrorOrdered /\ TableIsNewest /\ UpdatesAccumulateIfIsolated
      /\ RepliesAreTrueIfIsolated /\ \A p \in Ops : OpInv(p)
  BY Zenon DEF DocumentsInductive
<1>2. /\ table' = table /\ mirror' = mirror /\ last' = last /\ kind' = kind
      /\ view' = view /\ seen' = seen /\ cur' = cur /\ Unlock(o)
  BY Zenon DEF Fail
<1>3. /\ rows' = [rows EXCEPT ![o] = <<>>] /\ pend' = [pend EXCEPT ![o] = {}]
      /\ todo' = [todo EXCEPT ![o] = {}] /\ modified' = [modified EXCEPT ![o] = {}]
      /\ taken' = [taken EXCEPT ![o] = {}] /\ pc' = [pc EXCEPT ![o] = "failed"]
  BY Zenon DEF Fail
<1>4. /\ pend' \in [Ops -> SUBSET Entries] /\ todo' \in [Ops -> SUBSET Docs]
      /\ modified' \in [Ops -> SUBSET Docs] /\ taken' \in [Ops -> SUBSET Docs]
      /\ pc' \in [Ops -> {"idle", "write", "trigger", "done", "failed"}]
  BY <1>1, <1>3, TypeFacts
<1>5. /\ DOMAIN rows' = Ops /\ rows' = [p \in Ops |-> rows'[p]] /\ rows'[o] = <<>>
      /\ pend'[o] = {} /\ pc'[o] = "failed"
      /\ \A p \in Ops \ {o} : rows'[p] = rows[p] /\ pend'[p] = pend[p] /\ pc'[p] = pc[p]
  BY <1>1, <1>3, TypeFacts
<1>6. \A p \in Ops \ {o} : OwnKept(p)
  BY <1>1, <1>2, <1>3, <1>5, TypeFacts DEF OwnKept
<1>7. ClockGoesOn
  BY <1>1, <1>2, <1>5, TypeFacts DEF ClockGoesOn
<1>8. /\ \A p \in Ops \ {o} : LocksKept(p)
      /\ rowLock' \in [Docs -> Open' \cup {None}] /\ clockLock' \in Open' \cup {None}
  BY <1>1, <1>2, <1>4, <1>5, UnlockKeepsOthers
<1>9. (o \notin Open)' /\ \A p \in Ops \ {o} : (p \in Open)' <=> p \in Open
  BY <1>5 DEF Open
<1>10. StateTypes'
  <2>1. (isolated \in BOOLEAN)'
    BY <1>1, Zenon DEF StateTypes, DocumentsTypeOK
  <2>2. /\ table' \in [Docs -> Contents] /\ mirror' \subseteq Entries /\ last' \in Nat
        /\ kind' \in [Ops -> Kinds \cup {"insert"}]
        /\ view' \in [Ops -> [Docs -> Contents]] /\ seen' \in [Ops -> Nat \cup {-1}]
        /\ cur' \in [Ops -> Docs \cup {None}]
    BY <1>1, <1>2, TypeFacts
  <2>3. \A p \in Ops : /\ pend'[p] \subseteq Entries
                       /\ DOMAIN rows'[p] \subseteq Docs
                       /\ \A x \in DOMAIN rows'[p] : rows'[p][x] \in Contents
    BY <1>1, <1>4, <1>5, RowTypes
  <2>4. \A p \in Ops : p \notin Open' => pend'[p] = {} /\ rows'[p] = <<>>
    BY <1>1, <1>5, <1>9, ClosedIsEmpty
  <2>5. SharesTyped'
    BY <1>1, <1>2, <1>5, SharesReleased, Zenon
  <2> QED BY <1>4, <1>5, <1>8, <2>1, <2>2, <2>3, <2>4, <2>5, Zenon DEF StateTypes, DocumentsTypeOK
<1>11. MirrorOrdered' /\ TableIsNewest' /\ UpdatesAccumulateIfIsolated'
  BY <1>1, <1>2, <1>7, CommittedKept, Zenon
<1>12. RepliesAreTrueIfIsolated'
  BY <1>1, <1>2, <1>5, <1>6, RepliesKept
<1>13. \A p \in Ops \ {o} : OpInv(p)'
  BY <1>1, <1>2, <1>6, <1>7, <1>8, OthersKeepInvariant
<1>14. OpInv(o)'
  <2>1. PendingOwned(o)' /\ RowsCovered(o)' /\ RowsGrow(o)'
    BY <1>5 DEF PendingOwned, RowsCovered, RowsGrow
  <2>2. OneAtATime(o)' /\ SnapshotFresh(o)' /\ LoadedWereThere(o)' /\ ClaimsPending(o)'
    BY <1>5, <1>9 DEF OneAtATime, SnapshotFresh, LoadedWereThere, ClaimsPending
  <2>3. SnapshotOlder(o)'
    <3>1. SnapshotOlder(o)
      BY <1>1 DEF OpInv
    <3> QED BY <1>2, <1>5, <1>9, <3>1 DEF SnapshotOlder
  <2> QED BY <2>1, <2>2, <2>3, Zenon DEF OpInv
<1> QED BY <1>10, <1>11, <1>12, <1>13, <1>14, Zenon DEF DocumentsInductive

(* What an operation that commits adds to the committed state.             *)
LEMMA CommitFacts ==
  ASSUME DocumentsInductive, NEW o \in Ops, Commit(o)
  PROVE  /\ table' \in [Docs -> Contents] /\ mirror' = mirror \cup pend[o]
         /\ \A d \in Docs : d \notin DOMAIN rows[o] =>
              table'[d] = table[d] /\ EntriesOf(d)' = EntriesOf(d)
         /\ \A d \in DOMAIN rows[o] :
              \E e \in pend[o] : /\ e.doc = d /\ table'[d] = e.val /\ rows[o][d] = e.val
                                 /\ EntriesOf(d)' = EntriesOf(d) \cup {e}
                                 /\ \A f \in EntriesOf(d) : f.seq < e.seq
         /\ \A p \in Ops \ {o} : pend[p] # {} => pend[o] = {}
<1>1. StateTypes /\ \A p \in Ops : OpInv(p)
  BY Zenon DEF DocumentsInductive
<1>2. PendingOwned(o) /\ RowsCovered(o) /\ DOMAIN rows[o] \subseteq Docs
  BY <1>1, RowTypes DEF OpInv
<1>3. /\ pc[o] = "write" /\ mirror' = mirror \cup pend[o]
      /\ table' = [d \in Docs |-> Current(o, d)]
  BY Zenon DEF Commit
<1>4. table' \in [Docs -> Contents]
  BY <1>1, <1>3, RowTypes, TypeFacts DEF Current
<1>5. ASSUME NEW d \in Docs, d \notin DOMAIN rows[o]
      PROVE  table'[d] = table[d] /\ EntriesOf(d)' = EntriesOf(d)
  BY <1>2, <1>3, <1>5 DEF Current, PendingOwned, EntriesOf
<1>6. ASSUME NEW d \in DOMAIN rows[o]
      PROVE  \E e \in pend[o] : /\ e.doc = d /\ table'[d] = e.val /\ rows[o][d] = e.val
                                /\ EntriesOf(d)' = EntriesOf(d) \cup {e}
                                /\ \A f \in EntriesOf(d) : f.seq < e.seq
  <2>1. PICK e \in pend[o] : e.doc = d
    BY <1>2, <1>3 DEF RowsCovered
  <2>2. table'[d] = rows[o][d]
    BY <1>2, <1>3 DEF Current
  <2>3. rows[o][d] = e.val /\ \A f \in pend[o] : f.doc = d => f = e
    BY <1>2, <2>1 DEF PendingOwned
  <2>4. EntriesOf(d)' = EntriesOf(d) \cup {e}
    BY <1>3, <2>1, <2>3 DEF EntriesOf
  <2>5. \A f \in EntriesOf(d) : f.seq < e.seq
    BY <1>2, <2>1 DEF PendingOwned, EntriesOf
  <2> QED BY <2>1, <2>2, <2>3, <2>4, <2>5
<1>7. \A p \in Ops \ {o} : pend[p] # {} => pend[o] = {}
  BY <1>1, <1>2 DEF OpInv, PendingOwned
<1> QED BY <1>3, <1>4, <1>5, <1>6, <1>7

LEMMA CommitKeepsMirrorOrdered ==
  ASSUME DocumentsInductive, NEW o \in Ops, Commit(o)
  PROVE  MirrorOrdered'
<1>1. StateTypes /\ MirrorOrdered /\ PendingOwned(o)
  BY Zenon DEF DocumentsInductive, OpInv
<1>2. mirror' = mirror \cup pend[o] /\ last' = last
  BY DEF Commit
<1>3. \A e \in mirror \cup pend[o] : e.seq \in Nat /\ e.seq <= last
  BY <1>1, TypeFacts, EntryTypes DEF MirrorOrdered, PendingOwned
<1>4. \A e, f \in mirror \cup pend[o] : e.seq = f.seq => e = f
  BY <1>1, <1>3 DEF MirrorOrdered, PendingOwned
<1>5. mirror' # {} => \E e \in mirror' : \A f \in mirror' : f.seq <= e.seq
  <2>1. CASE pend[o] = {}
    BY <1>1, <1>2, <2>1 DEF MirrorOrdered
  <2>2. CASE pend[o] # {}
    BY <1>1, <1>2, <1>3, <2>2 DEF PendingOwned
  <2> QED BY <2>1, <2>2
<1> QED BY <1>2, <1>3, <1>4, <1>5 DEF MirrorOrdered

LEMMA CommitKeepsTableNewest ==
  ASSUME DocumentsInductive, NEW o \in Ops, Commit(o)
  PROVE  TableIsNewest'
<1>1. StateTypes /\ TableIsNewest
  BY Zenon DEF DocumentsInductive
<1>2. mirror \subseteq Entries /\ pend[o] \subseteq Entries
  BY <1>1, TypeFacts
<1>3. ASSUME NEW d \in Docs
      PROVE  \/ EntriesOf(d)' = {} /\ table'[d] = Start(d)
             \/ \E e \in EntriesOf(d)' :
                  table'[d] = e.val /\ \A f \in EntriesOf(d)' : f.seq <= e.seq
  <2>1. CASE d \notin DOMAIN rows[o]
    BY <1>1, <2>1, CommitFacts DEF TableIsNewest
  <2>2. CASE d \in DOMAIN rows[o]
    <3>1. PICK e \in pend[o] : /\ table'[d] = e.val
                               /\ EntriesOf(d)' = EntriesOf(d) \cup {e}
                               /\ \A f \in EntriesOf(d) : f.seq < e.seq
      BY <2>2, CommitFacts
    <3>2. e.seq \in Nat /\ \A f \in EntriesOf(d) : f.seq \in Nat
      BY <1>2, EntryTypes DEF EntriesOf
    <3> QED BY <3>1, <3>2
  <2> QED BY <2>1, <2>2
<1> QED BY <1>3 DEF TableIsNewest, Start

(* The second of two versions of a document that follow each other carries *)
(* the first one's updates: the row was locked as load had read it.        *)
LEMMA CommitAccumulates ==
  ASSUME DocumentsInductive, isolated' = isolated, NEW o \in Ops, Commit(o)
  PROVE  UpdatesAccumulateIfIsolated'
<1>1. StateTypes /\ MirrorOrdered /\ TableIsNewest /\ RowsGrow(o) /\ UpdatesAccumulateIfIsolated
  BY Zenon DEF DocumentsInductive, OpInv
<1>2. mirror \subseteq Entries /\ pend[o] \subseteq Entries
  BY <1>1, TypeFacts
<1> SUFFICES ASSUME isolated, NEW d \in Docs,
                    NEW e \in EntriesOf(d)', NEW f \in EntriesOf(d)',
                    e.seq < f.seq, e.val # Absent, f.val # Absent,
                    \A g \in EntriesOf(d)' : g.seq <= e.seq \/ g.seq >= f.seq
             PROVE  e.val \subseteq f.val
  BY DEF UpdatesAccumulateIfIsolated, UpdatesAccumulate, Absent
<1>3. ASSUME e \in EntriesOf(d), f \in EntriesOf(d), EntriesOf(d) \subseteq EntriesOf(d)'
      PROVE  e.val \subseteq f.val
  BY <1>1, <1>3 DEF UpdatesAccumulateIfIsolated, UpdatesAccumulate
<1>4. CASE d \notin DOMAIN rows[o]
  BY <1>3, <1>4, CommitFacts
<1>5. CASE d \in DOMAIN rows[o]
  <2>1. PICK n \in pend[o] : /\ n.doc = d /\ rows[o][d] = n.val
                             /\ EntriesOf(d)' = EntriesOf(d) \cup {n}
                             /\ \A g \in EntriesOf(d) : g.seq < n.seq
    BY <1>5, CommitFacts
  <2>2. n.seq \in Nat /\ e.seq \in Nat /\ f.seq \in Nat /\ \A g \in EntriesOf(d) : g.seq \in Nat
    BY <1>2, <2>1, EntryTypes DEF EntriesOf
  <2>3. e # n
    BY <2>1, <2>2
  <2>4. CASE f \in EntriesOf(d)
    BY <1>3, <2>1, <2>3, <2>4
  <2>5. CASE f = n
    <3>1. e \in EntriesOf(d) /\ \A g \in EntriesOf(d) : g.seq <= e.seq
      BY <2>1, <2>2, <2>3, <2>5
    <3>2. PICK m \in EntriesOf(d) : table[d] = m.val /\ \A g \in EntriesOf(d) : g.seq <= m.seq
      BY <1>1, <3>1 DEF TableIsNewest
    <3>3. m.seq = e.seq
      BY <2>2, <3>1, <3>2
    <3>4. m = e
      BY <1>1, <3>1, <3>2, <3>3 DEF MirrorOrdered, EntriesOf
    <3> QED BY <1>1, <1>5, <2>1, <2>5, <3>2, <3>4 DEF RowsGrow
  <2> QED BY <2>1, <2>4, <2>5
<1> QED BY <1>4, <1>5

(* With nothing left to do, all that the reply claims is in the mirror.    *)
LEMMA CommitRepliesTruly ==
  ASSUME DocumentsInductive, isolated' = isolated, NEW o \in Ops, Commit(o),
         \A p \in Ops \ {o} : OwnKept(p)
  PROVE  RepliesAreTrueIfIsolated'
<1>1. RepliesAreTrueIfIsolated /\ PendingOwned(o) /\ ClaimsPending(o)
  BY Zenon DEF DocumentsInductive, OpInv
<1>2. /\ mirror' = mirror \cup pend[o] /\ modified' = modified /\ taken' = taken
      /\ todo[o] = {} /\ o \in Open
  BY DEF Commit, Open
<1> SUFFICES ASSUME isolated, NEW p \in Ops, pc'[p] = "done",
                    NEW d \in modified'[p] \cup taken'[p]
             PROVE  \E e \in mirror' : e.by = p /\ e.doc = d
  BY DEF RepliesAreTrueIfIsolated
<1>3. CASE p = o
  <2>1. d \in DocsOf(pend[o])
    BY <1>1, <1>2, <1>3 DEF ClaimsPending
  <2> QED BY <1>1, <1>2, <1>3, <2>1 DEF DocsOf, PendingOwned
<1>4. CASE p # o
  <2>1. pc[p] = "done" /\ d \in modified[p] \cup taken[p]
    BY <1>2, <1>4 DEF OwnKept
  <2> QED BY <1>1, <1>2, <2>1 DEF RepliesAreTrueIfIsolated
<1> QED BY <1>3, <1>4

LEMMA CommitKeepsOthers ==
  ASSUME DocumentsInductive, isolated' = isolated, NEW o \in Ops, Commit(o),
         NEW p \in Ops \ {o}, OwnKept(p), LocksKept(p), ClockGoesOn
  PROVE  OpInv(p)'
<1>1. StateTypes /\ OpInv(p) /\ OpInv(o) /\ (\A q \in Ops : OpInv(q)) /\ p \in Ops
  BY Zenon DEF DocumentsInductive
<1>2. RowsCovered(p)' /\ OneAtATime(p)' /\ LoadedWereThere(p)' /\ ClaimsPending(p)'
  BY <1>1, OthersKeepLocks, Zenon
<1>3. SnapshotOlder(p)'
  BY <1>1, SnapshotsStayOlder, Zenon
<1>4. last' = last /\ mirror' = mirror \cup pend[o]
  BY DEF Commit
<1>5. PendingOwned(p)'
  <2>1. PendingOwned(p) /\ (pend[p] # {} => mirror' = mirror)
    BY <1>1, <1>4, CommitFacts DEF OpInv
  <2> QED BY <1>4, <2>1 DEF PendingOwned, OwnKept, LocksKept
<1>6. SnapshotFresh(p)'
  <2>1. SnapshotFresh(p) /\ SnapshotOlder(p) /\ ((p \in Open)' <=> p \in Open)
    BY <1>1, OpenIsKept DEF OpInv, OwnKept
  <2>2. ASSUME NEW d \in Docs, ~(\E e \in mirror' : e.doc = d /\ e.seq > seen[p]), p \in Open
        PROVE  table'[d] = view[p][d]
    <3>1. d \notin DOMAIN rows[o]
      <4>1. SUFFICES ASSUME d \in DOMAIN rows[o] PROVE FALSE
        OBVIOUS
      <4>2. PICK e \in pend[o] : e.doc = d
        BY <4>1, CommitFacts
      <4>3. seen[p] < e.seq /\ seen[p] \in Int /\ e.seq \in Nat
        BY <1>1, <2>1, <4>2, TypeFacts, EntryTypes DEF SnapshotOlder
      <4> QED BY <1>4, <2>2, <4>2, <4>3
    <3>2. table'[d] = table[d]
      BY <3>1, CommitFacts
    <3> QED BY <1>4, <2>1, <2>2, <3>2 DEF SnapshotFresh
  <2> QED BY <2>1, <2>2 DEF SnapshotFresh, OwnKept
<1>7. RowsGrow(p)'
  <2>1. RowsGrow(p) /\ RowsCovered(p) /\ RowsCovered(o) /\ DOMAIN rows[p] \subseteq Docs
    BY <1>1, RowTypes DEF OpInv
  <2>2. \A d \in DOMAIN rows[p] : d \notin DOMAIN rows[o]
    BY <2>1 DEF RowsCovered
  <2>3. \A d \in DOMAIN rows[p] : table'[d] = table[d]
    BY <2>1, <2>2, CommitFacts
  <2> QED BY <2>1, <2>3 DEF RowsGrow, OwnKept
<1> QED BY <1>2, <1>3, <1>5, <1>6, <1>7, Zenon DEF OpInv

LEMMA CommitPreserves ==
  ASSUME DocumentsInductive, isolated' = isolated, NEW o \in Ops, Commit(o)
  PROVE  DocumentsInductive'
<1>1. StateTypes /\ \A p \in Ops : OpInv(p)
  BY Zenon DEF DocumentsInductive
<1>2. /\ mirror' = mirror \cup pend[o] /\ last' = last /\ kind' = kind /\ view' = view
      /\ seen' = seen /\ todo' = todo /\ cur' = cur /\ modified' = modified
      /\ taken' = taken /\ Unlock(o)
  BY Zenon DEF Commit
<1>3. /\ rows' = [rows EXCEPT ![o] = <<>>] /\ pend' = [pend EXCEPT ![o] = {}]
      /\ pc' = [pc EXCEPT ![o] = "done"]
  BY Zenon DEF Commit
<1>4. /\ pend' \in [Ops -> SUBSET Entries] /\ table' \in [Docs -> Contents]
      /\ pc' \in [Ops -> {"idle", "write", "trigger", "done", "failed"}]
  BY <1>1, <1>3, TypeFacts, CommitFacts
<1>5. /\ DOMAIN rows' = Ops /\ rows' = [p \in Ops |-> rows'[p]] /\ rows'[o] = <<>>
      /\ pend'[o] = {} /\ pc'[o] = "done"
      /\ \A p \in Ops \ {o} : rows'[p] = rows[p] /\ pend'[p] = pend[p] /\ pc'[p] = pc[p]
  BY <1>1, <1>3, TypeFacts
<1>6. \A p \in Ops \ {o} : OwnKept(p)
  BY <1>2, <1>5 DEF OwnKept
<1>7. ClockGoesOn
  BY <1>1, <1>2, <1>5, TypeFacts DEF ClockGoesOn
<1>8. /\ \A p \in Ops \ {o} : LocksKept(p)
      /\ rowLock' \in [Docs -> Open' \cup {None}] /\ clockLock' \in Open' \cup {None}
  BY <1>1, <1>2, <1>5, UnlockKeepsOthers
<1>9. (o \notin Open)' /\ \A p \in Ops \ {o} : (p \in Open)' <=> p \in Open
  BY <1>5 DEF Open
<1>10. StateTypes'
  <2>1. (isolated \in BOOLEAN)'
    BY <1>1, Zenon DEF StateTypes, DocumentsTypeOK
  <2>2. /\ mirror' \subseteq Entries /\ last' \in Nat
        /\ kind' \in [Ops -> Kinds \cup {"insert"}]
        /\ view' \in [Ops -> [Docs -> Contents]] /\ seen' \in [Ops -> Nat \cup {-1}]
        /\ todo' \in [Ops -> SUBSET Docs] /\ cur' \in [Ops -> Docs \cup {None}]
        /\ modified' \in [Ops -> SUBSET Docs] /\ taken' \in [Ops -> SUBSET Docs]
    BY <1>1, <1>2, TypeFacts
  <2>3. \A p \in Ops : /\ pend'[p] \subseteq Entries
                       /\ DOMAIN rows'[p] \subseteq Docs
                       /\ \A x \in DOMAIN rows'[p] : rows'[p][x] \in Contents
    BY <1>1, <1>4, <1>5, RowTypes
  <2>4. \A p \in Ops : p \notin Open' => pend'[p] = {} /\ rows'[p] = <<>>
    BY <1>1, <1>5, <1>9, ClosedIsEmpty
  <2>5. SharesTyped'
    BY <1>1, <1>2, <1>5, SharesReleased, Zenon
  <2> QED BY <1>4, <1>5, <1>8, <2>1, <2>2, <2>3, <2>4, <2>5, Zenon DEF StateTypes, DocumentsTypeOK
<1>11. MirrorOrdered' /\ TableIsNewest' /\ UpdatesAccumulateIfIsolated'
  BY CommitKeepsMirrorOrdered, CommitKeepsTableNewest, CommitAccumulates, Zenon
<1>12. RepliesAreTrueIfIsolated'
  BY <1>6, CommitRepliesTruly
<1>13. \A p \in Ops \ {o} : OpInv(p)'
  BY <1>6, <1>7, <1>8, CommitKeepsOthers
<1>14. OpInv(o)'
  <2>1. PendingOwned(o)' /\ RowsCovered(o)' /\ RowsGrow(o)'
    BY <1>5 DEF PendingOwned, RowsCovered, RowsGrow
  <2>2. OneAtATime(o)' /\ SnapshotFresh(o)' /\ LoadedWereThere(o)' /\ ClaimsPending(o)'
    BY <1>5, <1>9 DEF OneAtATime, SnapshotFresh, LoadedWereThere, ClaimsPending
  <2>3. SnapshotOlder(o)'
    <3>1. SnapshotOlder(o)
      BY <1>1 DEF OpInv
    <3> QED BY <1>2, <1>5, <1>9, <3>1 DEF SnapshotOlder
  <2> QED BY <2>1, <2>2, <2>3, Zenon DEF OpInv
<1> QED BY <1>10, <1>11, <1>12, <1>13, <1>14, Zenon DEF DocumentsInductive

----------------------------------------------------------------------------
(* The theorems                                                            *)

LEMMA DocumentsInit == Init => DocumentsInductive
<1> SUFFICES ASSUME Init PROVE DocumentsInductive
  OBVIOUS
<1>1. Open = {}
  BY DEF Init, Open
<1>2. StateTypes
  <2>1. isolated \in BOOLEAN
    BY DocumentsAssumption DEF Init
  <2>2. /\ table \in [Docs -> Contents] /\ mirror \subseteq Entries /\ last \in Nat
        /\ rowLock \in [Docs -> Open \cup {None}] /\ clockLock \in Open \cup {None}
    BY DEF Init, Contents, Start
  <2>3. /\ pc \in [Ops -> {"idle", "write", "trigger", "done", "failed"}]
        /\ kind \in [Ops -> Kinds \cup {"insert"}] /\ seen \in [Ops -> Nat \cup {-1}]
        /\ todo \in [Ops -> SUBSET Docs] /\ cur \in [Ops -> Docs \cup {None}]
        /\ modified \in [Ops -> SUBSET Docs] /\ taken \in [Ops -> SUBSET Docs]
        /\ pend \in [Ops -> SUBSET Entries]
    BY DEF Init
  <2>4. view \in [Ops -> [Docs -> Contents]]
    BY <2>2 DEF Init
  <2>5. /\ DOMAIN rows = Ops /\ rows = [o \in Ops |-> rows[o]]
        /\ \A o \in Ops : rows[o] = <<>> /\ pend[o] = {}
    BY DEF Init
  <2>6. \A o \in Ops : /\ pend[o] \subseteq Entries /\ DOMAIN rows[o] \subseteq Docs
                       /\ \A d \in DOMAIN rows[o] : rows[o][d] \in Contents
                       /\ o \notin Open => pend[o] = {} /\ rows[o] = <<>>
    BY <2>5
  <2>7. SharesTyped
    BY DEF Init, SharesTyped
  <2> QED BY <2>1, <2>2, <2>3, <2>4, <2>5, <2>6, <2>7, Zenon DEF StateTypes, DocumentsTypeOK
<1>3. MirrorOrdered /\ TableIsNewest
  BY DEF Init, MirrorOrdered, TableIsNewest, EntriesOf
<1>4. ASSUME NEW o \in Ops PROVE OpInv(o)
  <2>1. /\ rows[o] = <<>> /\ pend[o] = {} /\ pc[o] = "idle" /\ modified[o] = {}
        /\ taken[o] = {} /\ seen[o] = -1 /\ last = 0 /\ \A p \in Ops : pend[p] = {}
    BY DEF Init
  <2>2. PendingOwned(o) /\ RowsCovered(o) /\ RowsGrow(o)
    BY <2>1 DEF PendingOwned, RowsCovered, RowsGrow
  <2>3. OneAtATime(o) /\ SnapshotOlder(o) /\ SnapshotFresh(o)
    BY <1>1, <2>1 DEF OneAtATime, SnapshotOlder, SnapshotFresh
  <2>4. LoadedWereThere(o) /\ ClaimsPending(o)
    BY <1>1, <2>1 DEF LoadedWereThere, ClaimsPending
  <2> QED BY <2>2, <2>3, <2>4, Zenon DEF OpInv
<1>5. UpdatesAccumulateIfIsolated
  BY DEF Init, UpdatesAccumulateIfIsolated, UpdatesAccumulate, EntriesOf
<1>6. RepliesAreTrueIfIsolated
  BY DEF Init, RepliesAreTrueIfIsolated
<1> QED BY <1>2, <1>3, <1>4, <1>5, <1>6, Zenon DEF DocumentsInductive

(* A step that leaves everything but the S locks as it is.                 *)
LEMMA OnlySharesChange ==
  ASSUME DocumentsInductive, SharesTyped',
         UNCHANGED <<isolated, docVars, pc, kind, view, seen, todo, cur, rows, pend, modified, taken>>
  PROVE  DocumentsInductive'
<1>1. /\ isolated' = isolated /\ table' = table /\ mirror' = mirror /\ last' = last
      /\ rowLock' = rowLock /\ clockLock' = clockLock /\ pc' = pc /\ kind' = kind
      /\ view' = view /\ seen' = seen /\ todo' = todo /\ cur' = cur /\ rows' = rows
      /\ pend' = pend /\ modified' = modified /\ taken' = taken
  BY Zenon DEF docVars
<1>2. StateTypes /\ (\A q \in Ops : OpInv(q)) /\ MirrorOrdered /\ TableIsNewest
      /\ UpdatesAccumulateIfIsolated /\ RepliesAreTrueIfIsolated
  BY Zenon DEF DocumentsInductive
<1>3. StateTypes'
  <2>1. Open' = Open
    BY <1>1 DEF Open
  <2> QED BY <1>1, <1>2, <2>1, Zenon DEF StateTypes, DocumentsTypeOK
<1>4. ClockGoesOn
  BY <1>1, <1>2, TypeFacts DEF ClockGoesOn
<1>5. MirrorOrdered' /\ TableIsNewest' /\ UpdatesAccumulateIfIsolated'
  BY <1>1, <1>2, <1>4, CommittedKept, Zenon
<1>6. ASSUME NEW o \in Ops PROVE OpInv(o)'
  <2>1. OwnKept(o) /\ LocksKept(o)
    BY <1>1 DEF OwnKept, LocksKept
  <2> QED BY <1>1, <1>2, <1>4, <2>1, OthersKeepInvariant
<1>7. RepliesAreTrueIfIsolated'
  BY <1>1, <1>2 DEF RepliesAreTrueIfIsolated
<1> QED BY <1>3, <1>5, <1>6, <1>7, Zenon DEF DocumentsInductive

LEMMA SharePreserves ==
  ASSUME DocumentsInductive, isolated' = isolated, NEW o \in Ops, NEW d \in Docs,
         AskShared(o, d) \/ GrantShared(o, d)
  PROVE  DocumentsInductive'
<1>1. /\ UNCHANGED <<isolated, docVars, pc, kind, view, seen, todo, cur, rows, pend, modified, taken>>
      /\ \E v \in {"asked", "shared"} : dup' = [dup EXCEPT ![o] = v]
      /\ pc[o] = "write"
  BY DEF AskShared, GrantShared, Reaches
<1>2. SharesTyped /\ o \in Open /\ Open' = Open
  BY <1>1, Zenon DEF DocumentsInductive, StateTypes, DocumentsTypeOK, Open
<1>3. SharesTyped'
  BY <1>1, <1>2 DEF SharesTyped
<1> QED BY <1>1, <1>3, OnlySharesChange

LEMMA DocumentsStep == DocumentsInductive /\ [Next]_vars => DocumentsInductive'
<1> SUFFICES ASSUME DocumentsInductive, [Next]_vars PROVE DocumentsInductive'
  OBVIOUS
<1>1. CASE Next
  <2>1. PICK o \in Ops : OpStep(o)
    BY <1>1 DEF Next
  <2>2. isolated' = isolated /\ StateTypes /\ OpInv(o)
    BY <1>1, Zenon DEF Next, DocumentsInductive
  <2>3. ASSUME NEW F \in SUBSET Docs, LoadToRemove(o, F) PROVE DocumentsInductive'
    BY <2>2, <2>3, LoadToRemoveStarts, StartPreserves
  <2>4. ASSUME NEW F \in SUBSET Docs, NEW k \in Reading, Load(o, k, F) PROVE DocumentsInductive'
    BY <2>2, <2>4, LoadStarts, StartPreserves
  <2>5. ASSUME NEW d \in Docs, LoadUpsert(o, d) PROVE DocumentsInductive'
    BY <2>2, <2>5, LoadUpsertStarts, StartPreserves
  <2>6. ASSUME NEW k \in Kinds, NEW D \in SUBSET Docs, StartStatement(o, k, D)
        PROVE  DocumentsInductive'
    BY <2>2, <2>6, StatementStarts, StartPreserves
  <2>7. ASSUME NEW d \in Docs, SkipUnchanged(o, d) PROVE DocumentsInductive'
    BY <2>2, <2>7, SkipDrops, DropPreserves
  <2>8. ASSUME NEW d \in Docs, MissRow(o, d) PROVE DocumentsInductive'
    BY <2>2, <2>8, MissDrops, DropPreserves
  <2>9. ASSUME NEW d \in Docs, WriteRow(o, d) PROVE DocumentsInductive'
    BY <2>2, <2>9, WriteRowPreserves
  <2>10. CASE Trigger(o)
    BY <2>2, <2>10, TriggerPreserves
  <2>11. CASE Commit(o)
    BY <2>2, <2>11, CommitPreserves
  <2>12. CASE Fail(o)
    BY <2>2, <2>12, FailPreserves
  <2>13. ASSUME NEW d \in Docs, AskShared(o, d) \/ GrantShared(o, d) PROVE DocumentsInductive'
    BY <2>2, <2>13, SharePreserves
  <2> QED BY <2>1, <2>3, <2>4, <2>5, <2>6, <2>7, <2>8, <2>9, <2>10, <2>11, <2>12, <2>13, Zenon
          DEF OpStep
<1>2. CASE UNCHANGED vars
  <2>1. /\ UNCHANGED <<isolated, docVars, pc, kind, view, seen, todo, cur, rows, pend, modified, taken>>
        /\ dup' = dup /\ StateTypes
    BY <1>2, Zenon DEF vars, opVars, DocumentsInductive
  <2>2. Open' = Open
    BY <2>1 DEF Open
  <2> QED BY <2>1, <2>2, SharesKept, OnlySharesChange
<1> QED BY <1>1, <1>2

(* Entries are numbered once, so the newest one is the one chosen.         *)
LEMMA NewestIsChosen ==
  ASSUME StateTypes, MirrorOrdered, TableIsNewest
  PROVE  ReplayMatchesTable
<1> SUFFICES ASSUME NEW d \in Docs, EntriesOf(d) # {}
             PROVE  table[d] = (CHOOSE e \in EntriesOf(d) :
                                  \A f \in EntriesOf(d) : f.seq <= e.seq).val
  BY DEF ReplayMatchesTable, TableIsNewest
<1> DEFINE c == CHOOSE e \in EntriesOf(d) : \A f \in EntriesOf(d) : f.seq <= e.seq
<1>1. PICK e \in EntriesOf(d) : table[d] = e.val /\ \A f \in EntriesOf(d) : f.seq <= e.seq
  BY DEF TableIsNewest
<1>2. c \in EntriesOf(d) /\ \A f \in EntriesOf(d) : f.seq <= c.seq
  BY <1>1
<1>3. \A f \in EntriesOf(d) : f.seq \in Nat /\ f \in mirror
  BY TypeFacts, EntryTypes DEF EntriesOf
<1>4. c.seq = e.seq
  BY <1>1, <1>2, <1>3
<1>5. c = e
  BY <1>1, <1>2, <1>3, <1>4 DEF MirrorOrdered
<1> QED BY <1>1, <1>5

(* The owner of the clock waits for nobody, the owner of a row at most for *)
(* the clock. So in a circle everyone waits for an S lock or for a gap,    *)
(* and whoever has one of these and waits is an INSERT past its check.     *)
LEMMA OnlySharersWaitInACircle ==
  ASSUME StateTypes, \A o \in Ops : OneAtATime(o)
  PROVE  OnlyInsertsWaitInCircle
<1> SUFFICES ASSUME NEW S \in SUBSET {o \in Open : kind[o] \notin {"multi", "purge"}},
                    S # {}, \A o \in S : \E p \in S : Waits(o, p)
             PROVE  \E o, p \in S : o # p /\ Contends(o) /\ Contends(p)
  BY DEF OnlyInsertsWaitInCircle
<1>1. \A o \in S : /\ o \in Ops /\ o \in Open
                   /\ \A d \in Docs : rowLock[d] = o => pc[o] = "trigger" \/ todo[o] = {}
                   /\ clockLock = o => pc[o] = "write" /\ todo[o] = {}
                   /\ todo[o] \subseteq Docs
  BY TypeFacts DEF OneAtATime, Open
<1>2. \A o \in S : clockLock # o
  <2> SUFFICES ASSUME NEW o \in S, clockLock = o PROVE FALSE
    OBVIOUS
  <2>1. pc[o] = "write" /\ todo[o] = {}
    BY <1>1
  <2> QED BY <2>1 DEF Waits
<1>3. \A o \in S : pc[o] = "write" /\ todo[o] # {}
  BY <1>2 DEF Waits
<1>4. \A o, p \in S : Waits(o, p) => o # p /\ Contends(p)
  <2> SUFFICES ASSUME NEW o \in S, NEW p \in S, Waits(o, p) PROVE o # p /\ Contends(p)
    OBVIOUS
  <2>1. \A d \in Docs : rowLock[d] # p
    BY <1>1, <1>3
  <2>2. dup[p] = "shared"
    BY <1>1, <1>2, <1>3, <2>1 DEF Waits, Sharing, GapLocked
  <2> QED BY <1>3, <2>2 DEF Waits, Contends
<1>5. PICK o \in S, p \in S : Waits(o, p)
  OBVIOUS
<1>6. PICK q \in S : Waits(p, q)
  OBVIOUS
<1> QED BY <1>4, <1>5, <1>6

(* What every transaction owes the table and the oplog holds at each step. *)
THEOREM DocumentsInductiveHolds == Spec => []DocumentsInductive
BY DocumentsInit, DocumentsStep, PTL DEF Spec

(* However commands interleave and end, no lock, row or entry is left      *)
(* behind by a transaction that is over, and replaying the oplog gives the *)
(* collection: what run_atomically and the triggers promise together.      *)
THEOREM ReplayGivesCollection == Spec => []DocumentsInv
<1>1. DocumentsInductive => DocumentsInv
  BY NewestIsChosen, Zenon DEF DocumentsInductive, StateTypes, DocumentsInv
<1> QED BY <1>1, DocumentsInductiveHolds, PTL

(* Where the server fails a write to a row changed after the snapshot,     *)
(* Collection::update never overwrites an update it has not read.          *)
THEOREM IsolationKeepsUpdates == Spec => []UpdatesAccumulateIfIsolated
<1>1. DocumentsInductive => UpdatesAccumulateIfIsolated
  BY Zenon DEF DocumentsInductive
<1> QED BY <1>1, DocumentsInductiveHolds, PTL

(* On such a server a reply counts and hands out only what its command     *)
(* wrote, though the counts come from load and not from affected_rows.     *)
THEOREM IsolationMakesRepliesTrue == Spec => []RepliesAreTrueIfIsolated
<1>1. DocumentsInductive => RepliesAreTrueIfIsolated
  BY Zenon DEF DocumentsInductive
<1> QED BY <1>1, DocumentsInductiveHolds, PTL

(* However many commands there are, a circle of single-document ones has   *)
(* two inserts in it that both passed the duplicate check of a taken key;  *)
(* updates, removals and SQL statements alone wait in none.                *)
THEOREM CirclesOfOneDocumentCommandsAreInserts == Spec => []OnlyInsertsWaitInCircle
<1>1. DocumentsInductive => OnlyInsertsWaitInCircle
  BY OnlySharersWaitInACircle, Zenon DEF DocumentsInductive, OpInv
<1> QED BY <1>1, DocumentsInductiveHolds, PTL
=============================================================================
