---------------------------- MODULE TableProofs ----------------------------
(***************************************************************************)
(* Proofs about the two parts that alter tables. Projection, for any       *)
(* columns, fields, types, values and number of triggers: documents stay   *)
(* well formed and mirrored, a column that has the table's only trigger on *)
(* its field agrees with it, and a write to either one reaches the other.  *)
(* What the triggers of a statement do together is shown by induction over *)
(* their list, as the absence of a least trigger that breaks it. Catalog,  *)
(* for any number of sessions and indexes: a collection's mirror is there, *)
(* being installed, or torn.                                               *)
(***************************************************************************)
EXTENDS Projection, Catalog, FiniteSetTheorems, TLAPS

(* Every nonempty set of naturals has a least element.                     *)
LEMMA LeastNatural ==
  ASSUME NEW S, S \subseteq Nat, S # {}
  PROVE  \E m \in S : \A x \in S : m <= x
<1>1. PICK m \in S : \A y \in S : ~(<<y, m>> \in OpToRel(<, Nat))
  BY NatLessThanWellFounded, WFMin, Zenon
<1>2. \A y \in S : ~(y < m)
  BY <1>1 DEF OpToRel
<1> QED
  BY <1>2

----------------------------------------------------------------------------
(* The inductive invariant                                                 *)

(* What a column or a wrapper of a field can hold.                         *)
Storable == Nat \cup {None, Word}

(* A field's content: at most one of its wrappers holds a value.           *)
OneValued ==
  {x \in [WrapperNames -> Storable] :
     \A w, y \in WrapperNames : x[w] # None /\ x[y] # None => w = y}

WellRows == [doc : [Fields -> OneValued], col : [Real -> Storable]]

(* Every column holds a value of its type.                                 *)
Castable(r) == \A c \in Real : Cast(shown[c].type, r.col[c]) = r.col[c]

Agrees(c, r) == r.col[c] = Cast(shown[c].type, Read(r.doc[shown[c].field]))

Modes == {"forward", "bidirectional"}
PastAlter == {"backfill", "insert trigger", "update trigger"}
Events == {"insert", "update"}
Triggers == {[stem |-> Stem[c], col |-> c] : c \in Columns}

ShownInv ==
  /\ DOMAIN meta \subseteq Columns /\ DOMAIN shown \subseteq Columns
  /\ shown \in [DOMAIN shown -> [field : Fields, type : Types, mode : Modes]]
  /\ whole \subseteq DOMAIN shown /\ raced \in BOOLEAN

RowInv ==
  row # NoRow => row \in WellRows /\ Castable(row) /\ mirrored = row.doc

(* A call past its ALTER TABLE installs a column the table has.            *)
CallInv ==
  /\ call # NoCall => call \in [step : PastAlter \cup {"column"}, field : Fields,
                                col : Columns, type : Types, mode : Modes]
  /\ call.step \in PastAlter =>
       /\ call.col \in Real
       /\ shown[call.col].field = call.field /\ shown[call.col].type = call.type

(* Triggers belong to columns that are there, and a name is used once.     *)
TriggerInv ==
  /\ before \in [Events -> Seq(Triggers)]
  /\ \A e \in Events : \A j, k \in 1..Len(before[e]) :
       /\ before[e][k].col \in Real
       /\ before[e][j].stem = before[e][k].stem => j = k

HasTrigger(e, c) == \E k \in 1..Len(before[e]) : before[e][k].col = c

(* No later installation has replaced the triggers of a column whose name  *)
(* begins like no other's.                                                 *)
InstalledInv ==
  /\ \A c \in whole \cap Real : Apart(c) => \A e \in Events : HasTrigger(e, c)
  /\ call.step = "update trigger" => HasTrigger("insert", call.col)

(* A column agrees from its backfill on, unless the installation is raced. *)
AgreeInv ==
  row # NoRow /\ ~raced =>
    \A c \in Real :
      (c \in whole \/ (call.step \in {"insert trigger", "update trigger"} /\ c = call.col))
      /\ Apart(c) => Agrees(c, row)

ProjectionInd ==
  /\ ShownInv /\ RowInv /\ CallInv /\ TriggerInv /\ InstalledInv /\ AgreeInv

----------------------------------------------------------------------------
(* Wrappers, casts and patches                                             *)

LEMMA WrapperFacts ==
  /\ DOMAIN Wrappers = 1..4
  /\ WrapperNames = {"bare", "$numberInt", "$numberLong", "$numberDouble"}
  /\ \A w \in WrapperNames : \E k \in DOMAIN Wrappers : Wrappers[k] = w
  /\ \A k \in DOMAIN Wrappers : Wrappers[k] \in WrapperNames
<1>1. DOMAIN Wrappers = 1..4
  BY DEF Wrappers
<1>2. /\ Wrappers[1] = "bare" /\ Wrappers[2] = "$numberInt"
      /\ Wrappers[3] = "$numberLong" /\ Wrappers[4] = "$numberDouble"
  BY DEF Wrappers
<1>3. \A k : k \in 1..4 <=> k = 1 \/ k = 2 \/ k = 3 \/ k = 4
  OBVIOUS
<1> QED
  BY <1>1, <1>2, <1>3 DEF WrapperNames

(* Reading a content finds one of its values, or that it has none.         *)
LEMMA ReadFinds ==
  ASSUME NEW x \in [WrapperNames -> Storable]
  PROVE  /\ (\A w \in WrapperNames : x[w] = None) => Read(x) = None
         /\ (\E w \in WrapperNames : x[w] # None) =>
              \E w \in WrapperNames : x[w] # None /\ Read(x) = x[w]
         /\ Read(x) \in Storable
<1> DEFINE S == {k \in DOMAIN Wrappers : x[Wrappers[k]] # None}
           least == CHOOSE k \in S : \A j \in S : k <= j
<1>1. CASE S = {}
  <2>1. Read(x) = None
    BY <1>1 DEF Read
  <2>2. \A w \in WrapperNames : x[w] = None
    BY <1>1, WrapperFacts
  <2> QED
    BY <2>1, <2>2 DEF Storable
<1>2. CASE S # {}
  <2>1. S \subseteq Nat
    BY WrapperFacts
  <2>2. \E m \in S : \A j \in S : m <= j
    BY <1>2, <2>1, LeastNatural
  <2>3. least \in S
    BY <2>2
  <2>4. Read(x) = x[Wrappers[least]]
    BY <1>2 DEF Read
  <2> HIDE DEF least
  <2>5. Wrappers[least] \in WrapperNames /\ x[Wrappers[least]] # None
    BY <2>3, WrapperFacts
  <2> QED
    BY <2>4, <2>5
<1> QED
  BY <1>1, <1>2

LEMMA WrappedValue ==
  ASSUME NEW w \in WrapperNames, NEW v \in Storable
  PROVE  /\ Wrapped(w, v) \in OneValued
         /\ Read(Wrapped(w, v)) = v
<1> DEFINE x == Wrapped(w, v)
<1>1. /\ x \in [WrapperNames -> Storable] /\ x[w] = v
      /\ \A y \in WrapperNames : y # w => x[y] = None
  BY DEF Wrapped, Absent, Storable
<1> HIDE DEF x
<1>2. x \in OneValued
  BY <1>1 DEF OneValued
<1>3. Read(x) = v
  <2>1. CASE v = None
    BY <1>1, <2>1, ReadFinds
  <2>2. CASE v # None
    BY <1>1, <2>2, ReadFinds
  <2> QED
    BY <2>1, <2>2
<1> QED
  BY <1>2, <1>3 DEF x

(* A value that a column took is taken again as it is.                     *)
LEMMA CastSettles ==
  ASSUME NEW t, NEW v \in Storable
  PROVE  /\ Cast(t, v) \in Storable \/ Cast(t, v) = Refuse
         /\ Cast(t, v) # Refuse => Cast(t, Cast(t, v)) = Cast(t, v)
         /\ Cast(t, None) = None
<1> USE DEF Storable, None, Word, Refuse
<1>1. Cast(t, None) = None
  BY DEF Cast
<1>2. CASE v = None \/ t = "TEXT"
  <2>1. Cast(t, v) = v
    BY <1>2 DEF Cast
  <2> QED
    BY <1>1, <2>1
<1>3. CASE ~(v = None \/ t = "TEXT") /\ v = Word
  <2>1. Cast(t, v) = Refuse
    BY <1>3 DEF Cast
  <2> QED
    BY <1>1, <2>1
<1>4. CASE ~(v = None \/ t = "TEXT") /\ v # Word
  <2>0. v \in Nat
    BY <1>4
  <2>1. CASE t \in {"INT", "BIGINT"} /\ v % 2 = 1
    <3>1. Cast(t, v) = v + 1
      BY <1>4, <2>1 DEF Cast
    <3>2. v + 1 \in Nat /\ ~((v + 1) % 2 = 1)
      BY <2>0, <2>1
    <3>3. v + 1 # None /\ v + 1 # Word
      BY <2>0
    <3>4. Cast(t, v + 1) = v + 1
      BY <1>4, <3>2, <3>3 DEF Cast
    <3> QED
      BY <1>1, <3>1, <3>2, <3>4
  <2>2. CASE ~(t \in {"INT", "BIGINT"} /\ v % 2 = 1)
    <3>1. Cast(t, v) = v
      BY <1>4, <2>2 DEF Cast
    <3> QED
      BY <1>1, <3>1
  <2> QED
    BY <2>1, <2>2
<1> QED
  BY <1>2, <1>3, <1>4

(* A patched document has the column's value in its field, and only there. *)
LEMMA PatchWrites ==
  ASSUME NEW doc \in [Fields -> OneValued], NEW f \in Fields, NEW t, NEW v \in Storable,
         Patched(doc, f, t, v) # NullDoc
  PROVE  /\ Patched(doc, f, t, v) \in [Fields -> OneValued]
         /\ Read(Patched(doc, f, t, v)[f]) = v
         /\ \A g \in Fields \ {f} : Patched(doc, f, t, v)[g] = doc[g]
<1>1. Patched(doc, f, t, v) = [doc EXCEPT ![f] = Wrapped(WrapperOf(t), v)]
  BY DEF Patched
<1>2. WrapperOf(t) \in WrapperNames
  BY WrapperFacts DEF WrapperOf
<1>3. Wrapped(WrapperOf(t), v) \in OneValued /\ Read(Wrapped(WrapperOf(t), v)) = v
  BY <1>2, WrappedValue
<1> QED
  BY <1>1, <1>3

----------------------------------------------------------------------------
(* Triggers                                                                *)

LEMMA ColumnFacts ==
  ASSUME ShownInv, NEW c \in Real
  PROVE  shown[c].field \in Fields /\ shown[c].type \in Types /\ c \in Columns
  BY DEF ShownInv, Real

(* A column written into the document.                                     *)
LEMMA RewriteRow ==
  ASSUME ShownInv, NEW c \in Real, NEW r \in WellRows, Castable(r), NEW s,
         s = Rewrite(r, Patched(r.doc, shown[c].field, shown[c].type, r.col[c])),
         s # Failed
  PROVE  /\ s \in WellRows /\ Castable(s) /\ Agrees(c, s) /\ s.col = r.col
         /\ Read(s.doc[shown[c].field]) = r.col[c]
         /\ \A g \in Fields \ {shown[c].field} : s.doc[g] = r.doc[g]
<1> DEFINE f == shown[c].field
           v == r.col[c]
           doc == Patched(r.doc, f, shown[c].type, v)
<1>1. f \in Fields /\ v \in Storable /\ r.doc \in [Fields -> OneValued]
  BY ColumnFacts DEF WellRows
<1>2. doc # NullDoc /\ s = [r EXCEPT !.doc = doc]
  BY DEF Rewrite
<1>3. /\ doc \in [Fields -> OneValued] /\ Read(doc[f]) = v
      /\ \A g \in Fields \ {f} : doc[g] = r.doc[g]
  BY <1>1, <1>2, PatchWrites
<1> HIDE DEF doc
<1>4. s.doc = doc /\ s.col = r.col /\ s \in WellRows
  BY <1>2, <1>3 DEF WellRows
<1>5. Castable(s)
  BY <1>4 DEF Castable
<1>6. Agrees(c, s)
  BY <1>3, <1>4 DEF Agrees, Castable
<1> QED
  BY <1>3, <1>4, <1>5, <1>6

(* A column read from the document.                                        *)
LEMMA StoreRow ==
  ASSUME ShownInv, NEW c \in Real, NEW r \in WellRows, Castable(r), NEW s,
         Cast(shown[c].type, Read(r.doc[shown[c].field])) # Refuse,
         s = [r EXCEPT !.col[c] = Cast(shown[c].type, Read(r.doc[shown[c].field]))]
  PROVE  /\ s \in WellRows /\ Castable(s) /\ Agrees(c, s) /\ s.doc = r.doc
         /\ \A d \in Real \ {c} : s.col[d] = r.col[d]
<1> DEFINE t == shown[c].type
           x == r.doc[shown[c].field]
           v == Cast(t, Read(x))
<1>1. /\ shown[c].field \in Fields /\ r.doc \in [Fields -> OneValued]
      /\ r.col \in [Real -> Storable]
  BY ColumnFacts DEF WellRows
<1>2. x \in [WrapperNames -> Storable]
  BY <1>1 DEF OneValued
<1>3. Read(x) \in Storable
  BY <1>2, ReadFinds
<1>4. v # Refuse /\ s = [r EXCEPT !.col[c] = v]
  OBVIOUS
<1>5. v \in Storable /\ Cast(t, v) = v
  BY <1>3, <1>4, CastSettles
<1> HIDE DEF v
<1>6. /\ s.doc = r.doc /\ s.col = [r.col EXCEPT ![c] = v]
      /\ s = [doc |-> r.doc, col |-> s.col]
  BY <1>4 DEF WellRows
<1>7. /\ s.col \in [Real -> Storable] /\ s.col[c] = v
      /\ \A d \in Real \ {c} : s.col[d] = r.col[d]
  BY <1>1, <1>5, <1>6
<1>8. s \in WellRows
  BY <1>1, <1>6, <1>7 DEF WellRows
<1>9. Castable(s)
  BY <1>5, <1>7 DEF Castable
<1>10. Agrees(c, s)
  BY <1>6, <1>7 DEF Agrees, v
<1> QED
  BY <1>6, <1>7, <1>8, <1>9, <1>10

(* One trigger: its column and its field agree afterwards, every other     *)
(* column and field is as it was. A column an UPDATE changed keeps its     *)
(* value, one it left alone leaves the document as it is.                  *)
LEMMA FireEffect ==
  ASSUME ShownInv, NEW c \in Real, NEW r \in WellRows, Castable(r), NEW old,
         NEW e \in Events, NEW s, s = Fire(e, old, r, c), s # Failed
  PROVE  /\ s \in WellRows /\ Castable(s) /\ Agrees(c, s)
         /\ \A d \in Real \ {c} : s.col[d] = r.col[d]
         /\ \A g \in Fields \ {shown[c].field} : s.doc[g] = r.doc[g]
         /\ e = "update" /\ r.col[c] # old.col[c] =>
              Read(s.doc[shown[c].field]) = r.col[c]
         /\ e = "update" /\ r.col[c] = old.col[c] => s.doc = r.doc
<1> DEFINE rewritten == Rewrite(r, Patched(r.doc, shown[c].field, shown[c].type, r.col[c]))
           stored == Store(r, c, Cast(shown[c].type, Read(r.doc[shown[c].field])))
<1>0. ASSUME s = stored
      PROVE  /\ Cast(shown[c].type, Read(r.doc[shown[c].field])) # Refuse
             /\ s = [r EXCEPT !.col[c] = Cast(shown[c].type, Read(r.doc[shown[c].field]))]
  BY <1>0 DEF Store
<1>1. /\ s = rewritten \/ s = stored
      /\ e = "update" /\ r.col[c] # old.col[c] => s = rewritten
      /\ e = "update" /\ r.col[c] = old.col[c] => s = stored
  BY DEF Fire, InsertTrigger, UpdateTrigger, Events
<1>2. CASE s = rewritten
  <2>1. /\ s \in WellRows /\ Castable(s) /\ Agrees(c, s) /\ s.col = r.col
        /\ Read(s.doc[shown[c].field]) = r.col[c]
        /\ \A g \in Fields \ {shown[c].field} : s.doc[g] = r.doc[g]
    BY <1>2, RewriteRow
  <2>2. CASE e = "update" /\ r.col[c] = old.col[c]
    BY <1>0, <1>1, <2>1, <2>2, StoreRow
  <2> QED
    BY <2>1, <2>2
<1>3. CASE s = stored
  <2>1. /\ s \in WellRows /\ Castable(s) /\ Agrees(c, s) /\ s.doc = r.doc
        /\ \A d \in Real \ {c} : s.col[d] = r.col[d]
    BY <1>0, <1>3, StoreRow
  <2>2. CASE e = "update" /\ r.col[c] # old.col[c]
    BY <1>1, <2>1, <2>2, RewriteRow
  <2> QED
    BY <2>1, <2>2
<1> QED
  BY <1>1, <1>2, <1>3

(* The triggers' run, step by step.                                        *)
Stepwise(run, e, old, new, n) ==
  run = [k \in 0..n |->
           IF k = 0 THEN new ELSE Fire(e, old, run[k - 1], before[e][k].col)]

LEMMA RunExists ==
  ASSUME NEW e, NEW old, NEW new, NEW n \in Nat
  PROVE  \E run : Stepwise(run, e, old, new, n)
<1> DEFINE S == {m \in Nat : ~\E run : Stepwise(run, e, old, new, m)}
<1> SUFFICES ASSUME S # {} PROVE FALSE
  OBVIOUS
<1>1. PICK m \in S : \A x \in S : m <= x
  BY LeastNatural, S \subseteq Nat
<1>2. CASE m = 0
  <2>1. Stepwise([k \in 0..0 |-> new], e, old, new, 0)
    BY DEF Stepwise
  <2> QED
    BY <1>1, <1>2, <2>1
<1>3. CASE m # 0
  <2>1. m - 1 \in Nat /\ m - 1 \notin S
    BY <1>1, <1>3
  <2>2. PICK run : Stepwise(run, e, old, new, m - 1)
    BY <2>1
  <2> DEFINE longer == [k \in 0..m |-> IF k = m THEN Fire(e, old, run[m - 1], before[e][m].col)
                                                ELSE run[k]]
  <2>3. ASSUME NEW k \in 0..m
        PROVE  longer[k] = IF k = 0 THEN new ELSE Fire(e, old, longer[k - 1], before[e][k].col)
    BY <1>1, <1>3, <2>1, <2>2 DEF Stepwise
  <2>4. Stepwise(longer, e, old, new, m)
    BY <2>3 DEF Stepwise
  <2> QED
    BY <1>1, <2>4
<1> QED
  BY <1>2, <1>3

LEMMA RunIsStepwise ==
  ASSUME NEW e, NEW old, NEW new, Len(before[e]) \in Nat
  PROVE  \E run : /\ Stepwise(run, e, old, new, Len(before[e]))
                  /\ RunBefore(e, old, new) = run[Len(before[e])]
<1> DEFINE n == Len(before[e])
           run == CHOOSE f : f = [k \in 0..n |->
                    IF k = 0 THEN new ELSE Fire(e, old, f[k - 1], before[e][k].col)]
<1>1. Stepwise(run, e, old, new, n)
  <2>1. \E f : Stepwise(f, e, old, new, n)
    BY RunExists
  <2>2. run = CHOOSE f : Stepwise(f, e, old, new, n)
    BY DEF Stepwise
  <2> HIDE DEF run
  <2> QED
    BY <2>1, <2>2, Zenon
<1>2. RunBefore(e, old, new) = run[n]
  BY DEF RunBefore
<1> QED
  BY <1>1, <1>2, Zenon

(* The trigger of column c is among the first k.                           *)
Done(e, k, c) == \E j \in 1..k : before[e][j].col = c

(* What holds of the row after the first k triggers: it is well formed,    *)
(* columns whose trigger ran agree with their fields; in an UPDATE a       *)
(* changed column has reached its field and other fields are untouched.    *)
Stage(e, old, new, r, k) ==
  r # Failed =>
    /\ r \in WellRows /\ Castable(r)
    /\ \A c \in Real : Apart(c) /\ (Agrees(c, new) \/ Done(e, k, c)) => Agrees(c, r)
    /\ e = "update" /\ (\A c \in Real : Apart(c)) =>
         /\ \A c \in Real : ~Done(e, k, c) => r.col[c] = new.col[c]
         /\ \A c \in Real : Done(e, k, c) /\ new.col[c] # old.col[c] =>
              Read(r.doc[shown[c].field]) = new.col[c]
         /\ \A f \in Fields :
              (\A c \in Real : shown[c].field = f /\ Done(e, k, c) => new.col[c] = old.col[c])
              => r.doc[f] = new.doc[f]

LEMMA StageStep ==
  ASSUME ShownInv, TriggerInv, NEW e \in Events, NEW old, NEW new, NEW r,
         NEW k \in Nat, k < Len(before[e]), Stage(e, old, new, r, k)
  PROVE  Stage(e, old, new, Fire(e, old, r, before[e][k + 1].col), k + 1)
<1> DEFINE d == before[e][k + 1].col
           s == Fire(e, old, r, d)
<1> SUFFICES ASSUME s # Failed PROVE Stage(e, old, new, s, k + 1)
  BY DEF Stage
<1>1. r # Failed
  BY DEF Fire
<1>2. Len(before[e]) \in Nat
  BY DEF TriggerInv
<1>3. k + 1 \in 1..Len(before[e])
  BY <1>2
<1>4. d \in Real
  BY <1>3 DEF TriggerInv
<1>5. ~Done(e, k, d)
  <2> SUFFICES ASSUME NEW j \in 1..k, before[e][j].col = d PROVE FALSE
    BY DEF Done
  <2>1. j \in 1..Len(before[e]) /\ j # k + 1
    BY <1>2
  <2>2. before[e] \in Seq(Triggers)
    BY DEF TriggerInv
  <2>3. before[e][j] \in Triggers /\ before[e][k + 1] \in Triggers
    BY <1>3, <2>1, <2>2
  <2>4. before[e][j].stem = before[e][k + 1].stem
    <3>1. \A x \in Triggers : x.stem = Stem[x.col]
      BY DEF Triggers
    <3> QED
      BY <2>3, <3>1
  <2> QED
    BY <1>3, <2>1, <2>4 DEF TriggerInv
<1>6. \A c : Done(e, k + 1, c) <=> Done(e, k, c) \/ c = d
  <2>1. \A j : j \in 1..(k + 1) <=> j \in 1..k \/ j = k + 1
    OBVIOUS
  <2> QED
    BY <2>1 DEF Done
<1> HIDE DEF d
<1>7. r \in WellRows /\ Castable(r)
  BY <1>1 DEF Stage
<1>8. /\ s \in WellRows /\ Castable(s) /\ Agrees(d, s)
      /\ \A c \in Real \ {d} : s.col[c] = r.col[c]
      /\ \A g \in Fields \ {shown[d].field} : s.doc[g] = r.doc[g]
      /\ e = "update" /\ r.col[d] # old.col[d] => Read(s.doc[shown[d].field]) = r.col[d]
      /\ e = "update" /\ r.col[d] = old.col[d] => s.doc = r.doc
  BY <1>4, <1>7, FireEffect
<1> HIDE DEF s
<1>9. \A c \in Real : shown[c].field \in Fields
  BY ColumnFacts
<1>10. ASSUME NEW c \in Real, Apart(c), Agrees(c, new) \/ Done(e, k + 1, c)
       PROVE  Agrees(c, s)
  <2>1. CASE c = d
    BY <1>8, <2>1
  <2>2. CASE c # d
    <3>1. Agrees(c, r)
      BY <1>1, <1>6, <1>10, <2>2 DEF Stage
    <3>2. shown[c].field # shown[d].field
      BY <1>4, <1>10, <2>2 DEF Apart
    <3>3. s.col[c] = r.col[c] /\ s.doc[shown[c].field] = r.doc[shown[c].field]
      BY <1>8, <1>9, <2>2, <3>2
    <3> QED
      BY <3>1, <3>3 DEF Agrees
  <2> QED
    BY <2>1, <2>2
<1>11. ASSUME e = "update", \A c \in Real : Apart(c)
       PROVE  /\ \A c \in Real : ~Done(e, k + 1, c) => s.col[c] = new.col[c]
              /\ \A c \in Real : Done(e, k + 1, c) /\ new.col[c] # old.col[c] =>
                   Read(s.doc[shown[c].field]) = new.col[c]
              /\ \A f \in Fields :
                   (\A c \in Real : shown[c].field = f /\ Done(e, k + 1, c) =>
                      new.col[c] = old.col[c])
                   => s.doc[f] = new.doc[f]
  <2>1. /\ \A c \in Real : ~Done(e, k, c) => r.col[c] = new.col[c]
        /\ \A c \in Real : Done(e, k, c) /\ new.col[c] # old.col[c] =>
             Read(r.doc[shown[c].field]) = new.col[c]
        /\ \A f \in Fields :
             (\A c \in Real : shown[c].field = f /\ Done(e, k, c) => new.col[c] = old.col[c])
             => r.doc[f] = new.doc[f]
    BY <1>1, <1>11 DEF Stage
  <2>2. r.col[d] = new.col[d]
    BY <1>4, <1>5, <2>1
  <2>3. \A c \in Real \ {d} : shown[c].field # shown[d].field
    BY <1>4, <1>11 DEF Apart
  <2>4. \A c \in Real : ~Done(e, k + 1, c) => s.col[c] = new.col[c]
    BY <1>6, <1>8, <2>1
  <2>5. ASSUME NEW c \in Real, Done(e, k + 1, c), new.col[c] # old.col[c]
        PROVE  Read(s.doc[shown[c].field]) = new.col[c]
    <3>1. CASE c = d
      BY <1>8, <1>11, <2>2, <2>5, <3>1
    <3>2. CASE c # d
      <4>1. s.doc[shown[c].field] = r.doc[shown[c].field]
        BY <1>8, <1>9, <2>3, <3>2
      <4> QED
        BY <1>6, <2>1, <2>5, <3>2, <4>1
    <3> QED
      BY <3>1, <3>2
  <2>6. ASSUME NEW f \in Fields,
               \A c \in Real : shown[c].field = f /\ Done(e, k + 1, c) => new.col[c] = old.col[c]
        PROVE  s.doc[f] = new.doc[f]
    <3>1. r.doc[f] = new.doc[f]
      BY <1>6, <2>1, <2>6
    <3>2. CASE f = shown[d].field
      <4>1. new.col[d] = old.col[d]
        BY <1>4, <1>6, <2>6, <3>2
      <4> QED
        BY <1>8, <1>11, <2>2, <3>1, <4>1
    <3>3. CASE f # shown[d].field
      BY <1>8, <3>1, <3>3
    <3> QED
      BY <3>2, <3>3
  <2> QED
    BY <2>4, <2>5, <2>6
<1> QED
  BY <1>8, <1>10, <1>11 DEF Stage

(* All triggers of a statement, however many: by induction over the list.  *)
LEMMA RunResult ==
  ASSUME ShownInv, TriggerInv, NEW e \in Events, NEW old, NEW new \in WellRows,
         Castable(new)
  PROVE  Stage(e, old, new, RunBefore(e, old, new), Len(before[e]))
<1> DEFINE n == Len(before[e])
<1>1. n \in Nat
  BY DEF TriggerInv
<1>2. PICK run : Stepwise(run, e, old, new, n) /\ RunBefore(e, old, new) = run[n]
  BY <1>1, RunIsStepwise
<1> HIDE DEF n
<1>3. /\ run[0] = new
      /\ \A k \in 1..n : run[k] = Fire(e, old, run[k - 1], before[e][k].col)
  <2>1. \A k \in 0..n :
          run[k] = IF k = 0 THEN new ELSE Fire(e, old, run[k - 1], before[e][k].col)
    BY <1>2 DEF Stepwise
  <2>2. 0 \in 0..n /\ \A k \in 1..n : k \in 0..n /\ k # 0
    BY <1>1
  <2> QED
    BY <2>1, <2>2
<1> DEFINE S == {k \in Nat : k <= n /\ ~Stage(e, old, new, run[k], k)}
<1>4. S = {}
  <2> SUFFICES ASSUME S # {} PROVE FALSE
    OBVIOUS
  <2>1. PICK m \in S : \A x \in S : m <= x
    BY LeastNatural, S \subseteq Nat
  <2>2. CASE m = 0
    <3>1. \A c : ~Done(e, 0, c)
      BY DEF Done
    <3>2. Stage(e, old, new, new, 0)
      BY <3>1 DEF Stage
    <3> QED
      BY <1>3, <2>1, <2>2, <3>2
  <2>3. CASE m # 0
    <3>1. m - 1 \in Nat /\ m - 1 < n /\ m - 1 \notin S /\ m \in 1..n
      BY <1>1, <2>1, <2>3
    <3>2. Stage(e, old, new, run[m - 1], m - 1)
      BY <1>1, <3>1
    <3>3. Stage(e, old, new, Fire(e, old, run[m - 1], before[e][(m - 1) + 1].col), (m - 1) + 1)
      BY <3>1, <3>2, StageStep DEF n
    <3>4. (m - 1) + 1 = m
      BY <2>1
    <3> QED
      BY <1>3, <2>1, <3>1, <3>3, <3>4
  <2> QED
    BY <2>2, <2>3
<1>5. Stage(e, old, new, run[n], n)
  BY <1>1, <1>4
<1> QED
  BY <1>2, <1>5 DEF n

----------------------------------------------------------------------------
(* CREATE OR REPLACE TRIGGER                                               *)

(* at enumerates the positions of a list of length n other than i.         *)
Enumerates(at, n, i) ==
  /\ at \in [1..n - 1 -> 1..n]
  /\ \A j \in 1..n - 1 : at[j] # i
  /\ \A j, k \in 1..n - 1 : at[j] = at[k] => j = k
  /\ \A k \in 1..n : k # i => \E j \in 1..n - 1 : at[j] = k

LEMMA WithoutEnumerates ==
  ASSUME NEW T, Len(T) \in Nat, NEW i \in 1..Len(T)
  PROVE  \E at : /\ Enumerates(at, Len(T), i)
                 /\ Without(T, i) = [j \in 1..Len(T) - 1 |-> T[at[j]]]
<1> DEFINE n == Len(T)
           at == [j \in 1..n - 1 |-> IF j < i THEN j ELSE j + 1]
<1>0. n \in Nat /\ i \in 1..n /\ Len(T) = n
  OBVIOUS
<1> HIDE DEF n
<1>1. at \in [1..n - 1 -> 1..n]
  BY <1>0
<1>2. \A j \in 1..n - 1 : at[j] # i
  BY <1>0
<1>3. \A j, k \in 1..n - 1 : at[j] = at[k] => j = k
  BY <1>0
<1>4. ASSUME NEW k \in 1..n, k # i PROVE \E j \in 1..n - 1 : at[j] = k
  <2>1. CASE k < i
    <3>1. k \in 1..n - 1 /\ at[k] = k
      BY <1>0, <2>1
    <3> QED
      BY <3>1
  <2>2. CASE ~(k < i)
    <3>1. k - 1 \in 1..n - 1
      BY <1>0, <1>4, <2>2
    <3>2. at[k - 1] = k
      BY <1>0, <1>4, <2>2, <3>1
    <3> QED
      BY <3>1, <3>2
  <2> QED
    BY <2>1, <2>2
<1>5. Without(T, i) = [j \in 1..n - 1 |-> T[at[j]]]
  BY <1>0 DEF Without
<1> HIDE DEF at
<1>6. Enumerates(at, n, i)
  BY <1>1, <1>2, <1>3, <1>4 DEF Enumerates
<1> QED
  BY <1>5, <1>6, Zenon DEF n

(* R is the list T but for its trigger of name st; names are distinct.     *)
RestOf(R, T, st) ==
  /\ R \in Seq(Triggers)
  /\ \A j \in 1..Len(R) : R[j].stem # st /\ \E k \in 1..Len(T) : R[j] = T[k]
  /\ \A j, k \in 1..Len(R) : R[j].stem = R[k].stem => j = k
  /\ \A k \in 1..Len(T) : T[k].stem # st => \E j \in 1..Len(R) : R[j] = T[k]

LEMMA RestOfTriggers ==
  ASSUME NEW T \in Seq(Triggers), NEW i \in 1..Len(T),
         \A j, k \in 1..Len(T) : T[j].stem = T[k].stem => j = k
  PROVE  RestOf(Without(T, i), T, T[i].stem)
<1> DEFINE n == Len(T)
           R == Without(T, i)
<1>1. n \in Nat /\ T \in [1..n -> Triggers] /\ n - 1 \in Nat
  OBVIOUS
<1>2. i \in 1..n /\ \A j, k \in 1..n : T[j].stem = T[k].stem => j = k
  OBVIOUS
<1>3. PICK at : Enumerates(at, n, i) /\ R = [j \in 1..n - 1 |-> T[at[j]]]
  BY <1>1, WithoutEnumerates
<1> HIDE DEF n, R
<1>4. /\ at \in [1..n - 1 -> 1..n]
      /\ \A j \in 1..n - 1 : at[j] # i
      /\ \A j, k \in 1..n - 1 : at[j] = at[k] => j = k
      /\ \A k \in 1..n : k # i => \E j \in 1..n - 1 : at[j] = k
  BY <1>3 DEF Enumerates
<1>5. /\ R \in [1..n - 1 -> Triggers]
      /\ \A j \in 1..n - 1 : at[j] \in 1..n /\ R[j] = T[at[j]]
  BY <1>3, <1>1, <1>4
<1>6. R \in Seq(Triggers) /\ Len(R) = n - 1
  BY <1>1, <1>5
<1>7. ASSUME NEW j \in 1..n - 1
      PROVE  R[j].stem # T[i].stem /\ \E k \in 1..n : R[j] = T[k]
  <2>1. at[j] \in 1..n /\ at[j] # i /\ R[j] = T[at[j]]
    BY <1>4, <1>5
  <2>2. T[at[j]].stem # T[i].stem
    BY <1>2, <2>1
  <2> QED
    BY <2>1, <2>2
<1>8. ASSUME NEW j \in 1..n - 1, NEW k \in 1..n - 1, R[j].stem = R[k].stem PROVE j = k
  <2>1. at[j] \in 1..n /\ at[k] \in 1..n /\ T[at[j]].stem = T[at[k]].stem
    BY <1>5, <1>8
  <2>2. at[j] = at[k]
    BY <1>2, <2>1
  <2> QED
    BY <1>4, <2>2
<1>9. ASSUME NEW k \in 1..n, T[k].stem # T[i].stem PROVE \E j \in 1..n - 1 : R[j] = T[k]
  <2>1. PICK j \in 1..n - 1 : at[j] = k
    BY <1>4, <1>9
  <2> QED
    BY <1>5, <2>1
<1> QED
  <2>1. 1..Len(R) = 1..n - 1 /\ 1..Len(T) = 1..n
    BY <1>6 DEF n
  <2>2. ASSUME NEW j \in 1..Len(R)
        PROVE  R[j].stem # T[i].stem /\ \E k \in 1..Len(T) : R[j] = T[k]
    BY <1>7, <2>1
  <2>3. ASSUME NEW j \in 1..Len(R), NEW k \in 1..Len(R), R[j].stem = R[k].stem PROVE j = k
    BY <1>8, <2>1, <2>3
  <2>4. ASSUME NEW k \in 1..Len(T), T[k].stem # T[i].stem
        PROVE  \E j \in 1..Len(R) : R[j] = T[k]
    BY <1>9, <2>1, <2>4
  <2> QED
    BY <1>6, <2>2, <2>3, <2>4 DEF RestOf, R

(* CREATE OR REPLACE TRIGGER takes away only the trigger of that name.     *)
LEMMA AddTriggerEffect ==
  ASSUME ShownInv, TriggerInv, CallInv, call.step \in PastAlter, UNCHANGED shown,
         NEW e \in Events, AddTrigger(e)
  PROVE  /\ TriggerInv'
         /\ \A x \in Events \ {e} : before'[x] = before[x]
         /\ \A d \in Columns :
              d = call.col \/ (Stem[d] # Stem[call.col] /\ HasTrigger(e, d)) => HasTrigger(e, d)'
<1> DEFINE T == before[e]
           st == Stem[call.col]
           same == {k \in 1..Len(T) : T[k].stem = st}
           i == CHOOSE k \in same : TRUE
           R == IF same = {} THEN T ELSE Without(T, i)
           new == [stem |-> st, col |-> call.col]
           A == Append(R, new)
<1>1. /\ T \in Seq(Triggers) /\ before \in [Events -> Seq(Triggers)]
      /\ \A j, k \in 1..Len(T) : T[j].stem = T[k].stem => j = k
      /\ \A k \in 1..Len(T) : T[k].col \in Real
  BY DEF TriggerInv
<1>2. before' = [before EXCEPT ![e] = A]
  BY DEF AddTrigger
<1>3. call.col \in Real /\ call.col \in Columns
  BY DEF CallInv, ShownInv, Real
<1>4. new \in Triggers /\ new.stem = st /\ new.col = call.col
  BY <1>3 DEF Triggers
<1> HIDE DEF T, st, new
<1>5. RestOf(R, T, st)
  <2>1. CASE same = {}
    <3>1. R = T /\ \A k \in 1..Len(T) : T[k].stem # st
      BY <2>1
    <3> HIDE DEF R
    <3> QED
      BY <1>1, <3>1 DEF RestOf
  <2>2. CASE same # {}
    <3>1. i \in same
      BY <2>2
    <3>2. R = Without(T, i)
      BY <2>2
    <3> HIDE DEF i
    <3>3. i \in 1..Len(T) /\ T[i].stem = st
      BY <3>1
    <3>4. RestOf(Without(T, i), T, T[i].stem)
      BY <1>1, <3>3, RestOfTriggers
    <3> HIDE DEF R, same
    <3> QED
      BY <3>2, <3>3, <3>4
  <2> QED
    BY <2>1, <2>2
<1> HIDE DEF R, same
<1>6. /\ R \in Seq(Triggers)
      /\ \A j \in 1..Len(R) : R[j].stem # st /\ \E k \in 1..Len(T) : R[j] = T[k]
      /\ \A j, k \in 1..Len(R) : R[j].stem = R[k].stem => j = k
      /\ \A k \in 1..Len(T) : T[k].stem # st => \E j \in 1..Len(R) : R[j] = T[k]
  BY <1>5 DEF RestOf
<1>7. Len(R) \in Nat
  BY <1>6
<1>8. /\ A \in Seq(Triggers) /\ Len(A) = Len(R) + 1
      /\ \A j \in 1..Len(R) : A[j] = R[j]
      /\ A[Len(R) + 1] = new
  BY <1>6, <1>4, <1>7
<1> HIDE DEF A
<1>9. \A j : j \in 1..Len(A) <=> j \in 1..Len(R) \/ j = Len(R) + 1
  BY <1>7, <1>8
<1>10. before' \in [Events -> Seq(Triggers)] /\ before'[e] = A
      /\ \A x \in Events \ {e} : before'[x] = before[x]
  BY <1>1, <1>2, <1>8
<1>11. Real' = Real
  BY DEF Real
<1>12. ASSUME NEW k \in 1..Len(A) PROVE A[k].col \in Real
  <2>1. CASE k = Len(R) + 1
    BY <1>3, <1>4, <1>8, <2>1
  <2>2. CASE k \in 1..Len(R)
    <3>1. PICK j \in 1..Len(T) : R[k] = T[j]
      BY <1>6, <2>2
    <3> QED
      BY <1>1, <1>8, <2>2, <3>1
  <2> QED
    BY <1>9, <2>1, <2>2
<1>13. ASSUME NEW j \in 1..Len(A), NEW k \in 1..Len(A), A[j].stem = A[k].stem PROVE j = k
  <2>1. \A x \in 1..Len(R) : A[x] = R[x] /\ A[x].stem # st
    BY <1>6, <1>8
  <2>2. A[Len(R) + 1].stem = st
    BY <1>4, <1>8
  <2>3. CASE j \in 1..Len(R) /\ k \in 1..Len(R)
    <3>1. R[j].stem = R[k].stem
      BY <1>13, <2>1, <2>3
    <3> QED
      BY <1>6, <2>3, <3>1
  <2>4. CASE j = Len(R) + 1
    BY <1>9, <1>13, <2>1, <2>2, <2>4
  <2>5. CASE k = Len(R) + 1
    BY <1>9, <1>13, <2>1, <2>2, <2>5
  <2> QED
    BY <1>9, <2>3, <2>4, <2>5
<1>14. TriggerInv'
  <2> SUFFICES ASSUME NEW x \in Events, NEW j \in 1..Len(before'[x]), NEW k \in 1..Len(before'[x])
               PROVE  /\ before'[x][k].col \in Real
                      /\ before'[x][j].stem = before'[x][k].stem => j = k
    BY <1>10, <1>11 DEF TriggerInv
  <2>1. CASE x = e
    BY <1>10, <1>12, <1>13, <2>1
  <2>2. CASE x # e
    BY <1>10, <2>2 DEF TriggerInv
  <2> QED
    BY <2>1, <2>2
<1>15. ASSUME NEW d \in Columns, d = call.col PROVE HasTrigger(e, d)'
  <2>1. Len(R) + 1 \in 1..Len(before'[e]) /\ before'[e][Len(R) + 1].col = d
    BY <1>4, <1>8, <1>9, <1>10, <1>15
  <2> QED
    BY <2>1 DEF HasTrigger
<1>16. ASSUME NEW d \in Columns, Stem[d] # st, HasTrigger(e, d) PROVE HasTrigger(e, d)'
  <2>1. PICK k \in 1..Len(T) : T[k].col = d
    BY <1>16 DEF HasTrigger, T
  <2>2. T[k].stem # st
    <3>1. T[k] \in Triggers
      BY <1>1, <2>1
    <3>2. \A x \in Triggers : x.stem = Stem[x.col]
      BY DEF Triggers
    <3> QED
      BY <1>16, <2>1, <3>1, <3>2
  <2>3. PICK j \in 1..Len(R) : R[j] = T[k]
    BY <1>6, <2>1, <2>2
  <2>4. j \in 1..Len(A) /\ A[j].col = d
    BY <1>8, <1>9, <2>1, <2>3
  <2> QED
    BY <1>10, <2>4 DEF HasTrigger
<1> QED
  BY <1>10, <1>14, <1>15, <1>16 DEF st

----------------------------------------------------------------------------
(* The steps                                                               *)

(* What a client may ask for is well formed.                               *)
LEMMA StatementsWell ==
  ASSUME ShownInv, NEW asked \in Statements
  PROVE  asked \in WellRows /\ Castable(asked)
<1>1. \A x \in Contents : x \in OneValued
  <2> SUFFICES ASSUME NEW x \in Contents PROVE x \in OneValued
    OBVIOUS
  <2>1. CASE x = Absent
    BY <2>1 DEF Absent, OneValued, Storable
  <2>2. CASE x # Absent
    <3>1. PICK s \in Scalars : x = Wrapped(s[1], s[2])
      BY <2>2 DEF Contents
    <3>2. s[1] \in WrapperNames /\ s[2] \in Storable
      BY ProjectionAssumption DEF Storable
    <3> QED
      BY <3>1, <3>2, WrappedValue
  <2> QED
    BY <2>1, <2>2
<1>2. Values \cup {None} \subseteq Storable
  BY ProjectionAssumption DEF Storable
<1>3. /\ asked \in [doc : Documents, col : [Real -> Values \cup {None}]]
      /\ \A c \in Real : Cast(shown[c].type, asked.col[c]) = asked.col[c]
  BY DEF Statements
<1>4. asked.doc \in [Fields -> OneValued]
  BY <1>1, <1>3 DEF Documents
<1>5. asked.col \in [Real -> Storable]
  BY <1>2, <1>3
<1> QED
  BY <1>3, <1>4, <1>5 DEF WellRows, Castable

(* While the table's columns stay, so does what is said in terms of them.  *)
LEMMA SameColumns ==
  ASSUME UNCHANGED shown
  PROVE  /\ Real' = Real /\ WellRows' = WellRows
         /\ \A c : Apart(c)' <=> Apart(c)
<1>1. Real' = Real
  BY DEF Real
<1> QED
  BY <1>1 DEF WellRows, Apart

LEMMA SameTriggers ==
  ASSUME TriggerInv, UNCHANGED <<shown, before>>
  PROVE  TriggerInv' /\ \A e, c : HasTrigger(e, c)' <=> HasTrigger(e, c)
<1>1. Real' = Real /\ before' = before
  BY SameColumns
<1>2. TriggerInv'
  BY <1>1 DEF TriggerInv
<1>3. \A e, c : HasTrigger(e, c)' <=> HasTrigger(e, c)
  BY <1>1 DEF HasTrigger
<1> QED
  BY <1>2, <1>3

LEMMA WriteStep ==
  ASSUME ProjectionInd, NEW e \in Events, NEW asked \in Statements, Write(e, asked)
  PROVE  ProjectionInd'
<1> DEFINE after == RunBefore(e, row, asked)
           n == Len(before[e])
<1>1. /\ after # Failed /\ row' = after /\ mirrored' = after.doc
      /\ raced' = (raced \/ call.step \in {"insert trigger", "update trigger"})
      /\ UNCHANGED <<meta, shown, before, call, calls, whole>>
  BY DEF Write, Mirror
<1>2. /\ ShownInv /\ RowInv /\ CallInv /\ TriggerInv /\ InstalledInv /\ AgreeInv
  BY DEF ProjectionInd
<1>3. Stage(e, row, asked, after, n)
  BY <1>2, StatementsWell, RunResult
<1> HIDE DEF after
<1>4. /\ after \in WellRows /\ Castable(after)
      /\ \A c \in Real : Apart(c) /\ Done(e, n, c) => Agrees(c, after)
  BY <1>1, <1>3 DEF Stage
<1>5. \A c : HasTrigger(e, c) <=> Done(e, n, c)
  BY DEF HasTrigger, Done
<1> HIDE DEF n
<1>6. /\ Real' = Real /\ WellRows' = WellRows
      /\ \A c : Apart(c)' <=> Apart(c)
  BY <1>1, SameColumns
<1>7. ShownInv'
  BY <1>1, <1>2 DEF ShownInv
<1>8. RowInv'
  <2>1. Castable(row)'
    BY <1>1, <1>4, <1>6 DEF Castable
  <2> QED
    BY <1>1, <1>4, <1>6, <2>1 DEF RowInv
<1>9. CallInv'
  BY <1>1, <1>2, <1>6 DEF CallInv
<1>10. TriggerInv' /\ \A x, c : HasTrigger(x, c)' <=> HasTrigger(x, c)
  BY <1>1, <1>2, SameTriggers
<1>11. InstalledInv'
  <2>1. ASSUME NEW c \in whole' \cap Real', Apart(c)' PROVE \A x \in Events : HasTrigger(x, c)'
    BY <1>1, <1>2, <1>6, <1>10, <2>1 DEF InstalledInv
  <2>2. call'.step = "update trigger" => HasTrigger("insert", call.col)'
    BY <1>1, <1>2 DEF InstalledInv, HasTrigger
  <2> QED
    BY <1>1, <2>1, <2>2 DEF InstalledInv
<1>12. AgreeInv'
  <2> SUFFICES ASSUME row' # NoRow, ~raced', NEW c \in Real', Apart(c)',
                      c \in whole' \/ (call'.step \in {"insert trigger", "update trigger"}
                                       /\ c = call'.col)
               PROVE  Agrees(c, row)'
    BY DEF AgreeInv
  <2>1. c \in whole /\ c \in Real /\ Apart(c)
    BY <1>1, <1>6
  <2>2. HasTrigger(e, c)
    BY <1>2, <2>1 DEF InstalledInv
  <2>3. Agrees(c, after)
    BY <1>4, <1>5, <2>1, <2>2
  <2> QED
    BY <1>1, <2>3 DEF Agrees
<1> QED
  BY <1>7, <1>8, <1>9, <1>10, <1>11, <1>12 DEF ProjectionInd

(* Steps that leave the columns, the triggers and the list of installed    *)
(* columns alone keep what is said of those.                               *)
LEMMA QuietStep ==
  ASSUME ProjectionInd, UNCHANGED <<shown, before, whole, raced>>,
         DOMAIN meta' \subseteq Columns, call'.step = "update trigger" => UNCHANGED call
  PROVE  ShownInv' /\ TriggerInv' /\ InstalledInv'
<1>1. /\ Real' = Real /\ \A c : Apart(c)' <=> Apart(c)
  BY SameColumns
<1>2. ShownInv'
  BY DEF ShownInv, ProjectionInd
<1>3. TriggerInv' /\ \A x, c : HasTrigger(x, c)' <=> HasTrigger(x, c)
  BY SameTriggers DEF ProjectionInd
<1>4. InstalledInv'
  <2>1. ASSUME NEW c \in whole' \cap Real', Apart(c)' PROVE \A x \in Events : HasTrigger(x, c)'
    BY <1>1, <1>3, <2>1 DEF InstalledInv, ProjectionInd
  <2>2. ASSUME call'.step = "update trigger" PROVE HasTrigger("insert", call.col)'
    BY <2>2 DEF InstalledInv, HasTrigger, ProjectionInd
  <2> QED
    BY <2>1, <2>2 DEF InstalledInv
<1> QED
  BY <1>2, <1>3, <1>4

LEMMA SameRow ==
  ASSUME RowInv, UNCHANGED <<shown, row, mirrored>>
  PROVE  RowInv'
<1>1. Real' = Real /\ WellRows' = WellRows
  BY SameColumns
<1>2. ASSUME Castable(row) PROVE Castable(row)'
  BY <1>1, <1>2 DEF Castable
<1> QED
  BY <1>1, <1>2 DEF RowInv

LEMMA RemoveRowStep ==
  ASSUME ProjectionInd, RemoveRow
  PROVE  ProjectionInd'
<1>1. /\ row' = NoRow /\ UNCHANGED <<meta, shown, before, call, calls, whole, raced>>
  BY DEF RemoveRow
<1>2. ShownInv' /\ TriggerInv' /\ InstalledInv'
  <2>1. DOMAIN meta' \subseteq Columns
    BY <1>1 DEF ProjectionInd, ShownInv
  <2> QED
    BY <1>1, <2>1, QuietStep
<1>3. RowInv' /\ AgreeInv'
  BY <1>1 DEF RowInv, AgreeInv
<1>4. CallInv'
  BY <1>1, SameColumns DEF CallInv, ProjectionInd
<1> QED
  BY <1>2, <1>3, <1>4 DEF ProjectionInd

LEMMA RecordStep ==
  ASSUME ProjectionInd, NEW f \in Fields, NEW c \in Columns, NEW t \in Types, NEW m \in Modes,
         RecordProjection(f, c, t, m)
  PROVE  ProjectionInd'
<1>1. /\ call = NoCall
      /\ meta' = Extend(meta, c, [field |-> f, mode |-> m])
      /\ call' = [step |-> "column", field |-> f, col |-> c, type |-> t, mode |-> m]
      /\ UNCHANGED <<shown, before, row, mirrored, whole, raced>>
  BY DEF RecordProjection
<1>2. ShownInv' /\ TriggerInv' /\ InstalledInv'
  <2>1. DOMAIN meta' \subseteq Columns
    BY <1>1 DEF ProjectionInd, ShownInv, Extend
  <2> QED
    BY <1>1, <2>1, QuietStep
<1>3. RowInv'
  BY <1>1, SameRow DEF ProjectionInd
<1>4. CallInv'
  BY <1>1 DEF CallInv, PastAlter
<1>5. AgreeInv'
  BY <1>1, SameColumns DEF AgreeInv, Agrees, ProjectionInd
<1> QED
  BY <1>2, <1>3, <1>4, <1>5 DEF ProjectionInd

LEMMA FailsStep ==
  ASSUME ProjectionInd, Fails
  PROVE  ProjectionInd'
<1>1. /\ call' = NoCall
      /\ UNCHANGED <<meta, shown, before, row, mirrored, calls, whole, raced>>
  BY DEF Fails
<1>2. ShownInv' /\ TriggerInv' /\ InstalledInv'
  <2>1. DOMAIN meta' \subseteq Columns
    BY <1>1 DEF ProjectionInd, ShownInv
  <2> QED
    BY <1>1, <2>1, QuietStep DEF NoCall
<1>3. RowInv'
  BY <1>1, SameRow DEF ProjectionInd
<1>4. CallInv'
  BY <1>1 DEF CallInv, NoCall, PastAlter
<1>5. AgreeInv'
  BY <1>1, SameColumns DEF AgreeInv, Agrees, ProjectionInd, NoCall
<1> QED
  BY <1>2, <1>3, <1>4, <1>5 DEF ProjectionInd

LEMMA BackfillStep ==
  ASSUME ProjectionInd, Backfill
  PROVE  ProjectionInd'
<1> DEFINE c == call.col
           value == Cast(call.type, Read(row.doc[call.field]))
           new == [row EXCEPT !.col[c] = value]
           after == RunBefore("update", row, new)
           n == Len(before["update"])
<1>1. /\ call.step = "backfill" /\ call' = [call EXCEPT !.step = "insert trigger"]
      /\ UNCHANGED <<meta, shown, before, calls, whole, raced>>
      /\ row = NoRow => UNCHANGED <<row, mirrored>>
      /\ row # NoRow => value # Refuse /\ after # Failed /\ row' = after /\ mirrored' = after.doc
  BY DEF Backfill, Go, Mirror
<1>2. /\ ShownInv /\ RowInv /\ CallInv /\ TriggerInv /\ InstalledInv /\ AgreeInv
  BY DEF ProjectionInd
<1>3. /\ c \in Real /\ shown[c].field = call.field /\ shown[c].type = call.type
  BY <1>1, <1>2 DEF CallInv, PastAlter
<1>4. call # NoCall
  <2>1. NoCall.step = "none" /\ call.step = "backfill"
    BY <1>1 DEF NoCall
  <2> QED
    BY <2>1
<1>5. /\ Real' = Real /\ WellRows' = WellRows
      /\ \A d : Apart(d)' <=> Apart(d)
  BY <1>1, SameColumns
<1>6. call \in [step : PastAlter \cup {"column"}, field : Fields, col : Columns,
                type : Types, mode : Modes]
  BY <1>2, <1>4 DEF CallInv
<1>7. /\ call'.step = "insert trigger" /\ call'.col = c
      /\ call'.field = call.field /\ call'.type = call.type
      /\ call' \in [step : PastAlter \cup {"column"}, field : Fields, col : Columns,
                    type : Types, mode : Modes]
  BY <1>1, <1>6 DEF PastAlter
<1>8. CallInv'
  <2>1. c \in Real' /\ shown'[c].field = call'.field /\ shown'[c].type = call'.type
    BY <1>1, <1>3, <1>5, <1>7
  <2> QED
    BY <1>7, <2>1 DEF CallInv
<1>9. ShownInv' /\ TriggerInv' /\ InstalledInv'
  <2>1. DOMAIN meta' \subseteq Columns
    BY <1>1, <1>2 DEF ShownInv
  <2> QED
    BY <1>1, <1>7, <2>1, QuietStep
<1>10. CASE row = NoRow
  <2>1. RowInv' /\ AgreeInv'
    BY <1>1, <1>10 DEF RowInv, AgreeInv
  <2> QED
    BY <1>8, <1>9, <2>1 DEF ProjectionInd
<1>11. CASE row # NoRow
  <2>1. row \in WellRows /\ Castable(row)
    BY <1>2, <1>11 DEF RowInv
  <2>2. /\ new \in WellRows /\ Castable(new) /\ Agrees(c, new) /\ new.doc = row.doc
        /\ \A d \in Real \ {c} : new.col[d] = row.col[d]
    <3> DEFINE seen == Cast(shown[c].type, Read(row.doc[shown[c].field]))
    <3>1. value = seen
      BY <1>3
    <3>2. seen # Refuse
      BY <1>1, <1>11, <3>1
    <3>3. new = [row EXCEPT !.col[c] = seen]
      BY <3>1
    <3> HIDE DEF new, c, value
    <3> QED
      BY <1>2, <1>3, <2>1, <3>2, <3>3, StoreRow
  <2> HIDE DEF new
  <2>3. Stage("update", row, new, after, n)
    BY <1>2, <2>2, RunResult DEF Events
  <2> HIDE DEF after, value
  <2>4. /\ after \in WellRows /\ Castable(after) /\ row' = after /\ mirrored' = after.doc
        /\ \A d \in Real : Apart(d) /\ Agrees(d, new) => Agrees(d, after)
    BY <1>1, <1>11, <2>3 DEF Stage
  <2>5. RowInv'
    <3>1. Castable(row)'
      BY <1>1, <1>5, <2>4 DEF Castable
    <3> QED
      BY <1>5, <2>4, <3>1 DEF RowInv
  <2>6. AgreeInv'
    <3> SUFFICES ASSUME ~raced', NEW d \in Real', Apart(d)',
                        d \in whole' \/ (call'.step \in {"insert trigger", "update trigger"}
                                         /\ d = call'.col)
                 PROVE  Agrees(d, row)'
      BY DEF AgreeInv
    <3>1. d \in Real /\ Apart(d) /\ ~raced /\ (d = c \/ d \in whole)
      BY <1>1, <1>5, <1>7
    <3>2. Agrees(d, new)
      <4>1. CASE d = c
        BY <2>2, <4>1
      <4>2. CASE d # c
        <5>1. Agrees(d, row)
          BY <1>2, <1>11, <3>1, <4>2 DEF AgreeInv
        <5> QED
          BY <2>2, <3>1, <4>2, <5>1 DEF Agrees
      <4> QED
        BY <4>1, <4>2
    <3>3. Agrees(d, after)
      BY <2>4, <3>1, <3>2
    <3> QED
      BY <1>1, <2>4, <3>3 DEF Agrees
  <2> QED
    BY <1>8, <1>9, <2>5, <2>6 DEF ProjectionInd
<1> QED
  BY <1>10, <1>11

(* The table's columns after ALTER TABLE: those it had, and one more.      *)
LEMMA ColumnAdded ==
  ASSUME ShownInv, NEW c, c \notin DOMAIN shown, NEW p, shown' = Extend(shown, c, p)
  PROVE  /\ DOMAIN shown' = DOMAIN shown \cup {c} /\ shown'[c] = p
         /\ \A d \in DOMAIN shown : shown'[d] = shown[d]
         /\ c \notin Real /\ Real \subseteq DOMAIN shown
         /\ Real' = IF p.mode = "bidirectional" THEN Real \cup {c} ELSE Real
         /\ \A d \in Real : Apart(d)' => Apart(d)
<1>1. /\ DOMAIN shown' = DOMAIN shown \cup {c} /\ shown'[c] = p
      /\ \A d \in DOMAIN shown : shown'[d] = shown[d]
  BY DEF Extend
<1>2. c \notin Real /\ Real \subseteq DOMAIN shown
  BY DEF Real
<1>3. Real' = IF p.mode = "bidirectional" THEN Real \cup {c} ELSE Real
  BY <1>1 DEF Real
<1>4. \A d \in Real : d \in Real' /\ shown'[d] = shown[d]
  BY <1>1, <1>2, <1>3
<1>5. \A d \in Real : Apart(d)' => Apart(d)
  BY <1>4 DEF Apart
<1> QED
  BY <1>1, <1>2, <1>3, <1>5

LEMMA AddColumnStep ==
  ASSUME ProjectionInd, AddColumn
  PROVE  ProjectionInd'
<1> DEFINE c == call.col
           p == [field |-> call.field, type |-> call.type, mode |-> call.mode]
<1>1. /\ call.step = "column" /\ c \notin DOMAIN shown /\ shown' = Extend(shown, c, p)
      /\ UNCHANGED <<meta, before, mirrored, calls, raced>>
      /\ call.mode = "forward" =>
           call' = NoCall /\ whole' = whole \cup {c} /\ UNCHANGED row
      /\ call.mode # "forward" =>
           /\ call' = [call EXCEPT !.step = "backfill"] /\ UNCHANGED whole
           /\ row' = IF row = NoRow THEN row ELSE [row EXCEPT !.col = Extend(@, c, None)]
  BY DEF AddColumn, Go
<1>2. /\ ShownInv /\ RowInv /\ CallInv /\ TriggerInv /\ InstalledInv /\ AgreeInv
  BY DEF ProjectionInd
<1>3. call # NoCall
  <2>1. NoCall.step = "none" /\ call.step = "column"
    BY <1>1 DEF NoCall
  <2> QED
    BY <2>1
<1>4. call \in [step : PastAlter \cup {"column"}, field : Fields, col : Columns,
                type : Types, mode : Modes]
  BY <1>2, <1>3 DEF CallInv
<1>5. /\ c \in Columns /\ p \in [field : Fields, type : Types, mode : Modes]
      /\ p.mode = call.mode /\ p.field = call.field /\ p.type = call.type
      /\ call.mode \in Modes
  BY <1>4
<1> HIDE DEF p
<1>6. /\ DOMAIN shown' = DOMAIN shown \cup {c} /\ shown'[c] = p
      /\ \A d \in DOMAIN shown : shown'[d] = shown[d]
      /\ c \notin Real /\ Real \subseteq DOMAIN shown
      /\ Real' = IF p.mode = "bidirectional" THEN Real \cup {c} ELSE Real
      /\ \A d \in Real : Apart(d)' => Apart(d)
  BY <1>1, <1>2, ColumnAdded
<1>7. \A d \in Real : shown'[d] = shown[d] /\ d \in Real'
  BY <1>6
<1>8. ShownInv'
  <2>1. shown' \in [DOMAIN shown' -> [field : Fields, type : Types, mode : Modes]]
    <3>1. \A d \in DOMAIN shown' : shown'[d] \in [field : Fields, type : Types, mode : Modes]
      BY <1>2, <1>5, <1>6 DEF ShownInv
    <3>2. shown' = [d \in DOMAIN shown' |-> shown'[d]]
      BY <1>1 DEF Extend
    <3> QED
      BY <3>1, <3>2
  <2>2. whole' \subseteq whole \cup {c} /\ whole \subseteq DOMAIN shown
    BY <1>1, <1>2 DEF ShownInv
  <2> QED
    BY <1>1, <1>2, <1>5, <1>6, <2>1, <2>2 DEF ShownInv
<1>9. TriggerInv'
  <2>1. before' = before
    BY <1>1
  <2>2. \A e \in Events : \A j, k \in 1..Len(before[e]) :
          /\ before[e][k].col \in Real'
          /\ before[e][j].stem = before[e][k].stem => j = k
    BY <1>2, <1>7 DEF TriggerInv
  <2> QED
    BY <1>2, <2>1, <2>2 DEF TriggerInv
<1>10. ASSUME NEW d \in whole' \cap Real' PROVE d \in whole /\ d \in Real
  <2>1. CASE call.mode = "forward"
    BY <1>1, <1>5, <1>6, <1>10, <2>1
  <2>2. CASE call.mode # "forward"
    <3>1. d \in whole /\ d \in DOMAIN shown
      BY <1>1, <1>2, <1>10, <2>2 DEF ShownInv
    <3> QED
      BY <1>1, <1>6, <1>10, <3>1
  <2> QED
    BY <2>1, <2>2
<1>11. call'.step \notin {"insert trigger", "update trigger"}
  <2>1. CASE call.mode = "forward"
    <3>1. call' = NoCall
      BY <1>1, <2>1
    <3> QED
      BY <3>1 DEF NoCall
  <2>2. CASE call.mode # "forward"
    <3>1. call'.step = "backfill"
      BY <1>1, <1>4, <2>2
    <3> QED
      BY <3>1
  <2> QED
    BY <2>1, <2>2
<1>12. InstalledInv'
  <2>1. ASSUME NEW d \in whole' \cap Real', Apart(d)' PROVE \A e \in Events : HasTrigger(e, d)'
    <3>1. d \in whole /\ d \in Real /\ Apart(d)
      BY <1>6, <1>10, <2>1
    <3>2. \A e \in Events : HasTrigger(e, d)
      BY <1>2, <3>1 DEF InstalledInv
    <3> QED
      BY <1>1, <3>2 DEF HasTrigger
  <2> QED
    BY <1>11, <2>1 DEF InstalledInv
<1>13. CallInv'
  <2>1. CASE call.mode = "forward"
    <3>1. call' = NoCall
      BY <1>1, <2>1
    <3> QED
      BY <3>1 DEF CallInv, NoCall, PastAlter
  <2>2. CASE call.mode # "forward"
    <3>1. /\ call' \in [step : PastAlter \cup {"column"}, field : Fields, col : Columns,
                        type : Types, mode : Modes]
          /\ call'.col = c /\ call'.field = p.field /\ call'.type = p.type
      BY <1>1, <1>4, <1>5, <2>2 DEF PastAlter
    <3>2. c \in Real'
      BY <1>5, <1>6, <2>2 DEF Modes
    <3> QED
      BY <1>6, <3>1, <3>2 DEF CallInv
  <2> QED
    BY <2>1, <2>2
<1>14. ASSUME row' # NoRow
       PROVE  /\ row # NoRow /\ row' \in WellRows' /\ row'.doc = row.doc
              /\ \A d \in Real : row'.col[d] = row.col[d]
              /\ \A d \in Real' \ Real : row'.col[d] = None
  <2>1. row # NoRow
    BY <1>1, <1>14
  <2>2. row \in WellRows
    BY <1>2, <2>1 DEF RowInv
  <2>3. CASE call.mode = "forward"
    <3>1. row' = row /\ Real' = Real
      BY <1>1, <1>5, <1>6, <2>3
    <3> QED
      BY <2>1, <2>2, <3>1 DEF WellRows
  <2>4. CASE call.mode # "forward"
    <3>1. Real' = Real \cup {c}
      BY <1>5, <1>6, <2>4 DEF Modes
    <3>2. row' = [row EXCEPT !.col = Extend(row.col, c, None)]
      BY <1>1, <2>1, <2>4
    <3>3. row.doc \in [Fields -> OneValued] /\ row.col \in [Real -> Storable]
      BY <2>2 DEF WellRows
    <3> DEFINE col == Extend(row.col, c, None)
    <3>4. /\ col \in [Real \cup {c} -> Storable] /\ col[c] = None
          /\ \A d \in Real : col[d] = row.col[d]
      BY <1>6, <3>3 DEF Extend, Storable
    <3> HIDE DEF col
    <3>5. row' = [doc |-> row.doc, col |-> col]
      BY <2>2, <3>2 DEF WellRows, col
    <3>6. row' \in WellRows'
      BY <3>1, <3>3, <3>4, <3>5 DEF WellRows
    <3> QED
      BY <2>1, <3>1, <3>4, <3>5, <3>6
  <2> QED
    BY <2>3, <2>4
<1>15. RowInv'
  <2> SUFFICES ASSUME row' # NoRow PROVE Castable(row)' /\ mirrored' = row'.doc
    BY <1>14 DEF RowInv
  <2>1. Castable(row) /\ mirrored' = row'.doc
    BY <1>1, <1>2, <1>14 DEF RowInv
  <2>2. ASSUME NEW d \in Real' PROVE Cast(shown'[d].type, row'.col[d]) = row'.col[d]
    <3>1. CASE d \in Real
      BY <1>7, <1>14, <2>1, <3>1 DEF Castable
    <3>2. CASE d \notin Real
      <4>1. row'.col[d] = None
        BY <1>14, <3>2
      <4>2. Cast(shown'[d].type, None) = None
        BY CastSettles DEF Storable
      <4> QED
        BY <4>1, <4>2
    <3> QED
      BY <3>1, <3>2
  <2> QED
    BY <2>1, <2>2 DEF Castable
<1>16. AgreeInv'
  <2> SUFFICES ASSUME row' # NoRow, ~raced', NEW d \in Real', Apart(d)',
                      d \in whole' \/ (call'.step \in {"insert trigger", "update trigger"}
                                       /\ d = call'.col)
               PROVE  Agrees(d, row)'
    BY DEF AgreeInv
  <2>1. d \in whole /\ d \in Real
    BY <1>10, <1>11
  <2>2. Apart(d) /\ ~raced /\ row # NoRow
    BY <1>1, <1>6, <1>14, <2>1
  <2>3. Agrees(d, row)
    BY <1>2, <2>1, <2>2 DEF AgreeInv
  <2>4. row'.col[d] = row.col[d] /\ row'.doc = row.doc /\ shown'[d] = shown[d]
    BY <1>7, <1>14, <2>1
  <2> QED
    BY <2>3, <2>4 DEF Agrees
<1> QED
  BY <1>8, <1>9, <1>12, <1>13, <1>15, <1>16 DEF ProjectionInd

(* Both triggers of a call: the columns and the row stay as they are.      *)
LEMMA CreateInsertStep ==
  ASSUME ProjectionInd, CreateInsertTrigger
  PROVE  ProjectionInd'
<1> DEFINE c == call.col
<1>1. /\ call.step = "insert trigger" /\ call' = [call EXCEPT !.step = "update trigger"]
      /\ AddTrigger("insert")
      /\ UNCHANGED <<meta, shown, row, mirrored, calls, whole, raced>>
  BY DEF CreateInsertTrigger, Go
<1>2. /\ ShownInv /\ RowInv /\ CallInv /\ TriggerInv /\ InstalledInv /\ AgreeInv
  BY DEF ProjectionInd
<1>3. call # NoCall /\ call.step \in PastAlter
  <2>1. NoCall.step = "none" /\ call.step = "insert trigger"
    BY <1>1 DEF NoCall
  <2> QED
    BY <2>1 DEF PastAlter
<1>4. /\ c \in Real /\ shown[c].field = call.field /\ shown[c].type = call.type
      /\ call \in [step : PastAlter \cup {"column"}, field : Fields, col : Columns,
                   type : Types, mode : Modes]
  BY <1>2, <1>3 DEF CallInv
<1>5. /\ call'.step = "update trigger" /\ call'.col = c
      /\ call'.field = call.field /\ call'.type = call.type
      /\ call' \in [step : PastAlter \cup {"column"}, field : Fields, col : Columns,
                    type : Types, mode : Modes]
  BY <1>1, <1>4 DEF PastAlter
<1>6. /\ TriggerInv' /\ before'["update"] = before["update"]
      /\ \A d \in Columns :
           d = c \/ (Stem[d] # Stem[c] /\ HasTrigger("insert", d)) => HasTrigger("insert", d)'
  <2>1. "insert" \in Events /\ "update" \in Events \ {"insert"}
    BY DEF Events
  <2> QED
    BY <1>1, <1>2, <1>3, <2>1, AddTriggerEffect
<1>7. Real' = Real /\ WellRows' = WellRows /\ \A d : Apart(d)' <=> Apart(d)
  BY <1>1, SameColumns
<1>8. ShownInv'
  BY <1>1, <1>2 DEF ShownInv
<1>9. RowInv'
  BY <1>1, <1>2, SameRow
<1>10. CallInv'
  <2>1. c \in Real' /\ shown'[c].field = call'.field /\ shown'[c].type = call'.type
    BY <1>1, <1>4, <1>5, <1>7
  <2> QED
    BY <1>5, <2>1 DEF CallInv
<1>11. ASSUME NEW d \in whole' \cap Real', Apart(d)', NEW e \in Events
       PROVE  HasTrigger(e, d)'
  <2>1. d \in whole \cap Real /\ Apart(d) /\ d \in Columns
    BY <1>1, <1>2, <1>7, <1>11, ColumnFacts
  <2>2. HasTrigger(e, d)
    BY <1>2, <2>1 DEF InstalledInv
  <2>3. CASE e = "update"
    BY <1>6, <2>2, <2>3 DEF HasTrigger
  <2>4. CASE e = "insert"
    <3>1. d = c \/ Stem[d] # Stem[c]
      BY <1>4, <2>1 DEF Apart
    <3>2. HasTrigger("insert", d)'
      BY <1>6, <2>1, <2>2, <2>4, <3>1
    <3> QED
      BY <2>4, <3>2
  <2> QED
    BY <2>3, <2>4 DEF Events
<1>12. HasTrigger("insert", call.col)'
  <2>1. \E k \in 1..Len(before'["insert"]) : before'["insert"][k].col = c
    BY <1>4, <1>6 DEF HasTrigger
  <2> QED
    BY <1>5, <2>1 DEF HasTrigger
<1>13. InstalledInv'
  BY <1>11, <1>12 DEF InstalledInv
<1>14. AgreeInv'
  <2> SUFFICES ASSUME row' # NoRow, ~raced', NEW d \in Real', Apart(d)',
                      d \in whole' \/ (call'.step \in {"insert trigger", "update trigger"}
                                       /\ d = call'.col)
               PROVE  Agrees(d, row)'
    BY DEF AgreeInv
  <2>1. /\ row # NoRow /\ ~raced /\ d \in Real /\ Apart(d) /\ (d \in whole \/ d = c)
    BY <1>1, <1>5, <1>7
  <2>2. Agrees(d, row)
    BY <1>1, <1>2, <2>1 DEF AgreeInv
  <2> QED
    BY <1>1, <2>2 DEF Agrees
<1> QED
  BY <1>6, <1>8, <1>9, <1>10, <1>13, <1>14 DEF ProjectionInd

LEMMA CreateUpdateStep ==
  ASSUME ProjectionInd, CreateUpdateTrigger
  PROVE  ProjectionInd'
<1> DEFINE c == call.col
<1>1. /\ call.step = "update trigger" /\ call' = NoCall /\ AddTrigger("update")
      /\ whole' = whole \cup {c}
      /\ UNCHANGED <<meta, shown, row, mirrored, calls, raced>>
  BY DEF CreateUpdateTrigger
<1>2. /\ ShownInv /\ RowInv /\ CallInv /\ TriggerInv /\ InstalledInv /\ AgreeInv
  BY DEF ProjectionInd
<1>3. call.step \in PastAlter
  BY <1>1 DEF PastAlter
<1>4. c \in Real /\ c \in DOMAIN shown
  BY <1>2, <1>3 DEF CallInv, Real
<1>5. call'.step = "none"
  BY <1>1 DEF NoCall
<1>6. /\ TriggerInv' /\ before'["insert"] = before["insert"]
      /\ \A d \in Columns :
           d = c \/ (Stem[d] # Stem[c] /\ HasTrigger("update", d)) => HasTrigger("update", d)'
  <2>1. "update" \in Events /\ "insert" \in Events \ {"update"}
    BY DEF Events
  <2> QED
    BY <1>1, <1>2, <1>3, <2>1, AddTriggerEffect
<1>7. Real' = Real /\ WellRows' = WellRows /\ \A d : Apart(d)' <=> Apart(d)
  BY <1>1, SameColumns
<1>8. ShownInv'
  BY <1>1, <1>2, <1>4 DEF ShownInv
<1>9. RowInv'
  BY <1>1, <1>2, SameRow
<1>10. CallInv'
  BY <1>1, <1>5 DEF CallInv, PastAlter
<1>11. ASSUME NEW d \in whole' \cap Real', Apart(d)', NEW e \in Events
       PROVE  HasTrigger(e, d)'
  <2>1. d \in Real /\ Apart(d) /\ d \in Columns /\ (d = c \/ d \in whole)
    BY <1>1, <1>2, <1>7, <1>11, ColumnFacts
  <2>2. d # c => HasTrigger(e, d)
    BY <1>2, <2>1 DEF InstalledInv
  <2>3. CASE e = "insert"
    <3>1. HasTrigger("insert", d)
      BY <1>1, <1>2, <2>2, <2>3 DEF InstalledInv
    <3> QED
      BY <1>6, <2>3, <3>1 DEF HasTrigger
  <2>4. CASE e = "update"
    <3>1. d = c \/ Stem[d] # Stem[c]
      BY <1>4, <2>1 DEF Apart
    <3>2. HasTrigger("update", d)'
      BY <1>6, <2>1, <2>2, <2>4, <3>1
    <3> QED
      BY <2>4, <3>2
  <2> QED
    BY <2>3, <2>4 DEF Events
<1>12. InstalledInv'
  BY <1>5, <1>11 DEF InstalledInv
<1>13. AgreeInv'
  <2> SUFFICES ASSUME row' # NoRow, ~raced', NEW d \in Real', Apart(d)',
                      d \in whole' \/ (call'.step \in {"insert trigger", "update trigger"}
                                       /\ d = call'.col)
               PROVE  Agrees(d, row)'
    BY DEF AgreeInv
  <2>1. /\ row # NoRow /\ ~raced /\ d \in Real /\ Apart(d) /\ (d \in whole \/ d = c)
    BY <1>1, <1>5, <1>7
  <2>2. Agrees(d, row)
    BY <1>1, <1>2, <2>1 DEF AgreeInv
  <2> QED
    BY <1>1, <2>2 DEF Agrees
<1> QED
  BY <1>6, <1>8, <1>9, <1>10, <1>12, <1>13 DEF ProjectionInd

----------------------------------------------------------------------------
(* Theorems                                                                *)

(* The inductive invariant holds: rows are well formed, typed and          *)
(* mirrored, triggers have distinct names, a call past its ALTER TABLE     *)
(* installs a column that is there, and a column that is apart has both    *)
(* triggers from the end of its installation on.                           *)
THEOREM ProjectionInductive == ProjectionSpec => []ProjectionInd
<1>1. ProjectionInit => ProjectionInd
  <2> SUFFICES ASSUME ProjectionInit PROVE ProjectionInd
    OBVIOUS
  <2>1. /\ meta = <<>> /\ shown = <<>> /\ before = [e \in Events |-> <<>>]
        /\ row = NoRow /\ call = NoCall /\ whole = {} /\ raced = FALSE
    BY DEF ProjectionInit, Events
  <2>2. DOMAIN meta = {} /\ DOMAIN shown = {} /\ Real = {}
    BY <2>1 DEF Real
  <2>3. ShownInv
    <3> DEFINE X == [field : Fields, type : Types, mode : Modes]
    <3>1. <<>> \in Seq(X) /\ Len(<<>>) = 0
      OBVIOUS
    <3>2. shown \in [1..0 -> X]
      BY <2>1, <3>1
    <3>3. shown \in [DOMAIN shown -> X]
      BY <2>2, <3>2
    <3> QED
      BY <2>1, <2>2, <3>3 DEF ShownInv
  <2>4. RowInv /\ AgreeInv
    BY <2>1 DEF RowInv, AgreeInv
  <2>5. CallInv
    BY <2>1 DEF CallInv, NoCall, PastAlter
  <2>6. \A e \in Events : before[e] = <<>> /\ Len(before[e]) = 0
    BY <2>1
  <2>7. TriggerInv
    BY <2>1, <2>6 DEF TriggerInv
  <2>8. InstalledInv
    BY <2>1 DEF InstalledInv, NoCall
  <2> QED
    BY <2>3, <2>4, <2>5, <2>7, <2>8 DEF ProjectionInd
<1>2. ProjectionInd /\ [ProjectionNext]_projVars => ProjectionInd'
  <2> SUFFICES ASSUME ProjectionInd, [ProjectionNext]_projVars PROVE ProjectionInd'
    OBVIOUS
  <2>1. ASSUME NEW asked \in Statements, InsertRow(asked) \/ UpdateRow(asked)
        PROVE  ProjectionInd'
    <3>1. \E e \in Events : Write(e, asked)
      BY <2>1 DEF InsertRow, UpdateRow, Events
    <3> QED
      BY <3>1, WriteStep
  <2>2. CASE RemoveRow
    BY <2>2, RemoveRowStep
  <2>3. ASSUME NEW f \in Fields, NEW c \in Columns, NEW t \in Types,
               NEW m \in {"forward", "bidirectional"}, RecordProjection(f, c, t, m)
        PROVE  ProjectionInd'
    BY <2>3, RecordStep DEF Modes
  <2>4. CASE AddColumn
    BY <2>4, AddColumnStep
  <2>5. CASE Fails
    BY <2>5, FailsStep
  <2>6. CASE Backfill
    BY <2>6, BackfillStep
  <2>7. CASE CreateInsertTrigger
    BY <2>7, CreateInsertStep
  <2>8. CASE CreateUpdateTrigger
    BY <2>8, CreateUpdateStep
  <2>9. CASE UNCHANGED projVars
    <3>1. UNCHANGED <<meta, shown, before, row, mirrored, call, calls, whole, raced>>
      BY <2>9 DEF projVars
    <3>2. DOMAIN meta' \subseteq Columns
      BY <3>1 DEF ProjectionInd, ShownInv
    <3>3. ShownInv' /\ TriggerInv' /\ InstalledInv'
      BY <3>1, <3>2, QuietStep
    <3>4. RowInv'
      BY <3>1, SameRow DEF ProjectionInd
    <3>5. CallInv' /\ AgreeInv'
      BY <3>1, SameColumns DEF CallInv, AgreeInv, Agrees, ProjectionInd
    <3> QED
      BY <3>3, <3>4, <3>5 DEF ProjectionInd
  <2> QED
    BY <2>1, <2>2, <2>3, <2>4, <2>5, <2>6, <2>7, <2>8, <2>9
    DEF ProjectionNext, ClientStep, InstallStep
<1> QED
  BY <1>1, <1>2, PTL DEF ProjectionSpec

(* The stored document stays one document: columns and triggers are well   *)
(* formed, a field has at most one wrapper, and the oplog's latest entry   *)
(* is what the row's triggers left, not what the statement brought.        *)
THEOREM ProjectionsKeepDocumentsWhole == ProjectionSpec => []ProjectionInv
<1>1. ProjectionInd => ProjectionInv
  <2> SUFFICES ASSUME ProjectionInd PROVE ProjectionInv
    OBVIOUS
  <2>1. ShownInv /\ RowInv
    BY DEF ProjectionInd
  <2>2. ProjectionTypeOK
    <3>1. \A c \in DOMAIN shown : shown[c].type \in Types /\ shown[c].field \in Fields
      BY <2>1 DEF ShownInv
    <3>2. row = NoRow \/ (DOMAIN row.doc = Fields /\ DOMAIN row.col = Real)
      BY <2>1 DEF RowInv, WellRows
    <3> QED
      BY <2>1, <3>1, <3>2 DEF ProjectionTypeOK, ShownInv
  <2>3. ASSUME row # NoRow, NEW f \in Fields
        PROVE  Cardinality({w \in WrapperNames : row.doc[f][w] # None}) <= 1
    <3> DEFINE x == row.doc[f]
               S == {w \in WrapperNames : x[w] # None}
    <3>1. x \in OneValued
      BY <2>1, <2>3 DEF RowInv, WellRows
    <3>2. \A w, y \in S : w = y
      BY <3>1 DEF OneValued
    <3>3. CASE S = {}
      <4>1. Cardinality(S) = 0
        BY <3>3, FS_EmptySet
      <4> QED
        BY <4>1
    <3>4. CASE S # {}
      <4>1. PICK w : S = {w}
        BY <3>2, <3>4
      <4>2. Cardinality(S) = 1
        BY <4>1, FS_Singleton
      <4> QED
        BY <4>2
    <3> QED
      BY <3>3, <3>4
  <2>4. OneWrapper
    BY <2>3 DEF OneWrapper
  <2>5. EntryIsMerged
    BY <2>1 DEF RowInv, EntryIsMerged
  <2> QED
    BY <2>2, <2>4, <2>5 DEF ProjectionInv
<1> QED
  BY <1>1, ProjectionInductive, PTL

(* A column whose installation ran to its end unraced shows what its       *)
(* field says, whichever of the two was written last, while no other       *)
(* column has its field or its trigger names.                              *)
THEOREM ColumnsAgree == ProjectionSpec => []ColumnAgrees
<1>1. ProjectionInd => ColumnAgrees
  BY DEF ProjectionInd, AgreeInv, ColumnAgrees, Agrees
<1> QED
  BY <1>1, ProjectionInductive, PTL

(* "A write to either representation updates the other": an UPDATE that    *)
(* goes through leaves every changed column's value in its field, and      *)
(* every other field as its document says.                                 *)
THEOREM WritesReachBoth == ProjectionSpec => []WriteThrough
<1>1. ProjectionInd => WriteThrough
  <2> SUFFICES ASSUME ProjectionInd, NEW asked \in Statements,
                      RunBefore("update", row, asked) # Failed,
                      \A c \in Real : c \in whole /\ Apart(c), NEW f \in Fields
               PROVE  LET after == RunBefore("update", row, asked)
                          Changed == {c \in whole \cap Real :
                                        shown[c].field = f /\ asked.col[c] # row.col[c]}
                      IN IF Changed = {} THEN after.doc[f] = asked.doc[f]
                         ELSE \A c \in Changed : Read(after.doc[f]) = asked.col[c]
    BY DEF WriteThrough
  <2> DEFINE after == RunBefore("update", row, asked)
             n == Len(before["update"])
             Changed == {c \in whole \cap Real :
                           shown[c].field = f /\ asked.col[c] # row.col[c]}
  <2>1. ShownInv /\ TriggerInv /\ InstalledInv
    BY DEF ProjectionInd
  <2>2. Stage("update", row, asked, after, n)
    BY <2>1, StatementsWell, RunResult DEF Events
  <2>3. \A c \in Real : Done("update", n, c)
    BY <2>1 DEF InstalledInv, HasTrigger, Done, Events
  <2> HIDE DEF after, n
  <2>4. after # Failed
    BY DEF after
  <2>5. /\ \A c \in Real : Done("update", n, c) /\ asked.col[c] # row.col[c] =>
             Read(after.doc[shown[c].field]) = asked.col[c]
        /\ (\A c \in Real : shown[c].field = f /\ Done("update", n, c) =>
              asked.col[c] = row.col[c])
           => after.doc[f] = asked.doc[f]
    BY <2>2, <2>4 DEF Stage
  <2>6. CASE Changed = {}
    <3>1. after.doc[f] = asked.doc[f]
      BY <2>5, <2>6
    <3> QED
      BY <2>6, <3>1 DEF after
  <2>7. CASE Changed # {}
    <3>1. \A c \in Changed : Read(after.doc[f]) = asked.col[c]
      BY <2>3, <2>5
    <3> QED
      BY <2>7, <3>1 DEF after
  <2> QED
    BY <2>6, <2>7
<1> QED
  BY <1>1, ProjectionInductive, PTL

----------------------------------------------------------------------------
(* The catalog                                                             *)

(* What a session's operation says about where it can be: index steps      *)
(* belong to commands that name an index, and only commands that go on to  *)
(* install triggers create a table.                                        *)
IndexSteps == {"find", "alter", "row", "lookup", "unalter", "unrow"}
OperationOK(s) ==
  /\ kind[s] \in {"createIndex", "dropIndex"} <=> index[s] # NoIndex
  /\ pc[s] \in IndexSteps => index[s] # NoIndex
  /\ pc[s] \in {"exists", "table"} => kind[s] \notin {"adopt", "dropDatabase"}
OperationsOK == \A s \in Sessions : OperationOK(s)

USE DEF tableVars, catalogVars, historyVars, sessionVars, AllTriggers, Creating,
        Steps, IndexSteps

(* Every statement of collection.cc keeps types, triggers and indexes with *)
(* their table, and each session inside its operation.                     *)
LEMMA TypeStep ==
  ASSUME CatalogTypeOK, OperationsOK, [Next]_vars
  PROVE  CatalogTypeOK' /\ OperationsOK'
<1> USE DEF CatalogTypeOK, OperationsOK, OperationOK, Goto
<1>1. CASE UNCHANGED vars
  BY <1>1 DEF vars
<1>2. ASSUME NEW s \in Sessions, NEW k \in Kinds, NEW x \in Indexes \cup {NoIndex},
             Begin(s, k, x)
      PROVE CatalogTypeOK' /\ OperationsOK'
  BY <1>2 DEF Begin
<1>3. ASSUME NEW s \in Sessions, Exists(s)
      PROVE CatalogTypeOK' /\ OperationsOK'
  <2> DEFINE to == CASE kind[s] \in Creating -> IF table THEN Then(s) ELSE "table"
                     [] kind[s] = "drop" -> IF table THEN "drop" ELSE "idle"
                     [] OTHER -> IF table THEN "lookup" ELSE "idle"
  <2>1. pc' = [pc EXCEPT ![s] = to] /\ pc[s] = "exists"
    BY <1>3 DEF Exists
  <2>2. /\ to \in Steps
        /\ to \in IndexSteps => index[s] # NoIndex
        /\ to \in {"exists", "table"} => kind[s] \notin {"adopt", "dropDatabase"}
    BY <2>1, CatalogAssumption DEF Then
  <2> HIDE DEF to
  <2> QED BY <1>3, <2>1, <2>2 DEF Exists
<1>4. ASSUME NEW s \in Sessions,
             CreateTable(s) \/ Register(s) \/ InsertDocument(s)
      PROVE CatalogTypeOK' /\ OperationsOK'
  BY <1>4 DEF CreateTable, Register, InsertDocument
<1>5. ASSUME NEW s \in Sessions, NEW k \in AllTriggers, CreateTrigger(s, k)
      PROVE CatalogTypeOK' /\ OperationsOK'
  BY <1>5 DEF CreateTrigger, AfterTrigger, Then
<1>6. ASSUME NEW s \in Sessions, DropTable(s) \/ DeleteRow(s) \/ DeleteIndexRows(s)
      PROVE CatalogTypeOK' /\ OperationsOK'
  BY <1>6 DEF DropTable, DeleteRow, DeleteIndexRows
<1>7. ASSUME NEW s \in Sessions,
             FindIndex(s) \/ AddIndex(s) \/ ReplaceIndexRow(s)
      PROVE CatalogTypeOK' /\ OperationsOK'
  <2>1. CASE FindIndex(s)
    BY <2>1 DEF FindIndex
  <2>2. CASE AddIndex(s)
    BY <2>2 DEF AddIndex
  <2>3. CASE ReplaceIndexRow(s)
    BY <2>3 DEF ReplaceIndexRow
  <2> QED BY <1>7, <2>1, <2>2, <2>3
<1>8. ASSUME NEW s \in Sessions,
             LookupIndex(s) \/ DropIndex(s) \/ DeleteIndexRow(s)
      PROVE CatalogTypeOK' /\ OperationsOK'
  BY <1>8 DEF LookupIndex, DropIndex, DeleteIndexRow
<1>9. ASSUME NEW s \in Sessions, Fail(s)
      PROVE CatalogTypeOK' /\ OperationsOK'
  BY <1>9 DEF Fail
<1> HIDE DEF CatalogTypeOK, OperationsOK
<1> QED
  BY <1>1, <1>2, <1>3, <1>4, <1>5, <1>6, <1>7, <1>8, <1>9 DEF Next, SessionStep

(* Every statement keeps a table mirrored, in the hands of a session that  *)
(* will install what is missing, or marked as torn (create(),              *)
(* chimera_adopt_table, drop()).                                           *)
LEMMA MirrorStep ==
  ASSUME CatalogTypeOK, OperationsOK, MirrorOrInProgress, [Next]_vars
  PROVE  MirrorOrInProgress'
<1> DEFINE Safe(s) == Installing(s) /\ AllTriggers \ triggers \subseteq ToInstall(s)
<1> USE DEF CatalogTypeOK, OperationsOK, OperationOK, MirrorOrInProgress, Goto,
            Installing, ToInstall
<1>1. CASE UNCHANGED vars
  BY <1>1 DEF vars

(* Statements that leave the table and its triggers alone, by a session    *)
(* that is not installing before them.                                     *)
<1>2. ASSUME NEW s \in Sessions, UNCHANGED <<table, triggers, torn>>, ~Installing(s),
             \A t \in Sessions \ {s} : pc'[t] = pc[t] /\ kind'[t] = kind[t]
      PROVE MirrorOrInProgress'
  BY <1>2
<1>3. ASSUME NEW s \in Sessions, NEW k \in Kinds, NEW x \in Indexes \cup {NoIndex},
             Begin(s, k, x)
      PROVE MirrorOrInProgress'
  BY <1>3, <1>2 DEF Begin
<1>4. ASSUME NEW s \in Sessions,
             Exists(s) \/ InsertDocument(s) \/ DeleteRow(s) \/ DeleteIndexRows(s)
      PROVE MirrorOrInProgress'
  BY <1>4, <1>2 DEF Exists, InsertDocument, DeleteRow, DeleteIndexRows
<1>5. ASSUME NEW s \in Sessions,
             \/ FindIndex(s) \/ AddIndex(s) \/ ReplaceIndexRow(s)
             \/ LookupIndex(s) \/ DropIndex(s) \/ DeleteIndexRow(s)
      PROVE MirrorOrInProgress'
  BY <1>5, <1>2 DEF FindIndex, AddIndex, ReplaceIndexRow, LookupIndex, DropIndex,
                    DeleteIndexRow
<1>6. ASSUME NEW s \in Sessions, CreateTable(s) PROVE MirrorOrInProgress'
  BY <1>6 DEF CreateTable
<1>7. ASSUME NEW s \in Sessions, Register(s) PROVE MirrorOrInProgress'
  BY <1>7 DEF Register
<1>8. ASSUME NEW s \in Sessions, NEW k \in AllTriggers, CreateTrigger(s, k)
      PROVE MirrorOrInProgress'
  <2>1. CASE triggers = AllTriggers \/ torn
    BY <1>8, <2>1 DEF CreateTrigger
  <2>2. ASSUME NEW t \in Sessions, Safe(t) PROVE MirrorOrInProgress'
    <3>1. CASE t = s
      BY <1>8, <2>2, <3>1 DEF CreateTrigger, AfterTrigger
    <3>2. CASE t # s
      BY <1>8, <2>2, <3>2 DEF CreateTrigger
    <3> QED BY <3>1, <3>2
  <2> QED BY <1>8, <2>1, <2>2 DEF CreateTrigger
<1>9. ASSUME NEW s \in Sessions, DropTable(s) PROVE MirrorOrInProgress'
  BY <1>9 DEF DropTable
<1>10. ASSUME NEW s \in Sessions, Fail(s) PROVE MirrorOrInProgress'
  <2>1. CASE triggers = AllTriggers \/ torn \/ ~table
    BY <1>10, <2>1 DEF Fail
  <2>2. ASSUME NEW t \in Sessions, Safe(t), table PROVE MirrorOrInProgress'
    <3>1. CASE t = s
      BY <1>10, <2>2, <3>1 DEF Fail
    <3>2. CASE t # s
      BY <1>10, <2>2, <3>2 DEF Fail
    <3> QED BY <3>1, <3>2
  <2> QED BY <2>1, <2>2
<1> HIDE DEF CatalogTypeOK, OperationsOK, MirrorOrInProgress
<1> QED
  BY <1>1, <1>3, <1>4, <1>5, <1>6, <1>7, <1>8, <1>9, <1>10 DEF Next, SessionStep

(* Catalog state is well typed and neither triggers nor secondary indexes  *)
(* outlive their table, for any sessions, indexes and operations           *)
(* (collection.cc as a whole).                                             *)
THEOREM CatalogTypeCorrect == Spec => []CatalogTypeOK
<1>1. Init => CatalogTypeOK /\ OperationsOK
  BY CatalogAssumption DEF Init, CatalogTypeOK, OperationsOK, OperationOK
<1>2. CatalogTypeOK /\ OperationsOK /\ [Next]_vars => CatalogTypeOK' /\ OperationsOK'
  BY TypeStep
<1> QED BY <1>1, <1>2, PTL DEF Spec

(* Whatever sessions create, drop, adopt and write, and wherever they die, *)
(* a table lacks mirror triggers only while a session is about to install  *)
(* them or after one died doing so (create(), chimera_adopt_table).        *)
THEOREM MirrorIsInstalled == Spec => []MirrorOrInProgress
<1>1. Init => CatalogTypeOK /\ OperationsOK /\ MirrorOrInProgress
  BY CatalogAssumption
     DEF Init, CatalogTypeOK, OperationsOK, OperationOK, MirrorOrInProgress
<1>2. CatalogTypeOK /\ OperationsOK /\ MirrorOrInProgress /\ [Next]_vars
      => CatalogTypeOK' /\ OperationsOK' /\ MirrorOrInProgress'
  BY TypeStep, MirrorStep
<1> QED BY <1>1, <1>2, PTL DEF Spec
=============================================================================
