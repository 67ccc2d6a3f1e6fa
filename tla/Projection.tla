----------------------------- MODULE Projection -----------------------------
(***************************************************************************)
(* Projections (projection.cc): a field of the documents shown as a column *)
(* of the table. chimera_add_projection is one action per statement, since *)
(* each DDL commits by itself and clients write in between. A client's     *)
(* statement on a row runs the BEFORE triggers in the order they were      *)
(* created, and its AFTER trigger mirrors what they leave.                 *)
(*                                                                         *)
(* A scalar field of a stored document sits in an Extended JSON wrapper:   *)
(* [wrapper -> value or None]. Values are numbers counted in halves, so    *)
(* odd ones are not integral, and Word, text that is no number. The server *)
(* is external and runs in strict mode: what a column cannot hold is       *)
(* refused.                                                                *)
(***************************************************************************)
EXTENDS Integers, Sequences, FiniteSets

CONSTANTS
  Columns,   \* columns a projection may be asked for
  Stem,      \* per column: its first 20 characters, which name its triggers
  Fields,    \* top-level fields of a document
  Types,     \* column types in use
  Scalars,   \* what clients store in a field: pairs of wrapper and value
  Values,    \* values SQL clients give a column
  MaxCalls   \* calls of chimera_add_projection

None == -2
Word == -1
Wrappers == <<"bare", "$numberInt", "$numberLong", "$numberDouble">>
WrapperNames == {Wrappers[k] : k \in DOMAIN Wrappers}
ColumnTypes == {"INT", "BIGINT", "DOUBLE", "TEXT"}
Refuse == -3

ASSUME ProjectionAssumption ==
  /\ Types \subseteq ColumnTypes
  /\ Values \subseteq Nat \cup {Word}
  /\ Scalars \subseteq WrapperNames \X (Nat \cup {Word})
  /\ DOMAIN Stem = Columns

VARIABLES
  meta,     \* chimera_meta.projections: column -> field and mode
  shown,    \* columns the table has: column -> field, type, mode
  before,   \* BEFORE triggers by event, in order of creation
  row,      \* one row: its document and the columns, or NoRow
  mirrored, \* the document of the row's latest oplog entry
  call,     \* the call of chimera_add_projection in progress
  calls,    \* calls begun so far
  whole,    \* columns whose installation ran to its end
  raced     \* a client wrote the row after a backfill and before the triggers

projVars == <<meta, shown, before, row, mirrored, call, calls, whole, raced>>

NullDoc == <<>>
NoRow == [doc |-> NullDoc, col |-> <<>>]
Absent == [w \in WrapperNames |-> None]
Wrapped(w, v) == [Absent EXCEPT ![w] = v]

Contents == {Absent} \cup {Wrapped(s[1], s[2]) : s \in Scalars}
Documents == [Fields -> Contents]

(* v_read: COALESCE over the wrappers, in this order.                      *)
Read(content) ==
  LET set == {k \in DOMAIN Wrappers : content[Wrappers[k]] # None}
  IN IF set = {} THEN None
     ELSE content[Wrappers[CHOOSE k \in set : \A j \in set : k <= j]]

(* Storing a text value in a column of type t: integers round, and Word is *)
(* an integer to nobody.                                                   *)
Cast(t, v) ==
  IF v = None \/ t = "TEXT" THEN v
  ELSE IF v = Word THEN Refuse
  ELSE IF t \in {"INT", "BIGINT"} /\ v % 2 = 1 THEN v + 1
  ELSE v

(* v_patch: the wrapper a column's value is written back in.               *)
WrapperOf(t) ==
  CASE t = "INT" -> "$numberInt" [] t = "BIGINT" -> "$numberLong"
    [] t = "DOUBLE" -> "$numberDouble" [] OTHER -> "bare"

(* Mutant of Patched: merged over the field's old wrapper.                 *)
PatchedInPlace(doc, f, t, v) ==
  IF v = None /\ t # "TEXT" THEN NullDoc
  ELSE [doc EXCEPT ![f] = [@ EXCEPT ![WrapperOf(t)] = v]]

(* JSON_MERGE_PATCH(JSON_REMOVE(doc, field), patch). CONCAT with a NULL is *)
(* NULL, which makes the document NULL and the statement fail; the patch   *)
(* {field: null} of a text column removes the field.                       *)
Patched(doc, f, t, v) ==
  IF v = None /\ t # "TEXT" THEN NullDoc ELSE [doc EXCEPT ![f] = Wrapped(WrapperOf(t), v)]

----------------------------------------------------------------------------
(* Triggers                                                                *)

Failed == NoRow
Store(r, c, v) == IF v = Refuse THEN Failed ELSE [r EXCEPT !.col[c] = v]
Rewrite(r, d) == IF d = NullDoc THEN Failed ELSE [r EXCEPT !.doc = d]

(* proj_bi: the column wins when it was given a value.                     *)
InsertTrigger(old, new, c) ==
  LET p == shown[c] IN
  IF new.col[c] # None THEN Rewrite(new, Patched(new.doc, p.field, p.type, new.col[c]))
  ELSE Store(new, c, Cast(p.type, Read(new.doc[p.field])))

(* Mutant of UpdateTrigger: a changed document wins over a changed column. *)
UpdateTriggerDocWins(old, new, c) ==
  LET p == shown[c] IN
  IF new.doc = old.doc THEN Rewrite(new, Patched(new.doc, p.field, p.type, new.col[c]))
  ELSE Store(new, c, Cast(p.type, Read(new.doc[p.field])))

(* proj_bu: a column the statement changed is written into the document,   *)
(* one it left alone is read from it.                                      *)
UpdateTrigger(old, new, c) ==
  LET p == shown[c] IN
  IF new.col[c] # old.col[c]
  THEN Rewrite(new, Patched(new.doc, p.field, p.type, new.col[c]))
  ELSE Store(new, c, Cast(p.type, Read(new.doc[p.field])))

Fire(event, old, new, c) ==
  IF new = Failed THEN Failed
  ELSE IF event = "insert" THEN InsertTrigger(old, new, c) ELSE UpdateTrigger(old, new, c)

(* The BEFORE triggers of an event, each on what the one before it left.   *)
RunBefore(event, old, new) ==
  LET T == before[event]
      run[k \in 0..Len(T)] ==
        IF k = 0 THEN new ELSE Fire(event, old, run[k - 1], T[k].col)
  IN run[Len(T)]

(* Mutant of Real: a generated column is taken for one with a value.       *)
AnyColumn == DOMAIN shown

(* The columns that hold a value of their own.                             *)
Real == {c \in DOMAIN shown : shown[c].mode = "bidirectional"}

(* Mutant of Mirror: the entry has the document the statement brought.     *)
MirrorAsked(asked, after) == mirrored' = asked.doc

(* The oplog's AFTER trigger runs when the BEFORE triggers are through.    *)
Mirror(asked, after) == mirrored' = after.doc

(* A client's statement on the row; a refused one changes nothing.         *)
Write(event, new) ==
  LET after == RunBefore(event, row, new) IN
  /\ after # Failed
  /\ row' = after /\ Mirror(new, after)
  /\ raced' = (raced \/ call.step \in {"insert trigger", "update trigger"})
  /\ UNCHANGED <<meta, shown, before, call, calls, whole>>

(* What a statement may ask for: over the wire a document, from SQL also   *)
(* values for the columns, each of its column's type.                      *)
Statements ==
  {r \in [doc : Documents, col : [Real -> Values \cup {None}]] :
     \A c \in Real : Cast(shown[c].type, r.col[c]) = r.col[c]}

InsertRow(asked) == row = NoRow /\ Write("insert", asked)
UpdateRow(asked) == row # NoRow /\ asked # row /\ Write("update", asked)

RemoveRow ==
  /\ row # NoRow /\ row' = NoRow /\ mirrored' = <<>>
  /\ UNCHANGED <<meta, shown, before, call, calls, whole, raced>>

----------------------------------------------------------------------------
(* chimera_add_projection(ns, field, column, type, mode)                   *)

NoCall == [step |-> "none"]
Extend(f, c, e) == [x \in DOMAIN f \cup {c} |-> IF x = c THEN e ELSE f[x]]

(* INSERT ... ON DUPLICATE KEY UPDATE: the catalog row is there first.     *)
RecordProjection(f, c, t, m) ==
  /\ call = NoCall /\ calls < MaxCalls
  /\ calls' = calls + 1
  /\ meta' = Extend(meta, c, [field |-> f, mode |-> m])
  /\ call' = [step |-> "column", field |-> f, col |-> c, type |-> t, mode |-> m]
  /\ UNCHANGED <<shown, before, row, mirrored, whole, raced>>

Go(step) == call' = [call EXCEPT !.step = step]

(* ALTER TABLE ADD COLUMN. A generated column is always what the document  *)
(* says; a real one starts out NULL. The column may exist already: then    *)
(* the call ends here, and so it does when its session dies.               *)
AddColumn ==
  LET c == call.col IN
  /\ call.step = "column" /\ c \notin DOMAIN shown
  /\ shown' = Extend(shown, c, [field |-> call.field, type |-> call.type, mode |-> call.mode])
  /\ IF call.mode = "forward"
     THEN call' = NoCall /\ whole' = whole \cup {c} /\ UNCHANGED row
     ELSE /\ Go("backfill") /\ UNCHANGED whole
          /\ row' = IF row = NoRow THEN row ELSE [row EXCEPT !.col = Extend(@, c, None)]
  /\ UNCHANGED <<meta, before, mirrored, calls, raced>>

Fails ==
  /\ call # NoCall /\ call' = NoCall
  /\ UNCHANGED <<meta, shown, before, row, mirrored, calls, whole, raced>>

(* Mutant of Backfill: rows that are there keep their NULL.                *)
NoBackfill ==
  /\ call.step = "backfill" /\ Go("insert trigger")
  /\ UNCHANGED <<meta, shown, before, row, mirrored, calls, whole, raced>>

(* UPDATE t SET col = <read>, after the GRANT: an ordinary statement, which *)
(* runs the triggers of other columns and mirrors every row.                *)
Backfill ==
  LET c == call.col
      value == Cast(call.type, Read(row.doc[call.field]))
      after == RunBefore("update", row, [row EXCEPT !.col[c] = value])
  IN /\ call.step = "backfill" /\ Go("insert trigger")
     /\ IF row = NoRow THEN UNCHANGED <<row, mirrored>>
        ELSE value # Refuse /\ after # Failed /\ row' = after /\ Mirror(row, after)
     /\ UNCHANGED <<meta, shown, before, calls, whole, raced>>

Without(T, k) == [j \in 1..Len(T) - 1 |-> T[IF j < k THEN j ELSE j + 1]]

(* CREATE OR REPLACE TRIGGER proj_b*_<stem>: the trigger of that name goes, *)
(* and the new one runs after all others.                                   *)
AddTrigger(event) ==
  LET T    == before[event]
      same == {k \in 1..Len(T) : T[k].stem = Stem[call.col]}
      rest == IF same = {} THEN T ELSE Without(T, CHOOSE k \in same : TRUE)
  IN before' = [before EXCEPT ![event] =
                  Append(rest, [stem |-> Stem[call.col], col |-> call.col])]

CreateInsertTrigger ==
  /\ call.step = "insert trigger" /\ Go("update trigger") /\ AddTrigger("insert")
  /\ UNCHANGED <<meta, shown, row, mirrored, calls, whole, raced>>

CreateUpdateTrigger ==
  /\ call.step = "update trigger" /\ call' = NoCall /\ AddTrigger("update")
  /\ whole' = whole \cup {call.col}
  /\ UNCHANGED <<meta, shown, row, mirrored, calls, raced>>

----------------------------------------------------------------------------

ProjectionInit ==
  /\ meta = <<>> /\ shown = <<>> /\ before = [e \in {"insert", "update"} |-> <<>>]
  /\ row = NoRow /\ mirrored = <<>> /\ call = NoCall /\ calls = 0
  /\ whole = {} /\ raced = FALSE

ClientStep ==
  \/ \E asked \in Statements : InsertRow(asked) \/ UpdateRow(asked)
  \/ RemoveRow

InstallStep ==
  \/ \E f \in Fields, c \in Columns, t \in Types, m \in {"forward", "bidirectional"} :
       RecordProjection(f, c, t, m)
  \/ AddColumn \/ Fails \/ Backfill \/ CreateInsertTrigger \/ CreateUpdateTrigger

ProjectionNext == ClientStep \/ InstallStep

ProjectionSpec == ProjectionInit /\ [][ProjectionNext]_projVars

----------------------------------------------------------------------------
(* Properties                                                              *)

(* Type invariant.                                                         *)
ProjectionTypeOK ==
  /\ DOMAIN meta \subseteq Columns /\ DOMAIN shown \subseteq Columns
  /\ \A c \in DOMAIN shown : shown[c].type \in Types /\ shown[c].field \in Fields
  /\ row = NoRow \/ (DOMAIN row.doc = Fields /\ DOMAIN row.col = Real)
  /\ whole \subseteq DOMAIN shown /\ raced \in BOOLEAN

(* Columns that another installed column has nothing to do with: no shared *)
(* field, and no shared stem, whose triggers would replace its own.        *)
Apart(c) ==
  \A d \in Real \ {c} : shown[d].field # shown[c].field /\ Stem[d] # Stem[c]

(* Once chimera_add_projection has come back and nobody wrote during its   *)
(* installation, a bidirectional column shows what the document says,      *)
(* whichever of the two was written last: as long as it is the only one on *)
(* its field and no other column begins with the same 20 characters.       *)
ColumnAgrees ==
  row # NoRow /\ ~raced =>
    \A c \in whole \cap Real : Apart(c) =>
      row.col[c] = Cast(shown[c].type, Read(row.doc[shown[c].field]))

(* "A document carrying two different wrappers for one field" never        *)
(* results from writing a column back.                                     *)
OneWrapper ==
  row # NoRow =>
    \A f \in Fields : Cardinality({w \in WrapperNames : row.doc[f][w] # None}) <= 1

(* "Reconciliation finishes before the oplog trigger runs": the latest     *)
(* oplog entry is the document the row holds.                              *)
EntryIsMerged == row # NoRow => mirrored = row.doc

(* The stored document is one document: columns and triggers are well      *)
(* formed, a field has one wrapper, and the oplog has what the row has.    *)
ProjectionInv == ProjectionTypeOK /\ OneWrapper /\ EntryIsMerged

(* "A write to either representation updates the other": whatever one      *)
(* UPDATE may ask for next, a field whose column it changes becomes the     *)
(* column's value, and every other field is what its document says.         *)
WriteThrough ==
  row # NoRow /\ call = NoCall =>
    \A asked \in Statements :
      LET after == RunBefore("update", row, asked)
          Changed(f) == {c \in whole \cap Real : shown[c].field = f /\ asked.col[c] # row.col[c]}
      IN after # Failed /\ (\A c \in Real : c \in whole /\ Apart(c)) =>
           \A f \in Fields :
             IF Changed(f) = {} THEN after.doc[f] = asked.doc[f]
             ELSE \A c \in Changed(f) : Read(after.doc[f]) = asked.col[c]
=============================================================================
