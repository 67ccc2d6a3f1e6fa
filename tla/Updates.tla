------------------------------- MODULE Updates -------------------------------
(***************************************************************************)
(* Documents under updates: apply_update (update.cpp) and the loop of      *)
(* Collection::update and insert (collection.cc) around it. A row has the  *)
(* key it was inserted under and a document; filters look at documents,    *)
(* writes go to keys. Commands follow one another here: what happens when  *)
(* they run at once is Documents' subject.                                 *)
(***************************************************************************)
EXTENDS Paths

CONSTANTS
  Tables,      \* rows to begin with: sequences of documents
  Commands,    \* update commands clients send
  MaxUpdates   \* bound: updates in a run

Id == <<"_id">>

(* encode_id: numbers share one key space, documents and arrays have none. *)
HasKey(v) == IsNumeric(v) \/ v.t = "string"
KeyOf(v) == Scalar(IF IsNumeric(v) THEN "number" ELSE v.t, v.n)

IsSequence(s) == s \in Seq({s[i] : i \in DOMAIN s})
ASSUME UpdatesAssumption ==
  /\ MaxUpdates \in Nat
  /\ \A table \in Tables :
       /\ IsSequence(table)
       /\ \A i \in DOMAIN table : Storable(table[i]) /\ HasKey(PathGet(table[i], Id))
  /\ \A command \in Commands :
       /\ IsSequence(command.steps) /\ IsSequence(command.replace)
       /\ \A i \in DOMAIN command.steps : command.steps[i].path \in Seq(STRING) \ {<<>>}

VARIABLES
  rows,      \* key -> document
  last,      \* the last command and its outcome
  updates,   \* updates so far
  idTouched  \* history: an update operator named _id

updateVars == <<rows, last, updates, idTouched>>

Refused == [ok |-> FALSE, doc |-> <<>>]
Ok(fields) == [ok |-> TRUE, doc |-> fields]

----------------------------------------------------------------------------
(* apply_update                                                            *)

(* each_values: the elements of {$each: [...]}, whatever stands beside     *)
(* $each, or the bare value. An $each that is no array is an error, and so *)
(* is a document with another name that begins with a dollar.              *)
Modifiers == {"$position", "$slice", "$sort"}
HasEach(arg) == arg.t = "document" /\ Child(arg, "$each") # Missing
EachOk(arg) ==
  IF HasEach(arg) THEN Child(arg, "$each").t = "array"
  ELSE arg.t = "document" => \A m \in Modifiers : Positions(arg.f, m) = {}
Each(arg) == IF HasEach(arg) THEN Elements(Child(arg, "$each")) ELSE <<arg>>

Contains(elements, v) == \E i \in DOMAIN elements : ValueEqual(elements[i], v)

(* Mutant of AddToSet: looks only at what was there before the operator.   *)
AddToSetOnce(elements, each) ==
  elements \o SelectSeq(each, LAMBDA v : ~Contains(elements, v))

(* $addToSet looks at what it has just added, too.                         *)
AddToSet(elements, each) ==
  LET add[i \in 0..Len(each)] ==
        IF i = 0 THEN elements
        ELSE IF Contains(add[i - 1], each[i]) THEN add[i - 1] ELSE Append(add[i - 1], each[i])
  IN add[Len(each)]

Popped(elements, arg) ==
  IF IsNumeric(arg) /\ arg.n < 0 THEN Tail(elements) ELSE SubSeq(elements, 1, Len(elements) - 1)

Sum(old, arg) ==
  LET n == arg.n + IF old.t = "missing" THEN 0 ELSE old.n
  IN IF "double" \in {old.t, arg.t} THEN Double(n) ELSE Int64(n)

(* apply_one.                                                              *)
ApplyOne(doc, op, path, arg) ==
  LET old == PathGet(doc, path)
      isArray == old.t \in {"missing", "array"}
      elements == Elements(old)
      Put(values) == Ok(PathSet(doc, path, ArrayOf(values)))
  IN CASE op = "$set" -> Ok(PathSet(doc, path, arg))
       [] op = "$unset" -> Ok(PathUnset(doc, path))
       [] op = "$inc" /\ IsNumeric(arg) /\ (old.t = "missing" \/ IsNumeric(old)) ->
            Ok(PathSet(doc, path, Sum(old, arg)))
       [] op = "$push" /\ isArray /\ EachOk(arg) -> Put(elements \o Each(arg))
       [] op = "$addToSet" /\ isArray /\ EachOk(arg) -> Put(AddToSet(elements, Each(arg)))
       [] op = "$pull" /\ isArray /\ arg.t # "document" ->
            Put(SelectSeq(elements, LAMBDA v : ~ValueEqual(v, arg)))
       [] op = "$pop" /\ isArray ->
            IF elements = <<>> THEN Ok(doc) ELSE Put(Popped(elements, arg))
       [] OTHER -> Refused

(* Updater::apply_operator, over the operators in order: one that fails    *)
(* fails the update.                                                       *)
ApplySteps(doc, steps) ==
  LET done[i \in 0..Len(steps)] ==
        IF i = 0 THEN Ok(doc)
        ELSE IF ~done[i - 1].ok THEN Refused
        ELSE ApplyOne(done[i - 1].doc, steps[i].op, steps[i].path, steps[i].arg)
  IN done[Len(steps)]

(* Mutant of Replacement: the client's _id wins.                           *)
ReplacementWhole(doc, fields) == fields

(* A replacement keeps the document's _id, first.                          *)
Replacement(doc, fields) ==
  LET id == PathGet(doc, Id)
  IN IF id = Missing THEN fields
     ELSE <<Field("_id", id)>> \o Without(fields, "_id")

(* A command has steps or replace, never both: a mixture is refused.       *)
ApplyUpdate(doc, command) ==
  IF command.steps # <<>> THEN ApplySteps(doc, command.steps)
  ELSE Ok(Replacement(doc, command.replace))

----------------------------------------------------------------------------
(* Collection::update and insert                                           *)

Matches(filter) == {k \in DOMAIN rows :
                      filter = Missing \/ ValueEqual(PathGet(rows[k], Id), filter)}

(* load() asks for no order: InnoDB may find the rows by any index.        *)
Orders(K) ==
  {s \in [1..Cardinality(K) -> K] :
     (\A k \in K : \E i \in DOMAIN s : s[i] = k) /\ \A i, j \in DOMAIN s : s[i] = s[j] => i = j}

(* Replacing a document under its _id's key: a key no row has is no error. *)
Replaced(R, id, doc) ==
  IF KeyOf(id) \in DOMAIN R THEN [R EXCEPT ![KeyOf(id)] = Stored(doc)] ELSE R

(* Mutant of Same: whatever is matched is written and counted.             *)
NeverSame(new, doc) == FALSE

Same(new, doc) == Storable(new) /\ Stored(new) = doc

(* An error anywhere undoes the command.                                   *)
RolledBack == [ok |-> FALSE, rows |-> rows, matched |-> 0, modified |-> 0]

(* One match of the loop. Only a changed document is written, and the      *)
(* column takes none that is too deep.                                     *)
Rewrite(state, k, command) ==
  LET doc == rows[k]
      id == PathGet(doc, Id)
      new == ApplyUpdate(doc, command)
  IN IF ~state.ok \/ id = Missing \/ ~new.ok THEN RolledBack
     ELSE IF Same(new.doc, doc) THEN [state EXCEPT !.matched = @ + 1]
     ELSE IF ~HasKey(id) \/ ~Storable(new.doc) THEN RolledBack
     ELSE [ok |-> TRUE, rows |-> Replaced(state.rows, id, new.doc),
           matched |-> state.matched + 1, modified |-> state.modified + 1]

Untouched == [ok |-> TRUE, rows |-> rows, matched |-> 0, modified |-> 0]

UpdateAll(command, all) ==
  LET chosen == IF command.multi \/ all = <<>> THEN all ELSE <<Head(all)>>
      run[i \in 0..Len(chosen)] ==
        IF i = 0 THEN Untouched ELSE Rewrite(run[i - 1], chosen[i], command)
  IN run[Len(chosen)]

(* The upsert's seed is the filter's equality, and the update runs on it.  *)
Upserts(command) == Matches(command.filter) = {} /\ command.upsert
SeedUpdated(command) ==
  ApplyUpdate(IF command.filter = Missing THEN <<>> ELSE <<Field("_id", command.filter)>>, command)
Upserted(command) ==
  LET new == SeedUpdated(command)
      id == PathGet(new.doc, Id)
      key == KeyOf(id)
  IN IF new.ok /\ HasKey(id) /\ key \notin DOMAIN rows /\ Storable(new.doc)
     THEN [Untouched EXCEPT !.rows = [k \in DOMAIN rows \cup {key} |->
                                        IF k = key THEN Stored(new.doc) ELSE rows[k]]]
     ELSE RolledBack

(* An inserted document without _id gets a fresh one: not asked for here.  *)
WantsFreshId(command) ==
  LET new == SeedUpdated(command)
  IN Upserts(command) /\ new.ok /\ PathGet(new.doc, Id) = Missing

Replies(command, outcome) ==
  /\ rows' = outcome.rows
  /\ last' = [command |-> command, ok |-> outcome.ok, modified |-> outcome.modified]
Update(command, all) ==
  /\ ~WantsFreshId(command)
  /\ updates < MaxUpdates /\ updates' = updates + 1
  /\ Replies(command, IF Upserts(command) THEN Upserted(command) ELSE UpdateAll(command, all))
  /\ idTouched' = (idTouched \/ \E i \in DOMAIN command.steps :
                                  command.steps[i].path[1] = "_id")

NoCommand == [filter |-> Missing, multi |-> FALSE, upsert |-> FALSE, steps |-> <<>>,
              replace |-> <<>>]
InsertedRows(table) ==
  [k \in {KeyOf(PathGet(table[i], Id)) : i \in DOMAIN table} |->
     Stored(table[CHOOSE i \in DOMAIN table : KeyOf(PathGet(table[i], Id)) = k])]

UpdatesInit ==
  /\ \E table \in Tables : rows = InsertedRows(table)
  /\ last = [command |-> NoCommand, ok |-> TRUE, modified |-> 0]
  /\ updates = 0 /\ idTouched = FALSE

UpdatesNext ==
  \E command \in Commands : \E all \in Orders(Matches(command.filter)) : Update(command, all)
UpdatesSpec == UpdatesInit /\ [][UpdatesNext]_updateVars

----------------------------------------------------------------------------
(* Properties                                                              *)

(* "_id is immutable" (update.cpp): a row's document has the _id of the    *)
(* row's key. Operators that name _id are not refused.                     *)
IdIsImmutable == \A k \in DOMAIN rows : KeyOf(PathGet(rows[k], Id)) = k

(* With operators that leave _id alone it is: updates, replacements that   *)
(* bring another _id and upserts keep documents and keys together, so that *)
(* the write of a read-modify-write goes to the row that was read.         *)
KeysAndIdsAgree == ~idTouched => IdIsImmutable

(* nModified is the number of documents that really changed.               *)
ModifiedIsTrue ==
  ~idTouched' /\ Matches(last'.command.filter) # {} =>
    (last'.ok => last'.modified = Cardinality({k \in DOMAIN rows : rows'[k] # rows[k]}))

(* Neither path is at or below the other.                                  *)
Prefix(p, q) == Len(p) <= Len(q) /\ SubSeq(q, 1, Len(p)) = p
Unrelated(p, q) == ~Prefix(p, q) /\ ~Prefix(q, p)
ProbePaths == {<<"_id">>, <<"a">>, <<"b">>, <<"a", "b">>, <<"a", "c">>, <<"a", "0">>, <<"a", "1">>}
Parent(doc, path) == IF Len(path) = 1 THEN Document(doc) ELSE PathGet(doc, <<path[1]>>)

(* A path below an array that is none of its elements: set_in appends it,  *)
(* and in the stored text it is one more element.                          *)
Misnames(doc, path) == Parent(doc, path).t = "array" /\ PathGet(doc, path) = Missing

(* An operator changes its own path and nothing beside it. The exceptions  *)
(* are $unset of an array's element, which moves the elements after it,    *)
(* and a path that misnames an element.                                    *)
NothingBesideThePath ==
  Len(last'.command.steps) = 1 /\ ~idTouched' =>
    LET s == last'.command.steps[1]
    IN \A k \in DOMAIN rows, q \in ProbePaths :
         /\ Unrelated(s.path, q)
         /\ ~(s.op = "$unset" /\ Parent(rows[k], s.path).t = "array")
         /\ ~Misnames(rows[k], s.path)
         => PathGet(rows'[k], q) = PathGet(rows[k], q)

(* What $set stored is what a reader finds at the path, with the same      *)
(* exception.                                                              *)
SetReadsBack ==
  LET s == last'.command.steps[1] IN
  Len(last'.command.steps) = 1 /\ last'.ok /\ ~idTouched' /\ s.op = "$set" =>
    \A k \in Matches(last'.command.filter) :
      \/ ~last'.command.multi /\ Cardinality(Matches(last'.command.filter)) > 1
      \/ Misnames(rows[k], s.path)
      \/ PathGet(rows'[k], s.path) = StoredValue(s.arg)

(* $addToSet, once or again, never leaves two equal elements in an array  *)
(* that had none, equal numbers of two types included.                     *)
NoTwins(v) == \A i, j \in DOMAIN v.f : ValueEqual(v.f[i].v, v.f[j].v) => i = j
SetsStaySets ==
  LET steps == last'.command.steps IN
  steps # <<>> /\ (\A i \in DOMAIN steps :
                      steps[i].op = "$addToSet" /\ steps[i].path = steps[1].path) =>
    \A k \in DOMAIN rows : NoTwins(PathGet(rows[k], steps[1].path)) =>
                             NoTwins(PathGet(rows'[k], steps[1].path))

(* Every update does what its operators say and reports it: the count is   *)
(* true, the path is set, nothing beside it changes and sets stay sets.    *)
UpdatesDoWhatTheySay ==
  [][ModifiedIsTrue /\ NothingBesideThePath /\ SetReadsBack /\ SetsStaySets]_updateVars
=============================================================================
