------------------------------- MODULE Where -------------------------------
(***************************************************************************)
(* Filters: filter.cpp compiles one to a WHERE clause, SQL evaluates it,   *)
(* and what it selects is compared with what MongoDB answers.              *)
(*                                                                         *)
(* A filter is a sequence of nodes [op, key, arg, subs], the whole last    *)
(* and each node after the ones it joins, whose positions are its subs; a  *)
(* leaf compares the field `key`. The document {a: 1, b: 2} is an $and. A  *)
(* document is given by the contents of its fields. SQL is external: three *)
(* truth values, and text that is no number is 0 when it has to be one.    *)
(***************************************************************************)
EXTENDS Bson

CONSTANTS
  Contents,    \* documents: functions from the names of fields to values
  Filters      \* filters on them

Connectives == {"$and", "$or", "$nor", "$not"}
Relations == {"$gt", "$gte", "$lt", "$lte"}
Lists == {"$in", "$nin"}

(* What bind() takes of the values modelled here; it refuses documents and *)
(* arrays. Booleans, dates, timestamps (compared by their own ordinal) and *)
(* object ids bind as well and are no values of these fields.              *)
Bound == [t : {"int", "long", "double", "string"}, n : Int, f : {<<>>}] \cup {Null}

(* A field may also hold containers of these and of containers.            *)
IsContent(v) ==
  \/ v \in Bound \cup {Missing}
  \/ /\ IsContainer(v) /\ v.f \in Seq({v.f[i] : i \in DOMAIN v.f})
     /\ \A i \in DOMAIN v.f : v.f[i].v \in Bound \/ IsContainer(v.f[i].v)

(* A comparison as compile_operator takes it.                              *)
IsLeaf(node) ==
  \/ node.op \in {"$eq", "$ne"} \cup Relations /\ node.arg \in Bound
  \/ node.op \in Lists /\ node.arg.t = "array"
       /\ \A i \in DOMAIN node.arg.f : node.arg.f[i].v \in Bound
  \/ node.op = "$exists" /\ node.arg \in Bound \cup [t : {"bool"}, n : {0, 1}, f : {<<>>}]

(* compile_logical and $not refuse to join nothing; an empty filter is an  *)
(* $and of nothing.                                                        *)
IsNode(node, before) ==
  IF node.op \in Connectives
  THEN node.subs \subseteq before /\ (node.op # "$and" => node.subs # {})
  ELSE node.subs = {} /\ IsLeaf(node)
IsFilter(f) ==
  /\ f \in Seq({f[i] : i \in DOMAIN f}) /\ f # <<>>
  /\ \A i \in DOMAIN f : IsNode(f[i], 1..(i - 1))

Leaves(f) == {f[i] : i \in {j \in DOMAIN f : f[j].op \notin Connectives}}
Names(f) == {leaf.key : leaf \in Leaves(f)}

ASSUME WhereAssumption ==
  \A f \in Filters :
    IsFilter(f) /\ \A key \in Names(f), c \in Contents : IsContent(c[key])

VARIABLE query
NoQuery == [area |-> "none"]

----------------------------------------------------------------------------
(* The WHERE clause                                                        *)

Not3(x) == CASE x = "T" -> "F" [] x = "F" -> "T" [] OTHER -> "N"
And3(S) == IF "F" \in S THEN "F" ELSE IF "N" \in S THEN "N" ELSE "T"
Or3(S) == IF "T" \in S THEN "T" ELSE IF "N" \in S THEN "N" ELSE "F"
Truth(b) == IF b THEN "T" ELSE "F"

(* scalar_expr is NULL for a missing field, for null, and for anything     *)
(* that is not a scalar.                                                   *)
IsSqlNull(v) == v.t \in {"missing", "null"} \/ IsContainer(v)

(* Mutant of Comparable: numbers compared as text, where "10" is below "2". *)
ComparableText(v, arg) == IF v.n >= 10 THEN v.n \div 10 ELSE v.n

(* comparable(): CAST AS DOUBLE against a number, text against text, where *)
(* digits come before letters.                                             *)
Comparable(v, arg) ==
  IF IsNumeric(arg) THEN (IF IsNumeric(v) THEN v.n ELSE 0)
  ELSE IF v.t = "string" THEN v.n ELSE -1

Relation(op, x, y) ==
  CASE op = "$eq" -> x = y [] op = "$gt" -> x > y [] op = "$gte" -> x >= y
    [] op = "$lt" -> x < y [] op = "$lte" -> x <= y

(* Null is bound like any operand, and a comparison with it is NULL.       *)
SqlCompare(op, v, arg) ==
  IF IsSqlNull(v) \/ arg = Null THEN "N" ELSE Truth(Relation(op, Comparable(v, arg), arg.n))

(* JSON_CONTAINS of the canonical literal, types included.                 *)
JsonContains(v, arg) ==
  CASE v.t = "missing" -> "N"
    [] v.t = "array" -> Truth(\E i \in DOMAIN v.f : v.f[i].v = arg)
    [] OTHER -> Truth(v = arg)

(* compile_eq.                                                             *)
SqlEq(v, arg) ==
  IF arg = Null THEN Truth(IsSqlNull(v))
  ELSE Or3({SqlCompare("$eq", v, arg), JsonContains(v, arg)})

(* compile_in: an empty list is a constant.                                *)
SqlIn(v, list) == Or3({SqlCompare("$eq", v, list[i]) : i \in DOMAIN list})

(* What $exists wants: anything but false.                                 *)
Wanted(arg) == IF arg.t = "bool" THEN arg.n = 1 ELSE TRUE

(* compile_field and compile_operator, given the clauses joined.           *)
SqlNode(v, node, subs) ==
  CASE node.op = "$eq" -> SqlEq(v, node.arg)
    [] node.op = "$ne" -> Not3(SqlEq(v, node.arg))
    [] node.op \in Relations -> SqlCompare(node.op, v, node.arg)
    [] node.op = "$in" -> SqlIn(v, Elements(node.arg))
    [] node.op = "$nin" -> Not3(SqlIn(v, Elements(node.arg)))
    [] node.op = "$exists" -> Truth((v # Missing) = Wanted(node.arg))
    [] node.op = "$and" -> And3(subs)
    [] node.op = "$or" -> Or3(subs)
    [] node.op = "$nor" -> Not3(Or3(subs))
    [] node.op = "$not" -> Not3(And3(subs))

(* compile_document, and the value of the clause for a document.           *)
Held(c, node) == IF node.op \in Connectives THEN Missing ELSE c[node.key]
Sql(c, f) ==
  LET value[i \in DOMAIN f] == SqlNode(Held(c, f[i]), f[i], {value[j] : j \in f[i].subs})
  IN value[Len(f)]

(* Filters joined to one, as compile_logical joins its branches.           *)
Shifted(f, by) == [i \in DOMAIN f |-> [f[i] EXCEPT !.subs = {j + by : j \in f[i].subs}]]
Combined(op, filters) ==
  LET nodes[i \in 0..Len(filters)] ==
        IF i = 0 THEN <<>> ELSE nodes[i - 1] \o Shifted(filters[i], Len(nodes[i - 1]))
  IN Append(nodes[Len(filters)],
            [op |-> op, key |-> "none", arg |-> Null,
             subs |-> {Len(nodes[i]) : i \in 1..Len(filters)}])

----------------------------------------------------------------------------
(* The reference: what MongoDB answers.                                    *)

Bracket(v) == IF IsNumeric(v) THEN "number" ELSE v.t
Candidates(v) == {v} \cup IF v.t = "array" THEN {v.f[i].v : i \in DOMAIN v.f} ELSE {}
MongoEq(v, arg) ==
  \/ \E c \in Candidates(v) : ValueEqual(c, arg)
  \/ arg = Null /\ v = Missing

IsTrue(arg) == arg # Null /\ (arg.t = "string" \/ arg.n # 0)

MongoNode(v, node, subs) ==
  CASE node.op = "$eq" -> MongoEq(v, node.arg)
    [] node.op = "$ne" -> ~MongoEq(v, node.arg)
    [] node.op \in Relations ->
         \/ \E c \in Candidates(v) :
              Bracket(c) = Bracket(node.arg) /\ Relation(node.op, c.n, node.arg.n)
         \/ node.op \in {"$gte", "$lte"} /\ node.arg = Null /\ v = Missing
    [] node.op = "$in" -> \E i \in DOMAIN node.arg.f : MongoEq(v, node.arg.f[i].v)
    [] node.op = "$nin" -> \A i \in DOMAIN node.arg.f : ~MongoEq(v, node.arg.f[i].v)
    [] node.op = "$exists" -> (v # Missing) = IsTrue(node.arg)
    [] node.op = "$and" -> FALSE \notin subs
    [] node.op = "$or" -> TRUE \in subs
    [] node.op = "$nor" -> TRUE \notin subs
    [] node.op = "$not" -> FALSE \in subs

Mongo(c, f) ==
  LET value[i \in DOMAIN f] == MongoNode(Held(c, f[i]), f[i], {value[j] : j \in f[i].subs})
  IN value[Len(f)]

----------------------------------------------------------------------------

AskFilter == \E f \in Filters, c \in Contents : query' = [area |-> "filter", c |-> c, f |-> f]

WhereInit == query = NoQuery
WhereNext == query = NoQuery /\ AskFilter
WhereSpec == WhereInit /\ [][WhereNext]_query

----------------------------------------------------------------------------
(* Properties                                                              *)

Negates(f) == \E i \in DOMAIN f : f[i].op \in {"$ne", "$nin", "$not", "$nor"}
Operands(leaf) ==
  IF leaf.op \in Lists THEN {leaf.arg.f[i].v : i \in DOMAIN leaf.arg.f} ELSE {leaf.arg}

(* A comparison with null is NULL, which $eq and $ne have an IS NULL for.  *)
ComparesNull(leaf) == leaf.op \in Relations \cup Lists /\ Null \in Operands(leaf)

(* Where the WHERE clause can be trusted: a scalar is compared with        *)
(* scalars of its kind, and under a negation with no null in a list or by  *)
(* its order; where a field is null or missing nothing is negated and no   *)
(* list or order is of null; a document meets no negation and no null; an  *)
(* array only meets $eq of a value of its elements' type, and has some if  *)
(* that is null. $exists takes a boolean.                                  *)
TrustedValue(v, leaf, negates) ==
  CASE v.t \in {"missing", "null"} -> ~negates /\ ~ComparesNull(leaf)
    [] v.t = "document" -> ~negates /\ Null \notin Operands(leaf)
    [] v.t = "array" -> /\ ~negates /\ leaf.op = "$eq"
                        /\ leaf.arg = Null => v.f # <<>>
                        /\ \A i \in DOMAIN v.f : leaf.arg.t = v.f[i].v.t
    [] OTHER -> /\ negates => ~ComparesNull(leaf)
                /\ \A x \in Operands(leaf) : x = Null \/ Bracket(x) = Bracket(v)
TrustedLeaf(v, leaf, negates) ==
  IF leaf.op = "$exists" THEN leaf.arg.t = "bool" ELSE TrustedValue(v, leaf, negates)
Trusted(c, f) == \A leaf \in Leaves(f) : TrustedLeaf(c[leaf.key], leaf, Negates(f))

(* Within those limits the compiled filter selects exactly the documents   *)
(* MongoDB would, through all of SQL's third truth value.                  *)
FilterAgrees ==
  query.area = "filter" /\ Trusted(query.c, query.f) =>
    (Sql(query.c, query.f) = "T") = Mongo(query.c, query.f)
=============================================================================
