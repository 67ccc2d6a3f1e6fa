------------------------------- MODULE Queries -------------------------------
(***************************************************************************)
(* How what a WHERE clause selects (Where) is shaped: sort.cpp,            *)
(* project.cpp, pipeline.cpp and the read commands. Pure functions,        *)
(* compared with one another; the state is the question.                   *)
(***************************************************************************)
EXTENDS Where, Paths

CONSTANTS
  SortKeys,    \* sort specifications: sequences of [path, dir]
  Records,     \* documents to sort, shape, group and project
  MaxRecords,  \* longest collection
  ProjectSets, \* paths to project: sets
  Pipelines    \* sequences of stages

----------------------------------------------------------------------------
(* Order, projection, paging                                               *)

(* type_rank, of the types used here.                                      *)
Rank(v) == CASE v.t \in {"null", "missing"} -> 1 [] IsNumeric(v) -> 2
             [] v.t = "string" -> 3 [] v.t = "document" -> 4 [] v.t = "array" -> 5
             [] v.t = "regex" -> 11

Sign(n) == IF n < 0 THEN -1 ELSE IF n > 0 THEN 1 ELSE 0
KeyOrder == <<"_id", "a", "b", "c">>
KeyRank(k) == CHOOSE i \in DOMAIN KeyOrder : KeyOrder[i] = k

(* compare_values. A number that is NaN has no place here: it is neither   *)
(* less than nor greater than any number. A regular expression is less or  *)
(* it is equal.                                                            *)
RECURSIVE Compare(_, _)
Compare(a, b) ==
  LET CompareFields[i \in 1..(Len(a.f) + 1)] ==
        IF i > Len(a.f) \/ i > Len(b.f) THEN Sign(Len(a.f) - Len(b.f))
        ELSE IF a.t = "document" /\ a.f[i].k # b.f[i].k
             THEN Sign(KeyRank(a.f[i].k) - KeyRank(b.f[i].k))
        ELSE LET c == Compare(a.f[i].v, b.f[i].v) IN IF c # 0 THEN c ELSE CompareFields[i + 1]
  IN IF Rank(a) # Rank(b) THEN Sign(Rank(a) - Rank(b))
     ELSE CASE Rank(a) \in {2, 3} -> Sign(a.n - b.n)
            [] Rank(a) \in {4, 5} -> CompareFields[1]
            [] Rank(a) = 11 -> IF a.n < b.n THEN -1 ELSE 0
            [] OTHER -> 0

OrNull(v) == IF v = Missing THEN Null ELSE v

Difference(x, y, key) ==
  key.dir * Compare(OrNull(PathGet(x, key.path)), OrNull(PathGet(y, key.path)))

(* Mutant of Less: documents that tie are less than each other.            *)
LessOrTied(x, y, keys) == \A i \in DOMAIN keys : Difference(x, y, keys[i]) <= 0

(* The comparator of sort_documents: the first key that tells them apart.  *)
Less(x, y, keys) ==
  \E i \in DOMAIN keys : /\ Difference(x, y, keys[i]) < 0
                         /\ \A j \in 1..(i - 1) : Difference(x, y, keys[j]) = 0

(* std::stable_sort.                                                       *)
StableSort(docs, keys) ==
  LET before(i, j) == Less(docs[i], docs[j], keys) \/ (~Less(docs[j], docs[i], keys) /\ i < j)
      place(i) == 1 + Cardinality({j \in DOMAIN docs : before(j, i)})
  IN [k \in DOMAIN docs |-> docs[CHOOSE i \in DOMAIN docs : place(i) = k]]

(* Mutant of Exclude: the whole field goes.                                *)
ExcludeTop(doc, paths) == SelectSeq(doc, LAMBDA x : \A p \in paths : p[1] # x.k)

(* project: exclusion removes from a copy, inclusion builds anew, the _id  *)
(* first; here the spec says nothing of _id, and its paths are unrelated.  *)
Exclude(doc, paths) ==
  LET todo[S \in SUBSET paths] ==
        IF S = {} THEN doc
        ELSE LET p == CHOOSE q \in S : TRUE IN PathUnset(todo[S \ {p}], p)
  IN todo[paths]
Include(doc, paths) ==
  LET id == PathGet(doc, <<"_id">>)
      start == IF id = Missing THEN <<>> ELSE <<Field("_id", id)>>
      todo[S \in SUBSET paths] ==
        IF S = {} THEN start
        ELSE LET p == CHOOSE q \in S : TRUE
                 rest == todo[S \ {p}]
             IN IF PathGet(doc, p) = Missing THEN rest ELSE PathSet(rest, p, PathGet(doc, p))
  IN todo[paths]

Least(a, b) == IF a < b THEN a ELSE b
Drop(docs, n) == SubSeq(docs, Least(n, Len(docs)) + 1, Len(docs))
Take(docs, n) == SubSeq(docs, 1, Least(n, Len(docs)))

(* Mutant of ShapeResults: the page is cut before it is skipped to.        *)
LimitThenSkip(docs, keys, skip, limit) ==
  LET sorted == StableSort(docs, keys) IN Drop(IF limit > 0 THEN Take(sorted, limit) ELSE sorted, skip)

(* shape_results: a negative limit caps by its magnitude.                  *)
Cap(limit) == IF limit < 0 THEN -limit ELSE limit
ShapeResults(docs, keys, skip, limit) ==
  LET page == Drop(StableSort(docs, keys), skip)
  IN IF Cap(limit) > 0 THEN Take(page, Cap(limit)) ELSE page

(* cmd_count, for which a negative limit is none.                          *)
Count(docs, skip, limit) ==
  LET n == IF Len(docs) > skip THEN Len(docs) - skip ELSE 0
  IN IF limit > 0 THEN Least(n, limit) ELSE n

(* Mutant of SameKey: numbers of two types are two groups.                 *)
SameKeyAndType(a, b) == a = b

SameKey(a, b) == ValueEqual(a, b)

(* Values in order of first appearance, one of each.                       *)
Remember(values) ==
  LET seen[i \in 0..Len(values)] ==
        IF i = 0 THEN <<>>
        ELSE IF \E j \in DOMAIN seen[i - 1] : SameKey(seen[i - 1][j], values[i]) THEN seen[i - 1]
             ELSE Append(seen[i - 1], values[i])
  IN seen[Len(values)]

GroupKeys(docs, path) == [i \in DOMAIN docs |-> OrNull(PathGet(docs[i], path))]

(* apply_group with {_id: "$path", n: {$sum: 1}}: a document joins the     *)
(* first group of its key.                                                 *)
Group(docs, path) ==
  LET keys == GroupKeys(docs, path)
      groups[i \in 0..Len(keys)] ==
        IF i = 0 THEN <<>>
        ELSE LET mine == {g \in DOMAIN groups[i - 1] : SameKey(groups[i - 1][g].key, keys[i])}
             IN IF mine = {} THEN Append(groups[i - 1], [key |-> keys[i], sum |-> 1])
                ELSE [groups[i - 1] EXCEPT ![First(mine)].sum = @ + 1]
  IN groups[Len(keys)]

(* cmd_distinct: an array contributes its elements, a missing field nothing. *)
Distinct(docs, path) ==
  LET parts == [i \in DOMAIN docs |->
                  LET v == PathGet(docs[i], path)
                  IN IF v = Missing THEN <<>> ELSE IF v.t = "array" THEN Elements(v) ELSE <<v>>]
      all[i \in 0..Len(parts)] == IF i = 0 THEN <<>> ELSE all[i - 1] \o parts[i]
  IN Remember(all[Len(parts)])

----------------------------------------------------------------------------
(* Pipelines                                                               *)

StageOf(name) == [name |-> name, keys |-> <<>>, n |-> 0, filter |-> Combined("$and", <<>>)]
Selected(docs, f) ==
  SelectSeq(docs, LAMBDA d : Sql([key \in Names(f) |-> PathGet(d, <<key>>)], f) = "T")
Failure == [ok |-> FALSE, docs |-> <<>>]

(* One stage of run_stages. $match has no column to compile against here;  *)
(* $project includes a, $group is by a, $count and $sum go to c.           *)
Stage(docs, s) ==
  CASE s.name = "$sort" -> StableSort(docs, s.keys)
    [] s.name = "$skip" -> Drop(docs, s.n)
    [] s.name = "$limit" -> Take(docs, s.n)
    [] s.name = "$project" -> [i \in DOMAIN docs |-> Include(docs[i], {<<"a">>})]
    [] s.name = "$group" -> LET g == Group(docs, <<"a">>)
                            IN [i \in DOMAIN g |-> <<Field("_id", g[i].key), Field("c", Double(g[i].sum))>>]
    [] s.name = "$count" -> <<<<Field("c", Int64(Len(docs)))>>>>
RunStages(docs, stages) ==
  LET run[i \in 0..Len(stages)] ==
        IF i = 0 THEN [ok |-> TRUE, docs |-> docs]
        ELSE IF ~run[i - 1].ok \/ stages[i].name = "$match" THEN Failure
        ELSE [ok |-> TRUE, docs |-> Stage(run[i - 1].docs, stages[i])]
  IN run[Len(stages)]

Leading(stages) == {i \in DOMAIN stages : \A j \in 1..i : stages[j].name = "$match"}

(* Mutant of Prefilter: the last $match replaces the ones before it.       *)
PrefilterLast(stages) ==
  LET k == Cardinality(Leading(stages))
  IN IF k = 0 THEN StageOf("$match").filter ELSE stages[k].filter

(* split_pipeline: consecutive $match stages at the head become one        *)
(* conjunction, the WHERE clause of load, and the rest runs in memory.     *)
Prefilter(stages) ==
  LET k == Cardinality(Leading(stages))
  IN IF k = 1 THEN stages[1].filter
     ELSE Combined("$and", [i \in 1..k |-> stages[i].filter])
Aggregate(docs, stages) ==
  RunStages(Selected(docs, Prefilter(stages)),
            SubSeq(stages, Cardinality(Leading(stages)) + 1, Len(stages)))

----------------------------------------------------------------------------
(* The questions                                                           *)

Collected == UNION {[1..n -> Records] : n \in 0..MaxRecords}

AskOrder == \E x, y \in Records, k \in SortKeys :
              query' = [area |-> "order", x |-> x, y |-> y, keys |-> k]
AskPage == \E docs \in Collected, k \in SortKeys, s \in 0..2, l \in -1..2 :
             query' = [area |-> "page", docs |-> docs, keys |-> k, skip |-> s, limit |-> l]
AskGroup == \E docs \in Collected : query' = [area |-> "group", docs |-> docs]
AskProject == \E doc \in Records, P \in ProjectSets :
                query' = [area |-> "project", doc |-> doc, paths |-> P]
AskPipeline == \E docs \in Collected, p \in Pipelines :
                 Len(docs) < MaxRecords /\ query' = [area |-> "pipeline", docs |-> docs, stages |-> p]

QueriesInit == query = NoQuery
QueriesNext ==
  query = NoQuery /\ (AskFilter \/ AskOrder \/ AskPage \/ AskGroup \/ AskProject \/ AskPipeline)

----------------------------------------------------------------------------
(* Properties                                                              *)

HasRegex(doc) == \E i \in DOMAIN doc : doc[i].v.t = "regex"

(* What std::stable_sort requires of its comparator, for any two keys in   *)
(* any direction: asymmetry, and transitivity of "less" and of "neither".  *)
(* Regular expressions, which compare as less or equal but never as        *)
(* greater, are left out: two of them and a second key break it.           *)
SortOrderIsStrictWeak ==
  query.area = "order" =>
    LET x == query.x y == query.y k == query.keys
        Tie(p, q) == ~Less(p, q, k) /\ ~Less(q, p, k)
    IN ~HasRegex(x) /\ ~HasRegex(y) =>
         /\ ~(Less(x, y, k) /\ Less(y, x, k))
         /\ \A z \in Records : ~HasRegex(z) =>
              /\ Less(x, y, k) /\ Less(y, z, k) => Less(x, z, k)
              /\ Tie(x, y) /\ Tie(y, z) => Tie(x, z)

Sorted(docs, keys) == \A i, j \in DOMAIN docs : i < j => ~Less(docs[j], docs[i], keys)

(* Three ways to ask for one page agree: find with sort, skip and limit,   *)
(* the pipeline [$sort, $skip, $limit], and count, unless the limit is     *)
(* negative, which find and count take for two different things.           *)
PagesAgree ==
  query.area = "page" /\ (\A i \in DOMAIN query.docs : ~HasRegex(query.docs[i])) =>
    LET page == ShapeResults(query.docs, query.keys, query.skip, query.limit)
        stages == <<[StageOf("$sort") EXCEPT !.keys = query.keys],
                    [StageOf("$skip") EXCEPT !.n = query.skip]>>
                  \o IF query.limit = 0 THEN <<>> ELSE <<[StageOf("$limit") EXCEPT !.n = Cap(query.limit)]>>
    IN /\ page = Aggregate(query.docs, stages).docs
       /\ query.limit >= 0 => Len(page) = Count(query.docs, query.skip, query.limit)
       /\ Sorted(page, query.keys)

(* $group and distinct agree on what the values of a field are: the groups *)
(* divide the documents among them, and without arrays and missing fields  *)
(* the groups are the distinct values.                                     *)
GroupsAreDistinctValues ==
  query.area = "group" =>
    LET groups == Group(query.docs, <<"a">>)
        total[i \in 0..Len(groups)] == IF i = 0 THEN 0 ELSE total[i - 1] + groups[i].sum
        plain == \A i \in DOMAIN query.docs :
                   PathGet(query.docs[i], <<"a">>).t \notin {"array", "missing"}
    IN /\ total[Len(groups)] = Len(query.docs)
       /\ \A g, h \in DOMAIN groups : ValueEqual(groups[g].key, groups[h].key) => g = h
       /\ plain => [g \in DOMAIN groups |-> groups[g].key] = Distinct(query.docs, <<"a">>)

Leaf(doc, p) == LET v == PathGet(doc, p) IN IF IsContainer(v) THEN Missing ELSE v

(* Inclusion and exclusion of the same paths divide a document: every leaf *)
(* beside _id is in one of the two answers, with its value, and in one     *)
(* only.                                                                   *)
ProjectionsDivide ==
  query.area = "project" =>
    \A p \in {<<"a">>, <<"b">>, <<"a", "b">>, <<"a", "c">>, <<"a", "0">>} :
      LET v == Leaf(query.doc, p)
          answers == <<Leaf(Include(query.doc, query.paths), p),
                       Leaf(Exclude(query.doc, query.paths), p)>>
      IN IF v = Missing THEN answers = <<Missing, Missing>>
         ELSE answers \in {<<v, Missing>>, <<Missing, v>>}

(* The stages one by one, as a client reads them.                          *)
InTurn(docs, stages) ==
  LET run[i \in 0..Len(stages)] ==
        IF i = 0 THEN docs
        ELSE IF stages[i].name = "$match" THEN Selected(run[i - 1], stages[i].filter)
        ELSE Stage(run[i - 1], stages[i])
  IN run[Len(stages)]

(* A pipeline means its stages in turn, wherever split_pipeline cuts it;   *)
(* what cannot be had that way, a $match after another stage, is refused,  *)
(* never approximated ("Refusing beats guessing").                         *)
PipelinesMeanTheirStages ==
  query.area = "pipeline" =>
    LET result == Aggregate(query.docs, query.stages)
        late == \E i \in DOMAIN query.stages \ Leading(query.stages) :
                  query.stages[i].name = "$match"
    IN /\ result.ok = ~late
       /\ result.ok => result.docs = InTurn(query.docs, query.stages)

(* What is done to a result after the WHERE clause: the order is one that  *)
(* std::stable_sort can use, and sort, pages, groups, projections and      *)
(* whole pipelines agree with one another and with their stages.           *)
ResultsAreShaped ==
  /\ SortOrderIsStrictWeak /\ PagesAgree /\ GroupsAreDistinctValues
  /\ ProjectionsDivide /\ PipelinesMeanTheirStages
=============================================================================
