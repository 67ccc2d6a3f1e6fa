---------------------------- MODULE MCTranslator ----------------------------
(* The translator and the wire codec, as functions of what they are given. *)
(* The modules share no state: each run is of one part.                    *)
EXTENDS Updates, Queries, Keys, Wire, Shell

Steps(ops, paths, args) == {[op |-> o, path |-> p, arg |-> a] : o \in ops, p \in paths, a \in args}
With(name, v) == Document(<<Field(name, v)>>)

(* Operators at a field, below it and at an array's elements, with numbers *)
(* of two types and documents.                                             *)
Fields2 == {<<"a">>, <<"a", "b">>, <<"a", "1">>, <<"b">>}
SomeSteps ==
  Steps({"$set"}, Fields2, {Int32(1), Document(<<Field("c", Int32(1))>>), ArrayOf(<<Int32(1), Int32(2)>>)})
  \cup Steps({"$unset"}, Fields2 \cup {<<"a", "0">>}, {Int32(1)})
  \cup Steps({"$inc"}, {<<"a">>, <<"a", "b">>}, {Int32(1), Double(1)})
  \cup Steps({"$push", "$addToSet"}, {<<"a">>, <<"b">>},
            {Int32(1), Double(1), With("$each", ArrayOf(<<Int32(2), Double(2)>>)), With("$each", Int32(2)),
             With("$slice", Int32(1))})
  \cup Steps({"$pull"}, {<<"a">>}, {Double(1), Document(<<>>)})
  \cup Steps({"$pop"}, {<<"a">>}, {Int32(1), Int32(-1)})
  \cup Steps({"$set", "$unset"}, {Id}, {Int32(2)})
  \cup Steps({"$set"}, {<<"a", "b", "c">>}, {Document(<<Field("c", Int32(1))>>)})  \* too deep

(* Two operators in one update: the second sees what the first has done.   *)
SomePairs ==
  {<<x, y>> : x \in Steps({"$set"}, {<<"a">>}, {Int32(1), ArrayOf(<<Int32(1)>>)}),
              y \in Steps({"$addToSet", "$inc"}, {<<"a">>}, {Double(1)})}
  \cup {<<x, y>> : x, y \in Steps({"$addToSet"}, {<<"a">>}, {Int32(3), Double(3)})}

Cmd(filter, multi, upsert, steps, replace) ==
  [filter |-> filter, multi |-> multi, upsert |-> upsert, steps |-> steps, replace |-> replace]

SomeCommands ==
  {Cmd(f, m, u, <<s>>, <<>>) : f \in {Int32(1), Double(2)}, m \in {FALSE}, u \in {TRUE}, s \in SomeSteps}
  \cup {Cmd(Missing, m, FALSE, <<s>>, <<>>) : m \in BOOLEAN, s \in SomeSteps}
  \cup {Cmd(Int32(1), FALSE, FALSE, p, <<>>) : p \in SomePairs}
  \cup {Cmd(f, FALSE, TRUE, <<>>, r) : f \in {Int32(1), Int32(2)},
          r \in {<<Field("a", Int32(1))>>, <<Field("a", Int32(1)), Field("_id", Int32(2))>>}}

Person(id, a) == <<Field("_id", id), Field("a", a)>>
SomeTables ==
  {<<Person(Int32(1), ArrayOf(<<Int32(1), Int32(2)>>)), Person(Int32(2), Int32(1))>>,
   <<Person(Int32(1), Document(<<Field("b", Int32(1)), Field("c", Int32(1))>>))>>}

(* What two fields may hold, and filters on them, nested once.             *)
SomeValuesOfA ==
  {Missing, Null, Int32(2), Double(2), Int32(10), String(1), ArrayOf(<<Int32(2), Int32(10)>>),
   ArrayOf(<<>>), ArrayOf(<<Null>>), Document(<<Field("b", Int32(2))>>)}
SomeContents == {[a |-> v, b |-> w] : v \in SomeValuesOfA, w \in {Null, Int32(2)}}
Node(op, key, arg) == [op |-> op, key |-> key, arg |-> arg, subs |-> {}]
Filter(op, arg) == <<Node(op, "a", arg)>>
Operand == {Int32(2), Double(10), String(1), Null}
LeafFilters ==
  {Filter(op, v) : op \in {"$eq", "$ne"} \cup Relations, v \in Operand}
  \cup {Filter(op, ArrayOf(l)) : op \in Lists,
          l \in {<<>>, <<Int32(2)>>, <<Null, Int32(2)>>, <<String(1)>>}}
  \cup {Filter("$exists", v) : v \in {Scalar("bool", 0), Scalar("bool", 1), Int32(0)}}
OtherLeaves == {<<Node(op, "b", Int32(2))>> : op \in {"$eq", "$ne"}}
SomeFilters ==
  LeafFilters \cup OtherLeaves
  \cup {Combined(op, <<x>>) : op \in {"$not", "$nor"}, x \in LeafFilters}
  \cup {Combined(op, <<x, y>>) : op \in Connectives, x \in LeafFilters,
          y \in LeafFilters \cup OtherLeaves}

(* Documents with and without the fields asked for.                        *)
SomeValues ==
  {Null, Int32(1), Double(1), Int32(2), String(1), Regex(1), ArrayOf(<<Int32(1)>>),
   Document(<<Field("b", Int32(1)), Field("c", Int32(2))>>)}
SomeRecords ==
  {<<Field("_id", Int32(1))>>}
  \cup {<<Field("a", v)>> : v \in SomeValues}
  \cup {<<Field("a", v), Field("b", Int32(2))>> : v \in {Null, Int32(1)}}
Key(path, dir) == [path |-> path, dir |-> dir]
SomeSortKeys ==
  {<<>>, <<Key(<<"a">>, 1)>>, <<Key(<<"a">>, -1), Key(<<"b">>, 1)>>, <<Key(<<"a", "b">>, 1)>>}
SomeProjections == {{<<"a">>}, {<<"a", "b">>}, {<<"a", "0">>, <<"b">>}, {<<"a", "c">>, <<"a", "b">>}}

(* Up to three stages, $match anywhere.                                    *)
SomeStages ==
  {[StageOf("$match") EXCEPT !.filter = Filter("$gte", Int32(n))] : n \in {1, 2}}
  \cup {[StageOf("$match") EXCEPT !.filter = Filter("$exists", Scalar("bool", 1))],
        [StageOf("$sort") EXCEPT !.keys = <<Key(<<"a">>, -1)>>],
        [StageOf("$skip") EXCEPT !.n = 1], [StageOf("$limit") EXCEPT !.n = 1],
        StageOf("$project"), StageOf("$group"), StageOf("$count")}
SomePipelines == UNION {[1..n -> SomeStages] : n \in 0..3}

(* A body and up to two sequences, in any order, with up to two documents. *)
Doc(bytes) == <<Len(bytes) + 2>> \o bytes \o <<0>>
Body == [kind |-> 0, id |-> <<>>, docs |-> <<Doc(<<>>)>>]
List(id, docs) == [kind |-> 1, id |-> id, docs |-> docs]
SomeLists(id) == {List(id, docs) : docs \in {<<>>, <<Doc(<<1>>)>>, <<Doc(<<>>), Doc(<<0, 1>>)>>}}
SomeRequests ==
  {<<Body>>}
  \cup UNION {{<<Body, x>>, <<x, Body>>} : x \in SomeLists(<<1>>)}
  \cup UNION {{<<Body, x, y>>, <<x, Body, y>>, <<y, x, Body>>} :
                x \in SomeLists(<<1>>), y \in SomeLists(<<2>>)}

(* Arguments: documents with and without operators, and with both, arrays  *)
(* of documents and of other things, and words.                            *)
Named(v) == <<"x", v>>
Operator == <<"$op", ObjectOf(<<Named(WordValue)>>)>>
Element(v) == <<"none", v>>
SomeArguments ==
  {WordValue, ObjectOf(<<>>), ObjectOf(<<Named(WordValue), Named(ObjectOf(<<>>))>>),
   ObjectOf(<<Operator>>), ObjectOf(<<Operator, Named(WordValue)>>),
   ListOf(<<>>), ListOf(<<Element(ObjectOf(<<>>)), Element(ObjectOf(<<Named(WordValue)>>))>>),
   ListOf(<<Element(ListOf(<<>>)), Element(WordValue), Element(ObjectOf(<<>>))>>)}

VARIABLE part  \* the part this run is about

allVars == <<updateVars, query, question, message, statement, part>>

Init ==
  /\ part \in {"updates", "queries", "keys", "wire", "shell"}
  /\ UpdatesInit /\ QueriesInit /\ KeysInit /\ WireInit /\ ShellInit
  /\ part # "updates" => rows = InsertedRows(CHOOSE t \in Tables : TRUE)
Next ==
  /\ UNCHANGED part
  /\ \/ part = "updates" /\ UpdatesNext /\ UNCHANGED <<query, question, message, statement>>
     \/ part = "queries" /\ QueriesNext /\ UNCHANGED <<updateVars, question, message, statement>>
     \/ part = "keys" /\ KeysNext /\ UNCHANGED <<updateVars, query, message, statement>>
     \/ part = "wire" /\ WireNext /\ UNCHANGED <<updateVars, query, question, statement>>
     \/ part = "shell" /\ ShellNext /\ UNCHANGED <<updateVars, query, question, message>>
Spec == Init /\ [][Next]_allVars
=============================================================================
