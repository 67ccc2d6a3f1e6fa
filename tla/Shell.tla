------------------------------- MODULE Shell -------------------------------
(***************************************************************************)
(* mongo('db.<collection>.<verb>(...)') from its text to the command that  *)
(* is dispatched (mongosh.cpp) and the answer the caller gets              *)
(* (mongogateway.cc). A statement is the tokens after the verb: names,     *)
(* numbers and quoted strings are one token, "x", which may be a key or a  *)
(* value, and "$op" is a name that can only be a key.                      *)
(***************************************************************************)
EXTENDS Integers, Sequences, TLC

CONSTANTS
  Tokens,      \* tokens of arbitrary statements
  MaxTokens,   \* longest arbitrary statement
  Arguments,   \* arguments people write
  Shelf        \* documents in the collection

VARIABLE statement
NoStatementYet == [area |-> "none"]

(* A value is a word or has items: pairs of key and value.                 *)
WordValue == [k |-> "word", items |-> <<>>]
ObjectOf(items) == [k |-> "object", items |-> items]
ListOf(items) == [k |-> "array", items |-> items]

----------------------------------------------------------------------------
(* The reader                                                              *)

Token(t, i) == IF i \in DOMAIN t THEN t[i] ELSE "end"
Unreadable == [at |-> 0, v |-> <<>>]

(* value(), and the loop object(), array() and the argument list share: an *)
(* item, then a comma and another, or the closing token.                   *)
RECURSIVE Value(_, _), Items(_, _, _)
Items(t, i, keyed) ==
  LET key == IF keyed THEN Token(t, i) ELSE "none"
      from == IF keyed THEN i + 2 ELSE i
      one == Value(t, from)
      rest == Items(t, one.at + 1, keyed)
      item == <<key, one.v>>
  IN IF (keyed /\ ~(key \in {"x", "$op"} /\ Token(t, i + 1) = ":")) \/ one.at = 0 THEN Unreadable
     ELSE IF Token(t, one.at) # "," THEN [at |-> one.at, v |-> <<item>>]
     ELSE IF rest.at = 0 THEN Unreadable ELSE [at |-> rest.at, v |-> <<item>> \o rest.v]
Listed(t, i, close, keyed) ==
  LET items == Items(t, i, keyed)
  IN IF Token(t, i) = close THEN [at |-> i + 1, v |-> <<>>]
     ELSE IF items.at = 0 \/ Token(t, items.at) # close THEN Unreadable
     ELSE [at |-> items.at + 1, v |-> items.v]
Value(t, i) ==
  LET object == Listed(t, i + 1, "}", TRUE)
      array == Listed(t, i + 1, "]", FALSE)
  IN CASE Token(t, i) = "{" -> [object EXCEPT !.v = ObjectOf(@)]
       [] Token(t, i) = "[" -> [array EXCEPT !.v = ListOf(@)]
       [] Token(t, i) = "x" -> [at |-> i + 1, v |-> WordValue]
       [] OTHER -> Unreadable

(* Mutant of Ends: what follows the call is ignored.                       *)
EndsWherever(t, i) == TRUE

(* "Anything else after the call is a second statement we would silently   *)
(* ignore."                                                                *)
Ends(t, i) == Token(t, IF Token(t, i) = ";" THEN i + 1 ELSE i) = "end"

(* parse_shell_call, after the verb.                                       *)
ParseShellCall(t) ==
  LET args == Listed(t, 2, ")", FALSE)
  IN IF Token(t, 1) # "(" \/ args.at = 0 \/ ~Ends(t, args.at) THEN [ok |-> FALSE, args |-> <<>>]
     ELSE [ok |-> TRUE, args |-> [i \in DOMAIN args.v |-> args.v[i][2]]]

----------------------------------------------------------------------------
(* The command                                                             *)

UpdateVerbs == {"updateOne", "updateMany", "replaceOne"}
Verbs2 == {"find", "findOne"} \cup UpdateVerbs
ShellVerbs == Verbs2 \cup {"insertOne", "insertMany", "deleteOne", "deleteMany",
                           "countDocuments", "count", "aggregate"}

(* reject_extra_arguments.                                                 *)
Allowed(verb) == IF verb \in Verbs2 THEN 2 ELSE 1

Argument(args, i) == IF i \in DOMAIN args THEN args[i] ELSE [k |-> "none", items |-> <<>>]
Empty == ObjectOf(<<>>)
ItemValues(list) == [i \in DOMAIN list.items |-> list.items[i][2]]

(* Mutant of DocumentArgument: the filter never gets into the command.     *)
DocumentArgumentOmitted(args, i) == Empty

(* append_document_argument: an omitted one is an empty document.          *)
DocumentArgument(args, i) == IF i \in DOMAIN args THEN args[i] ELSE Empty

Projection(args) == IF 2 \in DOMAIN args THEN [projection |-> args[2]] ELSE <<>>

(* What each verb wants of its arguments: a document, none, or an array.   *)
Suits(verb, args) ==
  LET first == Argument(args, 1).k
      second == Argument(args, 2).k
  IN CASE verb \in {"find", "findOne"} -> {first, second} \subseteq {"object", "none"}
       [] verb = "insertOne" -> first = "object"
       [] verb \in {"insertMany", "aggregate"} -> first = "array"
       [] verb \in UpdateVerbs -> first \in {"object", "none"} /\ second = "object"
       [] OTHER -> first \in {"object", "none"}

(* build_shell_command: the command, field by field, and how its reply is  *)
(* shown. The one element of updates and deletes is not wrapped.           *)
BuildShellCommand(verb, args) ==
  [ok |-> Len(args) <= Allowed(verb) /\ Suits(verb, args),
   command |->
     CASE verb = "find" ->
            [name |-> "find", filter |-> DocumentArgument(args, 1)] @@ Projection(args)
       [] verb = "findOne" ->
            [name |-> "find", filter |-> DocumentArgument(args, 1), limit |-> 1] @@ Projection(args)
       [] verb = "insertOne" -> [name |-> "insert", documents |-> <<Argument(args, 1)>>]
       [] verb = "insertMany" -> [name |-> "insert", documents |-> ItemValues(Argument(args, 1))]
       [] verb \in UpdateVerbs ->
            [name |-> "update", q |-> DocumentArgument(args, 1), u |-> Argument(args, 2),
             multi |-> verb = "updateMany"]
       [] verb \in {"deleteOne", "deleteMany"} ->
            [name |-> "delete", q |-> DocumentArgument(args, 1),
             limit |-> IF verb = "deleteOne" THEN 1 ELSE 0]
       [] verb \in {"countDocuments", "count"} ->
            [name |-> "count", query |-> DocumentArgument(args, 1)]
       [] verb = "aggregate" -> [name |-> "aggregate", pipeline |-> Argument(args, 1)],
   result |-> CASE verb \in {"find", "aggregate"} -> "documents" [] verb = "findOne" -> "first"
                [] verb \in {"countDocuments", "count"} -> "count" [] OTHER -> "reply"]

----------------------------------------------------------------------------
(* What the handlers make of the command                                   *)

(* sub_document and number: a field that is not there is empty, or zero.   *)
SubDocument(c, name) == IF name \in DOMAIN c THEN c[name] ELSE Empty
NumberField(c, name) == IF name \in DOMAIN c THEN c[name] ELSE 0

(* An empty filter selects the collection, any other one n documents.      *)
Fitting(filter, n) == IF filter = Empty THEN Shelf ELSE n
UpTo(limit, n) == IF limit = 0 \/ n < limit THEN n ELSE limit

(* apply_update: operators, or a replacement, but not both.                *)
UpdateKind(u) ==
  LET keys == {u.items[i][1] : i \in DOMAIN u.items}
  IN CASE keys = {"$op"} -> "modify" [] "$op" \notin keys -> "replace" [] OTHER -> "refuse"

(* cmd_insert is ordered and stops at an element that is no document; as   *)
(* as_view has it, an array is one.                                        *)
Insertable(documents) ==
  LET taken == {n \in 0..Len(documents) : \A i \in 1..n : documents[i].k # "word"}
  IN SubSeq(documents, 1, CHOOSE n \in taken : \A m \in taken : m <= n)

(* What is done, to the documents of which filter, to how many, and with   *)
(* what: the update, the projection, the documents or the pipeline. If     *)
(* failed the reply has writeErrors.                                       *)
Done(did, where, many, with, failed) ==
  [did |-> did, where |-> where, many |-> many, with |-> with, failed |-> failed]

CmdFind(c, n) ==
  Done("read", SubDocument(c, "filter"),
       UpTo(NumberField(c, "limit"), Fitting(SubDocument(c, "filter"), n)),
       <<SubDocument(c, "projection")>>, FALSE)
CmdCount(c, n) ==
  Done("count", SubDocument(c, "query"), Fitting(SubDocument(c, "query"), n), <<>>, FALSE)
CmdAggregate(c) == Done("aggregate", Empty, Shelf, <<SubDocument(c, "pipeline")>>, FALSE)
CmdInsert(c) ==
  Done("insert", Empty, Len(Insertable(c.documents)), Insertable(c.documents),
       Insertable(c.documents) # c.documents)
CmdUpdate(c, n) ==
  IF UpdateKind(c.u) = "refuse" THEN Done("refuse", c.q, 0, <<c.u>>, Fitting(c.q, n) > 0)
  ELSE Done(UpdateKind(c.u), c.q, UpTo(IF c.multi THEN 0 ELSE 1, Fitting(c.q, n)), <<c.u>>, FALSE)
CmdDelete(c, n) == Done("delete", c.q, UpTo(c.limit, Fitting(c.q, n)), <<>>, FALSE)

Effect(c, n) ==
  CASE c.name = "find" -> CmdFind(c, n)
    [] c.name = "count" -> CmdCount(c, n)
    [] c.name = "aggregate" -> CmdAggregate(c)
    [] c.name = "insert" -> CmdInsert(c)
    [] c.name = "update" -> CmdUpdate(c, n)
    [] c.name = "delete" -> CmdDelete(c, n)

(* run_mongo_gateway: an array, a document or null, a number, or the       *)
(* command's reply.                                                        *)
Shown(result, effect) ==
  CASE result = "documents" -> "array"
    [] result = "first" -> IF effect.many = 0 THEN "null" ELSE "document"
    [] result = "count" -> "number"
    [] OTHER -> "reply"

----------------------------------------------------------------------------

AskText == \E n \in 0..MaxTokens : \E tail \in [1..n -> Tokens] :
             statement' = [area |-> "text", tokens |-> <<"(">> \o tail]
AskCall == \E verb \in ShellVerbs, n \in 0..3, m \in 0..Shelf : \E args \in [1..n -> Arguments] :
             statement' = [area |-> "call", verb |-> verb, args |-> args, matches |-> m]

ShellInit == statement = NoStatementYet
ShellNext == statement = NoStatementYet /\ (AskText \/ AskCall)

----------------------------------------------------------------------------
(* Properties                                                              *)

RECURSIVE Text(_), Texts(_, _)
Text(v) == CASE v.k = "word" -> <<"x">>
             [] v.k = "object" -> <<"{">> \o Texts(v.items, 1) \o <<"}">>
             [] v.k = "array" -> <<"[">> \o Texts(v.items, 1) \o <<"]">>
Texts(items, i) ==
  IF i > Len(items) THEN <<>>
  ELSE (IF i > 1 THEN <<",">> ELSE <<>>)
       \o (IF items[i][1] = "none" THEN <<>> ELSE <<items[i][1], ":">>)
       \o Text(items[i][2]) \o Texts(items, i + 1)
CallText(args) == <<"(">> \o Texts([i \in DOMAIN args |-> <<"none", args[i]>>], 1) \o <<")">>

(* Of all token sequences only calls are read, and to their last token: no *)
(* argument, comma or second statement is dropped on the way. And a call   *)
(* that is written out is read back as itself.                             *)
StatementsReadWhole ==
  /\ statement.area = "text" =>
       LET t == statement.tokens
           call == ParseShellCall(t)
       IN call.ok => t \in {CallText(call.args), CallText(call.args) \o <<";">>}
  /\ statement.area = "call" =>
       ParseShellCall(CallText(statement.args)) = [ok |-> TRUE, args |-> statement.args]

(* What mongosh does for the verb, n documents fitting a filter that asks  *)
(* for something.                                                          *)
Means(verb, args, n) ==
  LET first == IF args = <<>> THEN Empty ELSE args[1]
      fit == IF first.items = <<>> THEN Shelf ELSE n
      one == IF fit = 0 THEN 0 ELSE 1
      second == IF Len(args) > 1 THEN args[2] ELSE Empty
  IN CASE verb = "find" -> <<"read", first, fit, <<second>>>>
       [] verb = "findOne" -> <<"read", first, one, <<second>>>>
       [] verb \in {"countDocuments", "count"} -> <<"count", first, fit, <<>>>>
       [] verb = "aggregate" -> <<"aggregate", Empty, Shelf, <<first>>>>
       [] verb = "insertOne" -> <<"insert", Empty, 1, <<first>>>>
       [] verb = "insertMany" ->
            <<"insert", Empty, Len(first.items), [i \in DOMAIN first.items |-> first.items[i][2]]>>
       [] verb = "updateOne" -> <<"modify", first, one, <<second>>>>
       [] verb = "updateMany" -> <<"modify", first, fit, <<second>>>>
       [] verb = "replaceOne" -> <<"replace", first, one, <<second>>>>
       [] verb = "deleteOne" -> <<"delete", first, one, <<>>>>
       [] verb = "deleteMany" -> <<"delete", first, fit, <<>>>>

(* What mongosh refuses and this gateway does not: a replacement given to  *)
(* an update or the reverse, a write without a filter, which goes to the   *)
(* whole collection, and a list of documents that has something else in    *)
(* it, of which the gateway inserts what comes before the first word.      *)
MongoshRefuses(verb, args) ==
  \/ verb \in UpdateVerbs \cup {"deleteOne", "deleteMany"} /\ args = <<>>
  \/ verb \in {"updateOne", "updateMany"} /\ args[2].items = <<>>
  \/ verb \in UpdateVerbs /\ \E i \in DOMAIN args[2].items :
       (args[2].items[i][1] = "$op") = (verb = "replaceOne")
  \/ verb = "insertMany" /\ \E i \in DOMAIN args[1].items : args[1].items[i][2].k # "object"

(* An argument has got to where the handlers look for it.                  *)
Arrives(v, effect) == v = effect.where \/ effect.with \in {<<v>>, ItemValues(v)}

(* An accepted call does what it does in mongosh: each argument reaches    *)
(* the handler as what its place makes it (build_shell_command's field     *)
(* names are the ones sub_document and view_field read), none is ignored,  *)
(* and what is not inserted is reported. null means that nothing matched.  *)
CallsMeanWhatTheySay ==
  statement.area = "call" =>
    LET verb == statement.verb
        args == statement.args
        c == BuildShellCommand(verb, args)
    IN c.ok =>
         LET e == Effect(c.command, statement.matches)
         IN /\ ~MongoshRefuses(verb, args) =>
                 /\ <<e.did, e.where, e.many, e.with>> = Means(verb, args, statement.matches)
                 /\ \A i \in DOMAIN args : Arrives(args[i], e)
            /\ verb = "insertMany" /\ e.many < Len(args[1].items) => e.failed
            /\ (Shown(c.result, e) = "null") <=>
                  (verb = "findOne" /\ Means(verb, args, statement.matches)[3] = 0)

(* A mongo() statement is read whole and means what mongosh means by it.   *)
StatementsMeanWhatTheySay == StatementsReadWhole /\ CallsMeanWhatTheySay
=============================================================================
