------------------------------ MODULE Catalog ------------------------------
(***************************************************************************)
(* The life of one collection (collection.cc): its table, the triggers     *)
(* that mirror it, its rows in chimera_meta.collections and in             *)
(* chimera_meta.indexes. Every operation is a sequence of statements that  *)
(* commit one by one, DDL by itself and catalog rows in autocommit, so     *)
(* other sessions run between any two of them and a session that dies      *)
(* leaves what it had done.                                                *)
(***************************************************************************)
EXTENDS Integers, FiniteSets

CONSTANTS
  Sessions,   \* connections
  Indexes,    \* index names
  Kinds,      \* operations sessions run
  Aborts,     \* may a session die, or fail, between two statements?
  NoIndex

ASSUME CatalogAssumption ==
  /\ Aborts \in BOOLEAN /\ NoIndex \notin Indexes
  /\ Kinds \subseteq {"create", "insert", "adopt", "drop", "dropDatabase",
                      "createIndex", "dropIndex"}

VARIABLES
  table,       \* does the table exist?
  triggers,    \* its oplog triggers
  built,       \* its secondary indexes
  registered,  \* row in chimera_meta.collections
  indexRows,   \* rows in chimera_meta.indexes
  unmirrored,  \* history: was a document written without an oplog entry?
  torn,        \* history: did an installer of this table's triggers die?
  pc,          \* per session: next statement
  kind,        \* per session: its operation
  index        \* per session: the index it is about

tableVars == <<table, triggers, built>>
catalogVars == <<registered, indexRows>>
historyVars == <<unmirrored, torn>>
sessionVars == <<pc, kind, index>>
vars == <<tableVars, catalogVars, historyVars, sessionVars>>

AllTriggers == {"i", "u", "d"}
Creating == {"create", "insert", "createIndex"}
Dropping == {"drop", "dropDatabase"}

Init ==
  /\ table = FALSE /\ triggers = {} /\ built = {}
  /\ registered = FALSE /\ indexRows = {}
  /\ unmirrored = FALSE /\ torn = FALSE
  /\ pc = [s \in Sessions |-> "idle"]
  /\ kind = [s \in Sessions |-> "create"]
  /\ index = [s \in Sessions |-> NoIndex]

(* The statement at `from` runs, `to` is next.                             *)
Goto(s, from, to) ==
  /\ pc[s] = from
  /\ pc' = [pc EXCEPT ![s] = to]
  /\ UNCHANGED <<kind, index>>

Begin(s, k, x) ==
  /\ pc[s] = "idle" /\ k \in Kinds
  /\ (k \in {"createIndex", "dropIndex"}) = (x # NoIndex)
  /\ pc' = [pc EXCEPT ![s] = CASE k = "adopt" -> "register"
                               [] k = "dropDatabase" -> "drop"
                               [] OTHER -> "exists"]
  /\ kind' = [kind EXCEPT ![s] = k]
  /\ index' = [index EXCEPT ![s] = x]
  /\ UNCHANGED <<tableVars, catalogVars, historyVars>>

----------------------------------------------------------------------------
(* create(), and chimera_adopt_table, which it ends with                   *)

(* What a command does once the collection exists.                         *)
Then(s) == CASE kind[s] = "insert" -> "write"
             [] kind[s] = "createIndex" -> "find"
             [] OTHER -> "idle"

(* exists(), and require_exists() for dropIndex.                           *)
Exists(s) ==
  /\ Goto(s, "exists",
          CASE kind[s] \in Creating -> IF table THEN Then(s) ELSE "table"
            [] kind[s] = "drop" -> IF table THEN "drop" ELSE "idle"
            [] OTHER -> IF table THEN "lookup" ELSE "idle")
  /\ UNCHANGED <<tableVars, catalogVars, historyVars>>

(* CREATE DATABASE and CREATE TABLE, both IF NOT EXISTS. A DROP DATABASE    *)
(* between the two refuses the second one: one of the deaths in Fail.      *)
CreateTable(s) ==
  /\ Goto(s, "table", "register")
  /\ table' = TRUE
  /\ UNCHANGED <<triggers, built, catalogVars, historyVars>>

Register(s) ==
  /\ Goto(s, "register", "i")
  /\ registered' = TRUE
  /\ UNCHANGED <<tableVars, indexRows, historyVars>>

AfterTrigger(k) == IF k = "i" THEN "u" ELSE "d"

(* Mutant of CreateTrigger: a table that has triggers is taken for done.   *)
CreateFirstTrigger(s, k) ==
  /\ table
  /\ Goto(s, k, Then(s))
  /\ triggers' = IF triggers = {} THEN {k} ELSE triggers
  /\ torn' = FALSE
  /\ UNCHANGED <<table, built, catalogVars, unmirrored>>

(* CREATE OR REPLACE TRIGGER                                               *)
CreateTrigger(s, k) ==
  /\ table
  /\ Goto(s, k, IF k = "d" THEN Then(s) ELSE AfterTrigger(k))
  /\ triggers' = triggers \cup {k}
  /\ torn' = (torn /\ triggers' # AllTriggers)
  /\ UNCHANGED <<table, built, catalogVars, unmirrored>>

(* INSERT into the table fires whatever triggers it has.                   *)
InsertDocument(s) ==
  /\ table
  /\ Goto(s, "write", "idle")
  /\ unmirrored' = (unmirrored \/ "i" \notin triggers)
  /\ UNCHANGED <<tableVars, catalogVars, torn>>

----------------------------------------------------------------------------
(* drop() and drop_database()                                              *)

(* Mutant of DropTable: the triggers are objects of their own.             *)
DropKeepsTriggers(s) ==
  /\ table \/ kind[s] = "dropDatabase"
  /\ Goto(s, "drop", "dropRow")
  /\ table' = FALSE /\ built' = {} /\ torn' = FALSE
  /\ UNCHANGED <<triggers, catalogVars, unmirrored>>

DropTable(s) ==
  /\ table \/ kind[s] = "dropDatabase"
  /\ Goto(s, "drop", "dropRow")
  /\ table' = FALSE /\ triggers' = {} /\ built' = {} /\ torn' = FALSE
  /\ UNCHANGED <<catalogVars, unmirrored>>

DeleteRow(s) ==
  /\ Goto(s, "dropRow", "dropIndexes")
  /\ registered' = FALSE
  /\ UNCHANGED <<tableVars, indexRows, historyVars>>

DeleteIndexRows(s) ==
  /\ Goto(s, "dropIndexes", "idle")
  /\ indexRows' = {}
  /\ UNCHANGED <<tableVars, registered, historyVars>>

----------------------------------------------------------------------------
(* create_index() and drop_index()                                         *)

AlreadyThere(s) == pc[s] = "find" /\ index[s] \in indexRows

FindIndex(s) ==
  /\ Goto(s, "find", IF AlreadyThere(s) THEN "idle" ELSE "alter")
  /\ UNCHANGED <<tableVars, catalogVars, historyVars>>

(* ALTER TABLE ... ADD COLUMN ..., ADD INDEX: fails if the column is there. *)
AddIndex(s) ==
  /\ table /\ index[s] \notin built
  /\ Goto(s, "alter", "row")
  /\ built' = built \cup {index[s]}
  /\ UNCHANGED <<table, triggers, catalogVars, historyVars>>

ReplaceIndexRow(s) ==
  /\ Goto(s, "row", "idle")
  /\ indexRows' = indexRows \cup {index[s]}
  /\ UNCHANGED <<tableVars, registered, historyVars>>

LookupIndex(s) ==
  /\ Goto(s, "lookup", IF index[s] \in indexRows THEN "unalter" ELSE "idle")
  /\ UNCHANGED <<tableVars, catalogVars, historyVars>>

DropIndex(s) ==
  /\ table /\ index[s] \in built
  /\ Goto(s, "unalter", "unrow")
  /\ built' = built \ {index[s]}
  /\ UNCHANGED <<table, triggers, catalogVars, historyVars>>

DeleteIndexRow(s) ==
  /\ Goto(s, "unrow", "idle")
  /\ indexRows' = indexRows \ {index[s]}
  /\ UNCHANGED <<tableVars, registered, historyVars>>

----------------------------------------------------------------------------

Installing(s) == pc[s] \in {"register", "i", "u", "d"} /\ kind[s] # "adopt"

(* A statement the server refuses ends the command with an error.          *)
Refused(s) ==
  \/ pc[s] \in {"i", "u", "d", "write", "unalter", "alter"} /\ ~table
  \/ pc[s] = "drop" /\ ~table /\ kind[s] = "drop"
  \/ pc[s] = "alter" /\ index[s] \in built
  \/ pc[s] = "unalter" /\ index[s] \notin built

Fail(s) ==
  /\ Refused(s) \/ (Aborts /\ pc[s] # "idle")
  /\ pc' = [pc EXCEPT ![s] = "idle"]
  /\ torn' = (torn \/ (table /\ Installing(s)))
  /\ UNCHANGED <<tableVars, catalogVars, unmirrored, kind, index>>

SessionStep(s) ==
  \/ \E k \in Kinds, x \in Indexes \cup {NoIndex} : Begin(s, k, x)
  \/ Exists(s) \/ CreateTable(s) \/ Register(s)
  \/ \E k \in AllTriggers : CreateTrigger(s, k)
  \/ InsertDocument(s)
  \/ DropTable(s) \/ DeleteRow(s) \/ DeleteIndexRows(s)
  \/ FindIndex(s) \/ AddIndex(s) \/ ReplaceIndexRow(s)
  \/ LookupIndex(s) \/ DropIndex(s) \/ DeleteIndexRow(s)
  \/ Fail(s)

Next == \E s \in Sessions : SessionStep(s)
Spec == Init /\ [][Next]_vars

----------------------------------------------------------------------------
(* Properties                                                              *)

Steps == {"idle", "exists", "table", "register", "i", "u", "d", "write", "drop",
          "dropRow", "dropIndexes", "find", "alter", "row", "lookup", "unalter", "unrow"}

(* Types; triggers and indexes go with their table.                        *)
CatalogTypeOK ==
  /\ {table, registered, unmirrored, torn} \subseteq BOOLEAN
  /\ triggers \subseteq AllTriggers
  /\ built \subseteq Indexes /\ indexRows \subseteq Indexes
  /\ ~table => triggers = {} /\ built = {}
  /\ pc \in [Sessions -> Steps]
  /\ kind \in [Sessions -> Kinds \cup {"create"}]
  /\ index \in [Sessions -> Indexes \cup {NoIndex}]

(* A table without its mirror has a session at work on the triggers it     *)
(* lacks, or one died at it: no interleaving of creators, droppers and     *)
(* adopters leaves a table that nobody is going to mirror, though the      *)
(* table one create() made may be dropped and made again by others while   *)
(* it runs (create(), chimera_adopt_table, drop()).                        *)
ToInstall(s) ==
  CASE pc[s] \in {"register", "i"} -> AllTriggers
    [] pc[s] = "u" -> {"u", "d"}
    [] pc[s] = "d" -> {"d"}
    [] OTHER -> {}
MirrorOrInProgress ==
  table => \/ triggers = AllTriggers \/ torn
           \/ \E s \in Sessions : Installing(s) /\ AllTriggers \ triggers \subseteq ToInstall(s)

(* The comment in create(): "a table can never exist without the mirror    *)
(* that watches it". Seen from a client: every insert has its oplog entry. *)
EveryWriteMirrored == ~unmirrored
=============================================================================
