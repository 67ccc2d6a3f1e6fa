------------------------------ MODULE Cursors ------------------------------
(***************************************************************************)
(* The cursor registry (cursor.cc) and everybody who uses it: wire clients *)
(* through find, aggregate, getMore and killCursors, and SQL callers of    *)
(* mongo(), whose collect_cursor drains a cursor in process.               *)
(*                                                                         *)
(* A registry call is atomic: it holds the registry's mutex. A getMore is  *)
(* two of them, tail_state and then next_batch or advance_tail, and other  *)
(* connections run in between. A document of a result is <<who asked, its  *)
(* position>>. next_id_++ never repeats an id: here a new cursor gets an   *)
(* id nobody has any record of, so that runs can be endless. Time is kept  *)
(* as the seconds since a cursor was last used.                            *)
(***************************************************************************)
EXTENDS Integers, Sequences, FiniteSets

CONSTANTS
  WireClients,       \* clients on the wire; their connections may break
  SqlCallers,        \* sessions running SELECT mongo('...')
  Ids,               \* cursor ids
  Collections,       \* namespaces
  Home,              \* per user: the namespace it reads
  MaxResult,         \* longest result
  BatchSizes,        \* batchSize values of wire clients
  DefaultBatchSize,  \* kDefaultBatchSize
  IdleTimeout        \* kIdleTimeoutSeconds

Users == WireClients \cup SqlCallers

ASSUME CursorsAssumption ==
  /\ WireClients \cap SqlCallers = {}
  /\ Ids \subseteq Nat \ {0}
  /\ Home \in [Users -> Collections]
  /\ MaxResult \in Nat /\ IdleTimeout \in Nat
  /\ BatchSizes \subseteq Int /\ DefaultBatchSize \in Nat \ {0}

VARIABLES
  cursors,  \* the registry: id -> entry
  orphans,  \* getMores past tail_state whose connection has broken
  running,  \* the listener has not been stopped
  upc,      \* per user: where its query is
  held,     \* per user: the cursor id it knows, 0 if none
  asked,    \* per user: the namespace of its getMore
  reply,    \* per user: the reply on its way
  want,     \* per user: length of the result it asked for
  got,      \* per user: documents received
  lost      \* per user: a reply of this query was lost

regVars == <<cursors, orphans, running>>
userVars == <<upc, held, asked, reply, want, got, lost>>
cursorVars == <<regVars, userVars>>

Least(a, b) == IF a < b THEN a ELSE b
Docs(u, low, high) == [k \in 1..(high - low) |-> <<u, low + k>>]
NoReply == [id |-> 0, docs |-> <<>>]
Without(f, S) == [i \in DOMAIN f \ S |-> f[i]]
With(f, i, e) == [j \in DOMAIN f \cup {i} |-> IF j = i THEN e ELSE f[j]]

(* Who still has a record of an id.                                        *)
Known(i) ==
  \/ \E u \in Users : held[u] = i \/ reply[u].id = i
  \/ \E o \in orphans : o.id = i

(* Mutants of NewIds: the id of an erased cursor is handed out again, and  *)
(* ids that begin with 0, which says "no cursor".                          *)
ReusedIds == Ids \ DOMAIN cursors
IdsFromZero == {0} \ DOMAIN cursors

NewIds == {i \in Ids \ DOMAIN cursors : ~Known(i)}

CursorsInit ==
  /\ cursors = <<>> /\ orphans = {} /\ running = TRUE
  /\ upc = [u \in Users |-> "idle"] /\ held = [u \in Users |-> 0]
  /\ asked = Home /\ reply = [u \in Users |-> NoReply]
  /\ want = [u \in Users |-> 0] /\ got = [u \in Users |-> <<>>]
  /\ lost = [u \in Users |-> FALSE]

----------------------------------------------------------------------------
(* Opening                                                                 *)

(* Mutant of Expired: only tails are dropped.                              *)
ExpiredTails(C) == {i \in DOMAIN C : C[i].tailing /\ C[i].age > IdleTimeout}

(* expire_idle: last used more than the timeout ago.                       *)
Expired(C) == {i \in DOMAIN C : C[i].age > IdleTimeout}

(* open and open_tail: expire, then register under a new id.               *)
Register(i, u, total, taken, tail) ==
  cursors' = With(Without(cursors, Expired(cursors)), i,
                  [ns |-> Home[u], owner |-> u, total |-> total, offset |-> taken,
                   age |-> 0, tailing |-> tail])

Answer(u, id, docs) ==
  /\ upc' = [upc EXCEPT ![u] = "replied"]
  /\ reply' = [reply EXCEPT ![u] = [id |-> id, docs |-> docs]]

MayAsk(u) == u \in SqlCallers \/ running

(* How many documents of a result of n the first batch takes.              *)
FirstBatch(n, b) == Least(n, IF b < 0 THEN 0 ELSE b)

(* cmd_find and cmd_aggregate over a result of n documents, with limit and  *)
(* skip applied; a single batch leaves no cursor behind and is all the      *)
(* client asked for.                                                        *)
Find(u, n, b, single) ==
  LET taken == FirstBatch(n, b) IN
  /\ upc[u] = "idle" /\ MayAsk(u)
  /\ IF single \/ taken = n
     THEN Answer(u, 0, Docs(u, 0, taken)) /\ UNCHANGED cursors
     ELSE /\ NewIds # {}
          /\ LET i == CHOOSE x \in NewIds : TRUE
             IN Answer(u, i, Docs(u, 0, taken)) /\ Register(i, u, n, taken, FALSE)
  /\ want' = [want EXCEPT ![u] = IF single THEN taken ELSE n]
  /\ UNCHANGED <<orphans, running, held, asked, got, lost>>

(* find with tailable, aggregate with $changeStream: a cursor that buffers  *)
(* nothing and is always real. What tails deliver is ChangeStream's.        *)
FindTail(u) ==
  /\ upc[u] = "idle" /\ MayAsk(u) /\ NewIds # {}
  /\ LET i == CHOOSE x \in NewIds : TRUE
     IN Answer(u, i, <<>>) /\ Register(i, u, 0, 0, TRUE)
  /\ UNCHANGED <<orphans, running, held, asked, want, got, lost>>

----------------------------------------------------------------------------
(* getMore                                                                 *)

Serves(i, ns) == i \in DOMAIN cursors /\ cursors[i].ns = ns
Touched(i) == [cursors EXCEPT ![i].age = 0]

(* cmd_get_more asks tail_state first.                                     *)
GetMore(u, ns) ==
  /\ upc[u] = "open" /\ MayAsk(u)
  /\ asked' = [asked EXCEPT ![u] = ns]
  /\ IF Serves(held[u], ns) /\ cursors[held[u]].tailing
     THEN cursors' = Touched(held[u]) /\ upc' = [upc EXCEPT ![u] = "tail"]
     ELSE upc' = [upc EXCEPT ![u] = "more"] /\ UNCHANGED cursors
  /\ UNCHANGED <<orphans, running, held, reply, want, got, lost>>

(* Where next_batch stops: batchSize documents on, all if it is not > 0.   *)
NextOffset(e, b) == IF b > 0 THEN Least(e.total, e.offset + b) ELSE e.total

(* Mutants of Exhausted: off by one, either way.                           *)
ExhaustedLate(e, offset) == offset > e.total
ExhaustedEarly(e, offset) == offset + 1 >= e.total

Exhausted(e, offset) == offset >= e.total

(* The registry's part of next_batch: documents are moved out of the entry, *)
(* and the entry goes with the last one.                                    *)
TakeBatch(i, b) ==
  LET e == cursors[i]
      offset == NextOffset(e, b)
  IN cursors' = IF Exhausted(e, offset) THEN Without(cursors, {i})
                ELSE [Touched(i) EXCEPT ![i].offset = offset]

NextBatch(u, b) ==
  /\ upc[u] = "more"
  /\ IF Serves(held[u], asked[u])
     THEN LET e == cursors[held[u]]
              offset == NextOffset(e, b)
          IN /\ TakeBatch(held[u], b)
             /\ Answer(u, IF Exhausted(e, offset) THEN 0 ELSE held[u],
                       Docs(e.owner, e.offset, offset))
     ELSE upc' = [upc EXCEPT ![u] = "failed"] /\ UNCHANGED <<cursors, reply>>
  /\ UNCHANGED <<orphans, running, held, asked, want, got, lost>>

(* tail_batch and advance_tail, which finds the cursor or does nothing: the *)
(* reply names the cursor even if it is gone by now. Its history may be     *)
(* lost.                                                                    *)
TailBatch(u) ==
  /\ upc[u] = "tail"
  /\ \/ Answer(u, held[u], <<>>)
     \/ upc' = [upc EXCEPT ![u] = "failed"] /\ UNCHANGED reply
  /\ UNCHANGED <<regVars, held, asked, want, got, lost>>

(* A reply arrives; id 0 ends the iteration. collect_cursor does the same. *)
Receive(u) ==
  /\ upc[u] = "replied"
  /\ got' = [got EXCEPT ![u] = @ \o reply[u].docs]
  /\ held' = [held EXCEPT ![u] = reply[u].id]
  /\ upc' = [upc EXCEPT ![u] = IF reply[u].id = 0 THEN "done" ELSE "open"]
  /\ reply' = [reply EXCEPT ![u] = NoReply]
  /\ UNCHANGED <<regVars, asked, want, lost>>

(* The user is through with a query.                                       *)
Forget(U) ==
  /\ upc' = [u \in Users |-> IF u \in U THEN "idle" ELSE upc[u]]
  /\ held' = [u \in Users |-> IF u \in U THEN 0 ELSE held[u]]
  /\ asked' = [u \in Users |-> IF u \in U THEN Home[u] ELSE asked[u]]
  /\ reply' = [u \in Users |-> IF u \in U THEN NoReply ELSE reply[u]]
  /\ want' = [u \in Users |-> IF u \in U THEN 0 ELSE want[u]]
  /\ got' = [u \in Users |-> IF u \in U THEN <<>> ELSE got[u]]
  /\ lost' = [u \in Users |-> IF u \in U THEN FALSE ELSE lost[u]]

Finish(u) == upc[u] \in {"done", "failed"} /\ Forget({u}) /\ UNCHANGED regVars

----------------------------------------------------------------------------
(* Clients that walk away, killCursors, time and shutdown                  *)

(* A client stops iterating and never says so.                             *)
Abandon(u) ==
  /\ u \in WireClients /\ upc[u] = "open"
  /\ Forget({u}) /\ UNCHANGED regVars

(* A connection breaks during a getMore or a find. The server's thread     *)
(* finishes what it is doing; the client goes on with the id it knows.     *)
LoseReply(u) ==
  /\ u \in WireClients /\ upc[u] \in {"more", "tail", "replied"}
  /\ IF held[u] = 0
     THEN Forget({u}) /\ UNCHANGED orphans
     ELSE /\ upc' = [upc EXCEPT ![u] = "open"]
          /\ lost' = [lost EXCEPT ![u] = TRUE]
          /\ reply' = [reply EXCEPT ![u] = NoReply]
          /\ orphans' = IF upc[u] = "more"
                        THEN {[id |-> held[u], ns |-> asked[u]]} ELSE orphans
          /\ UNCHANGED <<held, asked, want, got>>
  /\ upc[u] = "more" => orphans = {}      \* bound: one such thread at a time
  /\ UNCHANGED <<cursors, running>>

(* Its thread still takes a batch, which nobody will see.                  *)
OrphanBatch(o, b) ==
  /\ o \in orphans
  /\ orphans' = orphans \ {o}
  /\ IF Serves(o.id, o.ns) THEN TakeBatch(o.id, b) ELSE UNCHANGED cursors
  /\ UNCHANGED <<running, userVars>>

(* cmd_kill_cursors, also from another connection of the same client while *)
(* a getMore is being served.                                              *)
KillCursors(u) ==
  /\ u \in WireClients /\ upc[u] \in {"open", "more", "tail"} /\ running
  /\ cursors' = Without(cursors, {held[u]})
  /\ IF upc[u] = "open" THEN Forget({u}) ELSE UNCHANGED userVars
  /\ UNCHANGED <<orphans, running>>

(* Listener::stop: connection threads are gone, then kill_all. Sessions of *)
(* the server that are inside mongo() go on.                               *)
KillAll ==
  /\ running /\ running' = FALSE
  /\ cursors' = <<>> /\ orphans' = {}
  /\ Forget(WireClients)

Aged == [i \in DOMAIN cursors |->
           [cursors[i] EXCEPT !.age = Least(@ + 1, IdleTimeout + 1)]]
Tick ==
  /\ Aged # cursors /\ cursors' = Aged
  /\ UNCHANGED <<orphans, running, userVars>>

----------------------------------------------------------------------------

WireStep(u) ==
  \/ \E n \in 0..MaxResult, b \in BatchSizes, single \in BOOLEAN : Find(u, n, b, single)
  \/ FindTail(u)
  \/ \E ns \in Collections : GetMore(u, ns)
  \/ \E b \in BatchSizes : NextBatch(u, b)

(* run_mongo_gateway: no batchSize anywhere, and the cursor's own namespace *)
(* comes back in every getMore.                                             *)
SqlStep(u) ==
  \/ \E n \in 0..MaxResult : Find(u, n, DefaultBatchSize, FALSE)
  \/ FindTail(u)
  \/ GetMore(u, Home[u])
  \/ NextBatch(u, DefaultBatchSize)

Opens == \E u \in Users : \/ \E n \in 0..MaxResult, b \in BatchSizes \cup {DefaultBatchSize} :
                                 Find(u, n, b, FALSE) /\ reply'[u].id # 0
                          \/ FindTail(u)

UserStep(u) ==
  \/ u \in WireClients /\ WireStep(u)
  \/ u \in SqlCallers /\ SqlStep(u)
  \/ TailBatch(u)
  \/ Receive(u)
  \/ Finish(u)

CursorsNext ==
  \/ \E u \in Users : UserStep(u) \/ Abandon(u) \/ LoseReply(u) \/ KillCursors(u)
  \/ \E o \in orphans, b \in BatchSizes : OrphanBatch(o, b)
  \/ KillAll
  \/ Tick

(* Time passes, and a session inside mongo() keeps running. Nothing makes  *)
(* anybody open another cursor.                                            *)
CursorsFairness ==
  WF_cursorVars(Tick) /\ \A u \in SqlCallers : WF_cursorVars(upc[u] # "idle" /\ UserStep(u))

CursorsSpec == CursorsInit /\ [][CursorsNext]_cursorVars /\ CursorsFairness

----------------------------------------------------------------------------
(* Properties                                                              *)

Positions == {<<u, k>> : u \in Users, k \in 1..MaxResult}

(* Type invariant of the registry and its users.                           *)
CursorsTypeOK ==
  /\ DOMAIN cursors \subseteq Ids
  /\ \A i \in DOMAIN cursors : cursors[i] \in
       [ns : Collections, owner : Users, total : 0..MaxResult, offset : 0..MaxResult,
        age : 0..(IdleTimeout + 1), tailing : BOOLEAN]
  /\ orphans \subseteq [id : Ids, ns : Collections] /\ running \in BOOLEAN
  /\ upc \in [Users -> {"idle", "open", "more", "tail", "replied", "done", "failed"}]
  /\ held \in [Users -> Ids \cup {0}] /\ asked \in [Users -> Collections]
  /\ reply \in [Users -> [id : Ids \cup {0}, docs : Seq(Positions)]]
  /\ want \in [Users -> 0..MaxResult] /\ got \in [Users -> Seq(Positions)]
  /\ lost \in [Users -> BOOLEAN]

(* A query that ends with cursor id 0 and lost no reply has received its   *)
(* whole result, in order: whatever expires, is killed or is served to     *)
(* somebody else in between shows up as an error, never as a short result. *)
WholeResult ==
  \A u \in Users : upc[u] = "done" /\ ~lost[u] => got[u] = Docs(u, 0, want[u])

(* Even across lost replies, retries and threads of broken connections,    *)
(* what a user gets are documents of its own query, each at most once and  *)
(* in the order of the result.                                             *)
OwnDocumentsInOrder ==
  \A u \in Users :
    LET all == got[u] \o reply[u].docs
    IN /\ \A k \in DOMAIN all : all[k][1] = u
       /\ \A j, k \in DOMAIN all : j < k => all[j][2] < all[k][2]

(* What holds of the registry and its users at all times: a result arrives *)
(* whole or its query fails, and nobody sees another one's documents.      *)
CursorsInv == CursorsTypeOK /\ WholeResult /\ OwnDocumentsInOrder

(* A mongo() call that does not tail comes back: collect_cursor's loop ends *)
(* with the result or an error.                                             *)
Draining(u) == upc[u] \in {"open", "more", "replied"} /\ want[u] > 0
GatewayReturns ==
  \A u \in SqlCallers : Draining(u) ~> upc[u] \in {"done", "failed"}

(* "A driver that walks away mid-iteration must not pin documents in this  *)
(* process forever" (cursor.cc): a cursor nobody has a record of is dropped *)
(* as long as somebody keeps opening cursors.                               *)
Pinned(i) == i \in DOMAIN cursors /\ ~Known(i)
AbandonedCursorsGo ==
  []<><<Opens>>_cursorVars => \A i \in Ids : Pinned(i) ~> ~Pinned(i)
=============================================================================
