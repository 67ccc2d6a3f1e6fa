----------------------------- MODULE WriteBatch -----------------------------
(***************************************************************************)
(* One insert, update or delete command (commands.cc): a batch whose       *)
(* elements are transactions of their own, and the reply that says what    *)
(* became of each. Other sessions commit in between.                       *)
(*                                                                         *)
(* An element is what becomes of it: it writes and mirrors an entry, finds *)
(* nothing to write, is no object or lacks its filter, is refused by the   *)
(* statement (a duplicate _id, a deadlock), or loses its COMMIT (a killed  *)
(* session, a full disk). The clock counts mirrored entries.               *)
(***************************************************************************)
EXTENDS Integers, Sequences, FiniteSets

CONSTANTS MaxBatch, MaxClock

Outcomes == {"writes", "nothing", "malformed", "refused", "uncommitted"}
Verbs == {"insert", "update", "delete"}

ASSUME WriteBatchAssumption == MaxBatch \in Nat /\ MaxClock \in Nat

VARIABLES
  batch,    \* the command: verb, elements, ordered
  phase,    \* where its handler is
  at,       \* the element it is at
  stored,   \* elements committed: index -> clock of their entry
  errors,   \* writeErrors, as indices
  counted,  \* n
  stamp,    \* the stamp run_atomically left, Unset at first
  clock,    \* the clock as others see it
  answer    \* the reply: ok, n, writeErrors, operationTime

batchVars == <<batch, phase, at, stored, errors, counted, stamp, clock, answer>>

Unset == -1
NoAnswer == [ok |-> FALSE, n |-> 0, errors |-> {}, time |-> Unset]
NoBatch == [verb |-> "insert", elements |-> <<>>, ordered |-> TRUE]

BatchInit ==
  /\ batch = NoBatch /\ phase = "idle" /\ at = 1 /\ stored = <<>> /\ errors = {}
  /\ counted = 0 /\ stamp = Unset /\ clock = 0 /\ answer = NoAnswer

(* insert finds something to write always.                                 *)
Possible(verb) == IF verb = "insert" THEN Outcomes \ {"nothing"} ELSE Outcomes

Receives(verb, elements, ordered) ==
  /\ phase = "idle" /\ phase' = "collection"
  /\ \A k \in DOMAIN elements : elements[k] \in Possible(verb)
  /\ batch' = [verb |-> verb, elements |-> elements, ordered |-> ordered]
  /\ UNCHANGED <<at, stored, errors, counted, stamp, clock, answer>>

(* create(), or exists() of a delete, which does nothing for a collection  *)
(* that is not there.                                                      *)
OpensCollection(exists) ==
  /\ phase = "collection" /\ (exists \/ batch.verb = "delete")
  /\ phase' = IF exists THEN "next" ELSE "reply"
  /\ at' = IF exists THEN 1 ELSE 0
  /\ UNCHANGED <<batch, stored, errors, counted, stamp, clock, answer>>

(* An error before the loop is the command's: make_error_reply.            *)
CommandFails ==
  /\ phase = "collection" /\ phase' = "done"
  /\ answer' = NoAnswer
  /\ UNCHANGED <<batch, at, stored, errors, counted, stamp, clock>>

Element == batch.elements[at]
More == at <= Len(batch.elements)

(* Mutant of Stops: an ordered batch goes on after an error.               *)
NeverStops == FALSE

(* An error ends an ordered batch.                                         *)
Stops == batch.ordered

(* append_write_error with this element's index, then break or continue.   *)
WriteError ==
  /\ errors' = errors \cup {at - 1}
  /\ phase' = IF Stops THEN "reply" ELSE "next"
  /\ at' = IF Stops THEN at ELSE at + 1

(* What is no object never reaches run_atomically, and neither does an     *)
(* update or delete without its filter.                                    *)
Malformed ==
  /\ phase = "next" /\ More /\ Element = "malformed"
  /\ WriteError
  /\ UNCHANGED <<batch, stored, counted, stamp, clock, answer>>

(* sql.begin().                                                            *)
Begins ==
  /\ phase = "next" /\ More /\ Element # "malformed"
  /\ phase' = "body"
  /\ UNCHANGED <<batch, at, stored, errors, counted, stamp, clock, answer>>

(* body() fails: rollback, and no stamp.                                   *)
BodyFails ==
  /\ phase = "body" /\ Element = "refused"
  /\ WriteError
  /\ UNCHANGED <<batch, stored, counted, stamp, clock, answer>>

(* Mutants of StampOfBody: read before the trigger has advanced the clock. *)
StampBeforeBody(element) == clock

(* And one that takes for granted that the body mirrored an entry.         *)
StampOfNextEntry(element) == clock + 1

(* current_operation_time inside the transaction: its own entry's, or the  *)
(* clock it finds when it wrote none.                                      *)
StampOfBody(element) == IF element = "nothing" THEN clock ELSE clock + 1

BodyRuns ==
  /\ phase = "body" /\ Element # "refused"
  /\ stamp' = StampOfBody(Element)
  /\ phase' = IF Element = "nothing" THEN "commit empty" ELSE "commit"
  /\ UNCHANGED <<batch, at, stored, errors, counted, clock, answer>>

(* After run_atomically the counters move: here an element that writes is  *)
(* worth one (n of an insert or a delete, nModified of an update).         *)
Committed(writes) ==
  /\ counted' = counted + IF writes THEN 1 ELSE 0
  /\ phase' = "next" /\ at' = at + 1

(* sql.commit(), signal_oplog_write(). The entry's clock row was locked    *)
(* since the body: nobody else has moved the clock.                        *)
Commits ==
  /\ phase \in {"commit", "commit empty"} /\ Element \in {"writes", "nothing"}
  /\ Committed(Element = "writes")
  /\ IF Element = "writes"
     THEN /\ clock' = clock + 1
          /\ stored' = [k \in DOMAIN stored \cup {at - 1} |->
                          IF k = at - 1 THEN clock + 1 ELSE stored[k]]
     ELSE UNCHANGED <<clock, stored>>
  /\ UNCHANGED <<batch, errors, stamp, answer>>

(* A COMMIT that fails throws as well, but the stamp is already taken.     *)
CommitFails ==
  /\ phase = "commit" /\ Element = "uncommitted"
  /\ WriteError
  /\ UNCHANGED <<batch, stored, counted, stamp, clock, answer>>

(* append_operation_time: the last stamp, or the clock when there is none. *)
Replies ==
  /\ phase = "reply" \/ (phase = "next" /\ ~More)
  /\ phase' = "done"
  /\ answer' = [ok |-> TRUE, n |-> counted, errors |-> errors,
                time |-> IF stamp = Unset THEN clock ELSE stamp]
  /\ UNCHANGED <<batch, at, stored, errors, counted, stamp, clock>>

(* Another session's write, which waits while this one holds the clock.    *)
OtherCommit ==
  /\ phase # "commit" /\ clock < MaxClock /\ clock' = clock + 1
  /\ UNCHANGED <<batch, phase, at, stored, errors, counted, stamp, answer>>

Batches == UNION {[1..n -> Outcomes] : n \in 0..MaxBatch}

BatchNext ==
  \/ \E verb \in Verbs, elements \in Batches, ordered \in BOOLEAN :
       Receives(verb, elements, ordered)
  \/ \E exists \in BOOLEAN : OpensCollection(exists)
  \/ CommandFails
  \/ Malformed \/ Begins \/ BodyFails \/ BodyRuns \/ Commits \/ CommitFails
  \/ Replies
  \/ OtherCommit

BatchSpec == BatchInit /\ [][BatchNext]_batchVars

----------------------------------------------------------------------------
(* Properties                                                              *)

Indices == {k - 1 : k \in DOMAIN batch.elements}
Tried == phase = "done" /\ answer.ok /\ at > 0

(* From the reply alone a driver can tell what became of every element:    *)
(* with ordered set, everything before the first writeErrors index was     *)
(* executed and nothing after it; without, exactly the elements of         *)
(* writeErrors failed. n counts what the table holds of the batch.         *)
ReplyAccountsForBatch ==
  Tried =>
    LET first == CHOOSE k \in answer.errors : \A j \in answer.errors : k <= j
        executed == IF batch.ordered /\ answer.errors # {} THEN {k \in Indices : k < first}
                    ELSE Indices \ answer.errors
    IN /\ answer.n = Cardinality(DOMAIN stored)
       /\ DOMAIN stored = {k \in executed : batch.elements[k + 1] = "writes"}
       /\ \A k \in executed : batch.elements[k + 1] \in {"writes", "nothing"}

(* "What a fence waits on": the operationTime of a reply is no earlier     *)
(* than the entry of any element the batch stored.                         *)
FenceCoversBatch ==
  phase = "done" /\ answer.ok => \A k \in DOMAIN stored : stored[k] <= answer.time

(* And the clock has reached it, so that the fence ends: unless the last   *)
(* transaction of the batch lost its COMMIT, whose stamp never came true.  *)
LastTried == {k \in DOMAIN batch.elements :
                k <= at /\ batch.elements[k] \in {"writes", "nothing", "uncommitted"}}
FenceEnds ==
  phase = "done" /\ answer.ok =>
    \/ answer.time <= clock
    \/ \E k \in LastTried : batch.elements[k] = "uncommitted" /\ \A j \in LastTried : j <= k

(* The two halves of a usable operationTime: late enough to cover what was *)
(* written, early enough to come true.                                     *)
FenceHolds == FenceCoversBatch /\ FenceEnds
=============================================================================
