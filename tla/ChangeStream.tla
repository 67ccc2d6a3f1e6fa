---------------------------- MODULE ChangeStream ----------------------------
(***************************************************************************)
(* Consumers of the oplog: change streams ($changeStream in aggregate) and *)
(* raw tails (find on local.oplog.rs), served by changestream.cc and by    *)
(* find_oplog, tail_batch and open_change_stream of commands.cc. Each      *)
(* statement of a getMore is a step of its own, because writers commit and *)
(* the pruner deletes between them.                                        *)
(*                                                                         *)
(* A consumer is a client with the server cursor it holds. The client side *)
(* (token, origin, got) survives a lost connection and a server restart,   *)
(* the cursor does not.                                                    *)
(***************************************************************************)
EXTENDS Oplog

CONSTANTS
  Streams,      \* change-stream clients
  Tails,        \* clients tailing local.oplog.rs
  Watches,      \* per consumer: the namespaces its ns / filter lets through
  BatchSizes    \* batch sizes clients ask for

Consumers == Streams \cup Tails

ASSUME StreamAssumption ==
  /\ Streams \cap Tails = {}
  /\ Watches \in [Consumers -> SUBSET Namespaces]
  /\ BatchSizes \subseteq Nat \ {0}

VARIABLES
  cpc,      \* per consumer: where its open or getMore is
  after,    \* cursor: TailState.after_seq
  head,     \* getMore: MAX(seq) sampled before the read
  batch,    \* getMore: seqs read
  nextAfter,\* getMore: next_after
  woken,    \* getMore: a write was signalled since it parked
  token,    \* client: last postBatchResumeToken received
  origin,   \* client: position its subscription started after
  since,    \* client: startAtOperationTime, or Never
  got       \* client: seqs of the events received since origin

cursorVars == <<after, head, batch, nextAfter, woken>>
clientVars == <<token, origin, since, got>>
streamVars == <<cpc, cursorVars, clientVars>>
vars == <<oplogVars, streamVars>>

Never == [t |-> -1, i |-> 0]

(* "new": never opened; "resolved": start known, not checked; "idle": open, *)
(* no statement running; "closed": cursor gone, client may resume; "lost":  *)
(* answered ChangeStreamHistoryLost (286).                                  *)
Serving == {"idle", "head", "read", "checked", "parked", "reply"}

Match(c, r) == r.ns \in Watches[c]
Matching(c, R, low) == {r.seq : r \in {q \in R : Match(c, q) /\ q.seq > low}}
Max2(a, b) == IF a > b THEN a ELSE b
Last(B, default) == IF B = {} THEN default ELSE CHOOSE s \in B : \A x \in B : x <= s

(* ORDER BY seq ASC LIMIT n, and DESC: the n lowest or highest of S.       *)
Lowest(S, n) ==
  {B \in SUBSET S : /\ \A x \in B, y \in S \ B : x < y
                    /\ Cardinality(B) = n \/ (B = S /\ Cardinality(B) < n)}
Highest(S, n) ==
  {B \in SUBSET S : /\ \A x \in B, y \in S \ B : y < x
                    /\ Cardinality(B) = n \/ (B = S /\ Cardinality(B) < n)}

StreamInit ==
  /\ cpc = [c \in Consumers |-> "new"]
  /\ after = [c \in Consumers |-> 0]
  /\ head = [c \in Consumers |-> 0]
  /\ batch = [c \in Consumers |-> {}]
  /\ nextAfter = [c \in Consumers |-> 0]
  /\ woken = [c \in Consumers |-> FALSE]
  /\ token = [c \in Consumers |-> 0]
  /\ origin = [c \in Consumers |-> 0]
  /\ since = [c \in Consumers |-> Never]
  /\ got = [c \in Consumers |-> {}]

----------------------------------------------------------------------------
(* Opening a change stream                                                 *)

(* A new subscription that will start after seq.                           *)
StartAfter(c, seq, time) ==
  /\ cpc' = [cpc EXCEPT ![c] = "resolved"]
  /\ after' = [after EXCEPT ![c] = seq]
  /\ token' = [token EXCEPT ![c] = seq]
  /\ origin' = [origin EXCEPT ![c] = seq]
  /\ since' = [since EXCEPT ![c] = time]
  /\ got' = [got EXCEPT ![c] = {}]
  /\ UNCHANGED <<oplogVars, head, batch, nextAfter, woken>>

(* Mutant: the start position is the head's predecessor.                   *)
ResolveBeforeHead(c) ==
  /\ c \in Streams /\ cpc[c] \in {"new", "lost"}
  /\ StartAfter(c, OplogHead - 1, Never)

ResolveHead(c) ==
  /\ c \in Streams /\ cpc[c] \in {"new", "lost"}
  /\ StartAfter(c, OplogHead, Never)

(* The operation times a client can hold: a ping's or a write's reply, or  *)
(* its own wall clock.                                                     *)
StartTimes == {clock, [t |-> now, i |-> 0]} \cup {Ts(r) : r \in log}

(* Mutant: an event at the time itself counts as before it.                *)
SeqUpTo(T) ==
  LET upTo == {r \in oplog : ~TsLess(T, r)}
  IN IF upTo = {} THEN 0 ELSE Newest(upTo).seq

(* Greatest retained seq below the time, deletion watermark and baseline.  *)
SeqBefore(T) ==
  LET below == {r \in oplog : TsLess(r, T)}
  IN IF below = {} THEN 0 ELSE Newest(below).seq

TimeLost(T) ==
  \/ hist.pruned # 0 /\ ~TsLess(hist.ts, T)
  \/ hist.legacy /\ TsLess(T, hist.baseTs)

ResolveTime(c, T) ==
  /\ c \in Streams /\ cpc[c] \in {"new", "lost"}
  /\ ~TimeLost(T)
  /\ StartAfter(c, Max2(SeqBefore(T), HistoryFloor), T)

ResolveTimeLost(c, T) ==
  /\ c \in Streams /\ cpc[c] = "new"
  /\ TimeLost(T)
  /\ cpc' = [cpc EXCEPT ![c] = "lost"]
  /\ UNCHANGED <<oplogVars, cursorVars, clientVars>>

(* resumeAfter / startAfter with the last token the client received.       *)
ResolveToken(c) ==
  /\ c \in Streams /\ cpc[c] = "closed"
  /\ cpc' = [cpc EXCEPT ![c] = "resolved"]
  /\ after' = [after EXCEPT ![c] = token[c]]
  /\ UNCHANGED <<oplogVars, head, batch, nextAfter, woken, clientVars>>

(* Mutant: the watermark itself is refused, as if tokens were inclusive.   *)
HistoryHoldsAbove(seq) == seq > HistoryFloor /\ (seq = 0 \/ oplog # {})

(* require_change_stream_history                                           *)
HistoryHolds(seq) == seq >= HistoryFloor /\ (seq = 0 \/ oplog # {})

OpenChangeStream(c) ==
  /\ cpc[c] = "resolved"
  /\ cpc' = [cpc EXCEPT ![c] = IF HistoryHolds(after[c]) THEN "idle" ELSE "lost"]
  /\ UNCHANGED <<oplogVars, cursorVars, clientVars>>

----------------------------------------------------------------------------
(* Opening a raw tail: find_oplog samples the head, reads, opens a cursor  *)

FindHead(c) ==
  /\ c \in Tails /\ cpc[c] = "new"
  /\ cpc' = [cpc EXCEPT ![c] = "find"]
  /\ head' = [head EXCEPT ![c] = OplogHead]
  /\ UNCHANGED <<oplogVars, after, batch, nextAfter, woken, clientVars>>

OpenTail(c, B, start, position) ==
  /\ cpc' = [cpc EXCEPT ![c] = "idle"]
  /\ after' = [after EXCEPT ![c] = position]
  /\ token' = [token EXCEPT ![c] = position]
  /\ origin' = [origin EXCEPT ![c] = start]
  /\ got' = [got EXCEPT ![c] = B]
  /\ head' = [head EXCEPT ![c] = 0]
  /\ UNCHANGED <<oplogVars, batch, nextAfter, woken, since>>

(* Mutant: the tail starts at the head even if the first batch was full.   *)
FindOplogAtHead(c, n) ==
  /\ cpc[c] = "find"
  /\ \E B \in Lowest(Matching(c, oplog, 0), n) : OpenTail(c, B, 0, head[c])

FindOplog(c, n) ==
  /\ cpc[c] = "find"
  /\ \E B \in Lowest(Matching(c, oplog, 0), n) :
       OpenTail(c, B, 0, IF Cardinality(B) >= n THEN Last(B, 0) ELSE head[c])

FindOplogNewestFirst(c, n) ==
  /\ cpc[c] = "find"
  /\ \E B \in Highest(Matching(c, oplog, 0), n) : OpenTail(c, B, head[c], head[c])

----------------------------------------------------------------------------
(* getMore: tail_batch                                                     *)

SampleHead(c) ==
  /\ cpc[c] = "idle"
  /\ cpc' = [cpc EXCEPT ![c] = "head"]
  /\ head' = [head EXCEPT ![c] = OplogHead]
  /\ UNCHANGED <<oplogVars, after, batch, nextAfter, woken, clientVars>>

(* Mutants: the head wins even when the batch was read further, or when    *)
(* the batch was full.                                                     *)
NextAfterHead(B, n, low, sampled) ==
  IF Cardinality(B) >= n THEN Last(B, low) ELSE sampled
NextAfterFurthest(B, n, low, sampled) == Max2(sampled, Last(B, low))

(* Position after a batch: a short one means nothing else up to the head.  *)
NextAfter(B, n, low, sampled) ==
  IF Cardinality(B) >= n THEN Last(B, low) ELSE Max2(sampled, Last(B, low))

ReadBatch(c, n) ==
  /\ cpc[c] = "head"
  /\ \E B \in Lowest(Matching(c, oplog, after[c]), n) :
       /\ batch' = [batch EXCEPT ![c] = B]
       /\ nextAfter' = [nextAfter EXCEPT ![c] = NextAfter(B, n, after[c], head[c])]
  /\ head' = [head EXCEPT ![c] = 0]
  /\ cpc' = [cpc EXCEPT ![c] = IF c \in Streams THEN "read" ELSE "checked"]
  /\ UNCHANGED <<oplogVars, after, woken, clientVars>>

DropBatch(c) ==
  /\ batch' = [batch EXCEPT ![c] = {}]
  /\ nextAfter' = [nextAfter EXCEPT ![c] = 0]

(* Mutant: only the opening of a stream checks the history.                *)
CheckSkipped(c) ==
  /\ cpc[c] = "read"
  /\ cpc' = [cpc EXCEPT ![c] = "checked"]
  /\ UNCHANGED <<oplogVars, cursorVars, clientVars>>

(* read_changestream's check, after its SELECT.                            *)
CheckHistory(c) ==
  /\ cpc[c] = "read"
  /\ IF HistoryHolds(after[c])
     THEN cpc' = [cpc EXCEPT ![c] = "checked"] /\ UNCHANGED <<batch, nextAfter>>
     ELSE cpc' = [cpc EXCEPT ![c] = "lost"] /\ DropBatch(c)
  /\ UNCHANGED <<oplogVars, after, head, woken, clientVars>>

(* Nothing to deliver and time left: wait_for_oplog_write.                 *)
Park(c) ==
  /\ cpc[c] = "checked" /\ batch[c] = {}
  /\ cpc' = [cpc EXCEPT ![c] = "parked"]
  /\ woken' = [woken EXCEPT ![c] = FALSE]
  /\ DropBatch(c)
  /\ UNCHANGED <<oplogVars, after, head, clientVars>>

(* Mutant: the wait ends on a signal only.                                 *)
NoPoll == FALSE

(* The wait is capped at kOplogPollMs, so it ends with or without a signal. *)
PollElapsed == TRUE

Wake(c) ==
  /\ cpc[c] = "parked"
  /\ woken[c] \/ PollElapsed
  /\ cpc' = [cpc EXCEPT ![c] = "idle"]
  /\ woken' = [woken EXCEPT ![c] = FALSE]
  /\ UNCHANGED <<oplogVars, after, head, batch, nextAfter, clientVars>>

(* Something to deliver, or the deadline passed: advance_tail, then reply. *)
AdvanceTail(c) ==
  /\ cpc[c] = "checked"
  /\ cpc' = [cpc EXCEPT ![c] = "reply"]
  /\ after' = [after EXCEPT ![c] = nextAfter[c]]
  /\ UNCHANGED <<oplogVars, head, batch, nextAfter, woken, clientVars>>

(* The client receives the batch and its postBatchResumeToken.             *)
Receive(c) ==
  /\ cpc[c] = "reply"
  /\ cpc' = [cpc EXCEPT ![c] = "idle"]
  /\ got' = [got EXCEPT ![c] = @ \cup batch[c]]
  /\ token' = [token EXCEPT ![c] = nextAfter[c]]
  /\ DropBatch(c)
  /\ UNCHANGED <<oplogVars, after, head, woken, origin, since>>

----------------------------------------------------------------------------
(* Failures                                                                *)

Forget(C) ==
  /\ after' = [c \in Consumers |-> IF c \in C THEN 0 ELSE after[c]]
  /\ head' = [c \in Consumers |-> IF c \in C THEN 0 ELSE head[c]]
  /\ batch' = [c \in Consumers |-> IF c \in C THEN {} ELSE batch[c]]
  /\ nextAfter' = [c \in Consumers |-> IF c \in C THEN 0 ELSE nextAfter[c]]
  /\ woken' = [c \in Consumers |-> IF c \in C THEN FALSE ELSE woken[c]]

(* The connection breaks (a reply may be lost), or the cursor is killed or *)
(* expires after ten idle minutes: the client keeps its last token.        *)
Disconnect(c) ==
  /\ cpc[c] \in Serving
  /\ cpc' = [cpc EXCEPT ![c] = IF c \in Streams THEN "closed" ELSE "new"]
  /\ Forget({c})
  /\ UNCHANGED <<oplogVars, clientVars>>

Crash ==
  /\ CrashOplog
  /\ cpc' = [c \in Consumers |->
               CASE cpc[c] \in Serving /\ c \in Streams -> "closed"
                 [] cpc[c] \in {"closed", "lost"} -> cpc[c]
                 [] OTHER -> "new"]
  /\ Forget(Consumers)
  /\ UNCHANGED clientVars

Signal(w) ==
  /\ SignalWrite(w)
  /\ woken' = [c \in Consumers |-> woken[c] \/ cpc[c] = "parked"]
  /\ UNCHANGED <<cpc, after, head, batch, nextAfter, clientVars>>

----------------------------------------------------------------------------

OpenStep(c) ==
  \/ ResolveHead(c)
  \/ \E T \in StartTimes : ResolveTime(c, T) \/ ResolveTimeLost(c, T)
  \/ ResolveToken(c)
  \/ OpenChangeStream(c)
  \/ FindHead(c)
  \/ \E n \in BatchSizes : FindOplog(c, n) \/ FindOplogNewestFirst(c, n)

GetMoreStep(c) ==
  \/ SampleHead(c)
  \/ \E n \in BatchSizes : ReadBatch(c, n)
  \/ CheckHistory(c)
  \/ Park(c)
  \/ Wake(c)
  \/ AdvanceTail(c)
  \/ Receive(c)

Next ==
  \/ OplogStep /\ UNCHANGED streamVars
  \/ \E w \in WireWriters : Signal(w)
  \/ \E c \in Consumers : OpenStep(c) \/ GetMoreStep(c) \/ Disconnect(c)
  \/ Crash

Init == OplogInit /\ StreamInit

Spec == Init /\ [][Next]_vars

(* Server threads keep running, a parked wait times out, and a client that *)
(* has its reply asks again.                                               *)
Fairness == \A c \in Consumers : WF_vars(GetMoreStep(c))
FairSpec == Spec /\ Fairness

----------------------------------------------------------------------------
(* Properties                                                              *)

(* Type invariant of the consumers.                                        *)
StreamTypeOK ==
  /\ cpc \in [Consumers -> Serving \cup {"new", "resolved", "find", "closed", "lost"}]
  /\ after \in [Consumers -> Nat] /\ head \in [Consumers -> Nat]
  /\ batch \in [Consumers -> SUBSET Nat] /\ nextAfter \in [Consumers -> Nat]
  /\ woken \in [Consumers -> BOOLEAN]
  /\ token \in [Consumers -> Nat] /\ origin \in [Consumers -> Nat]
  /\ since \in [Consumers -> Timestamps \cup {Never}]
  /\ got \in [Consumers -> SUBSET Nat]

(* What a stream has received is exactly the committed events of its       *)
(* namespace between the start and its resume token, pruned ones included: *)
(* no interleaving of commits, pruning passes, lost replies, resumes and   *)
(* restarts leaves a silent gap or delivers a rolled-back event.           *)
NoSilentGap ==
  \A c \in Streams : cpc[c] \notin {"new", "lost"} =>
    got[c] = {s \in Matching(c, log, origin[c]) : s <= token[c]}

(* A reply carries only events above everything the client already has, so *)
(* a resume after a lost reply never delivers an event twice.              *)
DeliversOnce ==
  \A c \in Streams : cpc[c] = "reply" => \A s \in batch[c], g \in got[c] : g < s

(* The same for a raw tail, as the comment in tail_batch wants it: head and *)
(* read race, "take whichever is further on, or that row comes back a       *)
(* second time". find_oplog does not take whichever is further on.          *)
TailDeliversOnce ==
  \A c \in Tails : cpc[c] = "reply" => \A s \in batch[c], g \in got[c] : g < s

(* A raw tail skips a matching row only if the pruner had deleted it.       *)
TailSkipsOnlyPruned ==
  \A c \in Tails : cpc[c] \in Serving =>
    \A s \in Matching(c, oplog, origin[c]) : s <= token[c] => s \in got[c]

(* Consumers are where their cursors can be, and a raw tail, which has no  *)
(* history check, still skips nothing but what the pruner took.            *)
ConsumersInv == StreamTypeOK /\ TailSkipsOnlyPruned

(* No spurious 286: a stream with a token is only told its history is lost *)
(* when a committed event after its position really has been deleted; a    *)
(* sequence gap left by a rollback or a crash is never mistaken for one.   *)
LostOnlyWhenPruned ==
  [][\A c \in Streams : cpc[c] \in {"resolved", "read"} /\ cpc'[c] = "lost" =>
       \E r \in log \ oplog : r.seq > after[c]]_vars

(* startAtOperationTime: "events at-or-after the time are delivered"       *)
(* (changestream-plan.md, CS2.1): none of them lies before the start.      *)
StartTimeInclusive ==
  \A c \in Streams : cpc[c] \notin {"new", "lost"} /\ since[c] # Never =>
    \A r \in log : Match(c, r) /\ r.seq <= origin[c] => TsLess(r, since[c])

(* It holds as long as timestamps follow seq order, whatever was pruned.   *)
StartTimeInclusiveIfOrdered == TsFollowsSeq => StartTimeInclusive

(* Refinement: with the server side hidden, the streams are the subscribers *)
(* of EventFeed. A closed stream keeps its token, so it still subscribes.   *)
SubState(c) ==
  IF cpc[c] = "new" THEN "off" ELSE IF cpc[c] = "lost" THEN "lost" ELSE "on"

Feed == INSTANCE EventFeed WITH
  Subscribers <- Streams, Event <- Rows, Watching <- Match,
  events <- log, kept <- oplog,
  sub <- [c \in Streams |-> SubState(c)],
  pos <- [c \in Streams |-> token[c]],
  received <- [c \in Streams |-> got[c]]

(* The streams implement the feed: every step of a client, a server thread, *)
(* a writer or the pruner is one of the feed's steps or changes none of it. *)
ImplementsEventFeed == Feed!FeedSpec

(* Every committed event a serving stream watches is eventually received,  *)
(* unless the stream ends first: also events of plain SQL clients, which   *)
(* nobody signals.                                                         *)
Waiting(c, s) == cpc[c] \in Serving /\ s \in Matching(c, log, token[c])
EventuallyDelivered ==
  \A c \in Streams, s \in 1..MaxSeq : Waiting(c, s) ~> ~Waiting(c, s)

----------------------------------------------------------------------------
(* The inductive invariant behind NoSilentGap                              *)

(* A position no future commit can slip under.                             *)
Settled(p) == p = 0 \/ \E r \in log : p <= r.seq

Between(c, low, high) == {s \in Matching(c, log, low) : s <= high}

(* A subscribed stream: its token is a settled position, and the cursor of *)
(* a statement that has not advanced yet still stands at the token.        *)
PositionInv(c) ==
  /\ cpc[c] # "find"
  /\ Settled(token[c]) /\ origin[c] <= token[c] /\ hist.baseline <= token[c]
  /\ cpc[c] \in {"resolved", "idle", "head", "read", "checked", "parked"} =>
       after[c] = token[c]
  /\ cpc[c] = "head" => Settled(head[c])
  /\ cpc[c] = "reply" => after[c] = nextAfter[c]

(* A batch that has been read is complete up to nextAfter, unless the      *)
(* history check that follows is going to fail.                            *)
BatchInv(c) ==
  cpc[c] \in {"read", "checked", "reply"} =>
    /\ Settled(nextAfter[c]) /\ token[c] <= nextAfter[c]
    /\ batch[c] \subseteq Between(c, token[c], nextAfter[c])
    /\ \/ batch[c] = Between(c, token[c], nextAfter[c])
       \/ cpc[c] = "read" /\ HistoryFloor > token[c]

Subscribed(c) == cpc[c] \notin {"new", "lost"}

StreamOK(c) ==
  Subscribed(c) => /\ PositionInv(c) /\ BatchInv(c)
                   /\ got[c] = Between(c, origin[c], token[c])

StreamInd == StreamTypeOK /\ \A c \in Streams : StreamOK(c)
=============================================================================
