----------------------------- MODULE EventFeed -----------------------------
(***************************************************************************)
(* What a change stream promises its client, with no cursors, statements,  *)
(* locks or connections: events are published in seq order; a subscriber   *)
(* moves forward over published events and receives exactly those it       *)
(* watches on the way; retention may forget events; a subscriber is cut    *)
(* off only when an event ahead of it has been forgotten.                  *)
(***************************************************************************)
EXTENDS Integers

CONSTANTS Subscribers, Event, Watching(_, _)

VARIABLES
  events,    \* every event published
  kept,      \* those retention has not forgotten
  sub,       \* per subscriber: "off", "on" or "lost"
  pos,       \* per subscriber: seq up to which it has been served
  received   \* per subscriber: seqs received since it subscribed

feedVars == <<events, kept, sub, pos, received>>

Published(p) == p = 0 \/ \E e \in events : p <= e.seq

FeedInit ==
  /\ events \subseteq Event /\ kept \subseteq events
  /\ sub = [s \in Subscribers |-> "off"]
  /\ pos = [s \in Subscribers |-> 0]
  /\ received = [s \in Subscribers |-> {}]

Publish ==
  /\ events \subseteq events' /\ events' \subseteq Event
  /\ \A e \in events' \ events, f \in events : f.seq < e.seq
  /\ kept' = kept \cup (events' \ events)
  /\ UNCHANGED <<sub, pos, received>>

(* Retention never forgets the newest event.                               *)
Retire ==
  /\ kept' \subseteq kept
  /\ \A e \in kept : \E f \in kept' : e.seq <= f.seq
  /\ UNCHANGED <<events, sub, pos, received>>

Subscribe(s) ==
  /\ sub[s] # "on"
  /\ sub' = [sub EXCEPT ![s] = "on"]
  /\ Published(pos'[s]) /\ pos' = [pos EXCEPT ![s] = pos'[s]]
  /\ received' = [received EXCEPT ![s] = {}]
  /\ UNCHANGED <<events, kept>>

Deliver(s) ==
  /\ sub[s] = "on"
  /\ pos'[s] >= pos[s] /\ Published(pos'[s])
  /\ pos' = [pos EXCEPT ![s] = pos'[s]]
  /\ received' = [received EXCEPT ![s] =
       @ \cup {e.seq : e \in {f \in events :
                 Watching(s, f) /\ pos[s] < f.seq /\ f.seq <= pos'[s]}}]
  /\ UNCHANGED <<events, kept, sub>>

CutOff(s) ==
  /\ sub[s] = "on"
  /\ \E e \in events \ kept : e.seq > pos[s]
  /\ sub' = [sub EXCEPT ![s] = "lost"]
  /\ UNCHANGED <<events, kept, pos, received>>

(* A subscription may be refused: its start time may lie in history that   *)
(* was forgotten, or that predates what the server knows about.            *)
Refuse(s) ==
  /\ sub[s] = "off"
  /\ sub' = [sub EXCEPT ![s] = "lost"]
  /\ UNCHANGED <<events, kept, pos, received>>

(* A server restart may end subscriptions that were still being set up.    *)
Restart ==
  /\ sub' \in [Subscribers -> {"off", "on", "lost"}]
  /\ \A s \in Subscribers : sub'[s] \in {sub[s], "off"}
  /\ UNCHANGED <<events, kept, pos, received>>

FeedNext ==
  \/ Publish \/ Retire \/ Restart
  \/ \E s \in Subscribers : Subscribe(s) \/ Deliver(s) \/ CutOff(s) \/ Refuse(s)

FeedSpec == FeedInit /\ [][FeedNext]_feedVars
=============================================================================
