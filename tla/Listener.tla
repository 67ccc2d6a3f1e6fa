------------------------------ MODULE Listener ------------------------------
(***************************************************************************)
(* The wire listener (listener.cc): one accept thread, one thread per      *)
(* connection, the set of live descriptors, and stop(), which deinit calls *)
(* while all of them run. A connection thread may be anywhere in its loop  *)
(* when stop() comes; descriptors are small integers that the rest of the  *)
(* server process reuses as soon as they are closed.                       *)
(*                                                                         *)
(* connections_mutex_ is held for one step at a time (register, forget,    *)
(* the shutdown pass), so it needs no variable.                            *)
(***************************************************************************)
EXTENDS Integers, FiniteSets

CONSTANTS
  Conns,        \* connections; each is opened at most once
  Fds,          \* file descriptors of the server process
  Free, Other   \* a descriptor nobody uses, one some other part of it uses

NoConn == Other

ASSUME ListenerAssumption == Free # Other /\ Free \notin Conns /\ Other \notin Conns

VARIABLES
  stopping,   \* stopping_
  stopPc,     \* stop(): "none", "accept", "shutdown", "join", "kill", "done"
  acceptPc,   \* accept thread: "check", "poll", "register", "ended"
  accepted,   \* accept thread: the connection it has just accepted
  files,      \* the kernel's descriptor table
  live,       \* live_fds_
  pc,         \* per connection: where it, or its thread, is
  shut,       \* connections shut down or hung up: recv and send return at once
  cursors     \* connections that have left a cursor in the CursorRegistry

stopVars == <<stopping, stopPc>>
acceptVars == <<acceptPc, accepted>>
connVars == <<files, live, pc, shut, cursors>>
vars == <<stopVars, acceptVars, connVars>>

(* "away": not connected; "backlog": connected, not accepted; "accepted":   *)
(* no thread yet; "check" to "close": its thread runs; "gone": closed.      *)
Threads == {c \in Conns : pc[c] \in {"check", "recv", "dispatch", "write", "forget", "close"}}

Owns(c, f) == files[f] = c

Init ==
  /\ stopping = FALSE /\ stopPc = "none"
  /\ acceptPc = "check" /\ accepted = NoConn
  /\ files = [f \in Fds |-> Free] /\ live = {}
  /\ pc = [c \in Conns |-> "away"]
  /\ shut = {} /\ cursors = {}

----------------------------------------------------------------------------
(* The accept thread                                                       *)

AcceptCheck ==
  /\ acceptPc = "check"
  /\ acceptPc' = IF stopping THEN "ended" ELSE "poll"
  /\ UNCHANGED <<stopVars, accepted, connVars>>

(* The poll times out, is interrupted, or the connection was aborted.      *)
PollAgain ==
  /\ acceptPc = "poll"
  /\ acceptPc' = "check"
  /\ UNCHANGED <<stopVars, accepted, connVars>>

(* poll or accept fails for good (no descriptors left): the loop ends.     *)
AcceptFails ==
  /\ acceptPc = "poll"
  /\ acceptPc' = "ended"
  /\ UNCHANGED <<stopVars, accepted, connVars>>

Accept(c, f) ==
  /\ acceptPc = "poll" /\ pc[c] = "backlog" /\ files[f] = Free
  /\ acceptPc' = "register" /\ accepted' = c
  /\ files' = [files EXCEPT ![f] = c]
  /\ pc' = [pc EXCEPT ![c] = "accepted"]
  /\ UNCHANGED <<stopVars, live, shut, cursors>>

(* Under the mutex: a connection is closed if stop() has begun meanwhile,  *)
(* else it becomes live and gets its thread.                               *)
Register(f) ==
  /\ acceptPc = "register" /\ Owns(accepted, f)
  /\ IF stopping
     THEN /\ acceptPc' = "ended"
          /\ files' = [files EXCEPT ![f] = Free]
          /\ pc' = [pc EXCEPT ![accepted] = "gone"]
          /\ UNCHANGED live
     ELSE /\ acceptPc' = "check"
          /\ live' = live \cup {f}
          /\ pc' = [pc EXCEPT ![accepted] = "check"]
          /\ UNCHANGED files
  /\ accepted' = NoConn
  /\ UNCHANGED <<stopVars, shut, cursors>>

----------------------------------------------------------------------------
(* A connection thread: serve()                                            *)

Goto(c, from, to) ==
  /\ pc[c] = from
  /\ pc' = [pc EXCEPT ![c] = to]
  /\ UNCHANGED <<stopVars, acceptVars>>

ServeCheck(c) ==
  /\ Goto(c, "check", IF stopping THEN "forget" ELSE "recv")
  /\ UNCHANGED <<files, live, shut, cursors>>

(* A whole message is read; only the client can make this happen. What it   *)
(* had sent before shutdown() can still be read after it.                  *)
ReceiveMessage(c) ==
  /\ Goto(c, "recv", "dispatch")
  /\ UNCHANGED <<files, live, shut, cursors>>

(* The client sends a frame that cannot even be measured.                  *)
BadFrame(c) ==
  /\ Goto(c, "recv", "forget")
  /\ UNCHANGED <<files, live, shut, cursors>>

ReceiveFails(c) ==
  /\ Goto(c, "recv", "forget")
  /\ c \in shut
  /\ UNCHANGED <<files, live, shut, cursors>>

(* dispatch_command runs to its end, whatever stop() is doing; it may open *)
(* a cursor or finish with one, and an error is a reply as well.           *)
Dispatch(c) ==
  /\ Goto(c, "dispatch", "write")
  /\ cursors' \in {cursors, cursors \cup {c}, cursors \ {c}}
  /\ UNCHANGED <<files, live, shut>>

DispatchThrows(c) ==
  /\ Goto(c, "dispatch", "forget")
  /\ UNCHANGED <<files, live, shut, cursors>>

(* write_all ends when the client takes the reply.                         *)
ReplyTaken(c) ==
  /\ Goto(c, "write", "check")
  /\ c \notin shut
  /\ UNCHANGED <<files, live, shut, cursors>>

WriteFails(c) ==
  /\ Goto(c, "write", "forget")
  /\ c \in shut
  /\ UNCHANGED <<files, live, shut, cursors>>

(* Mutant of Forget: the descriptor stays in live_fds_.                    *)
ForgetNothing(c) ==
  /\ Goto(c, "forget", "close")
  /\ UNCHANGED <<files, live, shut, cursors>>

Forget(c) ==
  /\ Goto(c, "forget", "close")
  /\ live' = {f \in live : ~Owns(c, f)}
  /\ UNCHANGED <<files, shut, cursors>>

CloseFd(c) ==
  /\ Goto(c, "close", "gone")
  /\ files' = [f \in Fds |-> IF Owns(c, f) THEN Free ELSE files[f]]
  /\ UNCHANGED <<live, shut, cursors>>

----------------------------------------------------------------------------
(* stop()                                                                  *)

StopBegin ==
  /\ stopPc = "none"
  /\ stopping' = TRUE /\ stopPc' = "accept"
  /\ UNCHANGED <<acceptVars, connVars>>

(* Join the accept thread and close the listening socket, which resets the *)
(* connections still in its backlog.                                       *)
StopAccepting ==
  /\ stopPc = "accept" /\ acceptPc = "ended"
  /\ stopPc' = "shutdown"
  /\ pc' = [c \in Conns |-> IF pc[c] \in {"away", "backlog"} THEN "gone" ELSE pc[c]]
  /\ UNCHANGED <<stopping, acceptVars, files, live, shut, cursors>>

(* Mutant of ShutdownAll: threads are joined without being unblocked.      *)
ShutdownNone ==
  /\ stopPc = "shutdown" /\ stopPc' = "join"
  /\ UNCHANGED <<stopping, acceptVars, connVars>>

ShutdownAll ==
  /\ stopPc = "shutdown" /\ stopPc' = "join"
  /\ shut' = shut \cup {files[f] : f \in live}
  /\ UNCHANGED <<stopping, acceptVars, files, live, pc, cursors>>

(* Mutant of JoinThreads: the threads are left to end by themselves.       *)
JoinNobody ==
  /\ stopPc = "join" /\ stopPc' = "kill"
  /\ UNCHANGED <<stopping, acceptVars, connVars>>

JoinThreads ==
  /\ stopPc = "join" /\ Threads = {}
  /\ stopPc' = "kill"
  /\ UNCHANGED <<stopping, acceptVars, connVars>>

KillAll ==
  /\ stopPc = "kill" /\ stopPc' = "done"
  /\ cursors' = {}
  /\ UNCHANGED <<stopping, acceptVars, files, live, pc, shut>>

----------------------------------------------------------------------------
(* Clients, and the rest of the server process                             *)

Connect(c) ==
  /\ Goto(c, "away", "backlog")
  /\ UNCHANGED <<files, live, shut, cursors>>

HangUp(c) ==
  /\ pc[c] \notin {"away", "gone"} /\ c \notin shut
  /\ shut' = shut \cup {c}
  /\ UNCHANGED <<stopVars, acceptVars, files, live, pc, cursors>>

OtherFile(f) ==
  /\ files[f] \in {Free, Other}
  /\ files' = [files EXCEPT ![f] = IF @ = Free THEN Other ELSE Free]
  /\ UNCHANGED <<stopVars, acceptVars, live, pc, shut, cursors>>

----------------------------------------------------------------------------

AcceptStep ==
  \/ AcceptCheck \/ PollAgain \/ AcceptFails
  \/ \E c \in Conns, f \in Fds : Accept(c, f)
  \/ \E f \in Fds : Register(f)

ServeStep(c) ==
  \/ ServeCheck(c) \/ ReceiveFails(c) \/ Dispatch(c) \/ DispatchThrows(c)
  \/ WriteFails(c) \/ Forget(c) \/ CloseFd(c)

StopStep == StopAccepting \/ ShutdownAll \/ JoinThreads \/ KillAll

ClientStep(c) ==
  Connect(c) \/ HangUp(c) \/ ReceiveMessage(c) \/ BadFrame(c) \/ ReplyTaken(c)

Next ==
  \/ AcceptStep
  \/ \E c \in Conns : ServeStep(c) \/ ClientStep(c)
  \/ StopBegin \/ StopStep
  \/ \E f \in Fds : OtherFile(f)

Spec == Init /\ [][Next]_vars

(* Threads are scheduled: the poll is capped by kAcceptPollMs, a command   *)
(* ends (awaitData has a deadline, locks time out). Clients owe nothing:   *)
(* one may stay silent, or not read its reply, for ever.                   *)
FairSpec ==
  Spec /\ WF_vars(AcceptStep) /\ WF_vars(StopStep) /\ \A c \in Conns : WF_vars(ServeStep(c))

----------------------------------------------------------------------------
(* Properties                                                              *)

(* Type invariant; stop() shuts down nothing but connections.              *)
ListenerTypeOK ==
  /\ stopping \in BOOLEAN
  /\ stopPc \in {"none", "accept", "shutdown", "join", "kill", "done"}
  /\ acceptPc \in {"check", "poll", "register", "ended"}
  /\ accepted \in Conns \cup {NoConn}
  /\ files \in [Fds -> Conns \cup {Free, Other}]
  /\ live \subseteq Fds
  /\ pc \in [Conns -> {"away", "backlog", "accepted", "check", "recv", "dispatch",
                       "write", "forget", "close", "gone"}]
  /\ shut \subseteq Conns /\ cursors \subseteq Conns

(* stop()'s shutdown pass never hits a descriptor that some other part of  *)
(* the server has been given since: every live fd belongs to a connection  *)
(* whose thread has not forgotten it (serve() forgets before it closes).   *)
LiveFdsAreOurs == \A f \in live : files[f] \in Threads /\ pc[files[f]] # "close"

(* When stop() returns no connection thread runs, no descriptor is left    *)
(* open and no cursor is left in the registry, though dispatch_command may *)
(* have opened one at any time before its thread was joined.               *)
NothingOutlivesStop ==
  stopPc = "done" =>
    Threads = {} /\ live = {} /\ cursors = {} /\ \A f \in Fds : files[f] \notin Conns

(* stop() always returns: no client, silent in recv or not reading its     *)
(* reply, keeps the server from shutting down.                             *)
StopReturns == stopPc # "none" ~> stopPc = "done"

----------------------------------------------------------------------------
(* The inductive invariant                                                 *)

(* Descriptors: a connection has one only from accept() to close().        *)
FilesInv ==
  /\ \A f \in Fds : files[f] \in Conns => pc[files[f]] \notin {"away", "backlog", "gone"}
  /\ \A f, g \in Fds : files[f] \in Conns /\ files[f] = files[g] => f = g

(* The accept thread registers the one connection it has accepted.         *)
AcceptInv ==
  /\ \A c \in Conns : pc[c] = "accepted" => acceptPc = "register" /\ accepted = c
  /\ acceptPc = "register" => accepted \in Conns /\ pc[accepted] = "accepted"

(* What stop() has waited for stays so.                                    *)
StopInv ==
  /\ stopPc # "none" => stopping
  /\ stopPc \in {"shutdown", "join", "kill", "done"} =>
       acceptPc = "ended" /\ \A c \in Conns : pc[c] \notin {"away", "backlog"}
  /\ stopPc \in {"kill", "done"} => Threads = {}
  /\ stopPc = "done" => cursors = {}

ListenerInd == ListenerTypeOK /\ LiveFdsAreOurs /\ FilesInv /\ AcceptInv /\ StopInv
=============================================================================
