--------------------------- MODULE ListenerProofs ---------------------------
(***************************************************************************)
(* Proofs about Listener: the shutdown pass only hits live connections and *)
(* nothing outlives stop(), for any number of connections and descriptors. *)
(* That stop() returns (StopReturns) is liveness and stays with TLC.       *)
(***************************************************************************)
EXTENDS Listener, TLAPS

LEMMA InitInd == Init => ListenerInd
BY ListenerAssumption
   DEF Init, ListenerInd, ListenerTypeOK, LiveFdsAreOurs, FilesInv, AcceptInv, StopInv,
       Threads, NoConn

(* The accept thread's steps keep the invariant.                           *)
LEMMA AcceptInd ==
  ASSUME ListenerInd, AcceptStep
  PROVE  ListenerInd'
<1> USE ListenerAssumption
          DEF ListenerInd, ListenerTypeOK, LiveFdsAreOurs, FilesInv, AcceptInv, StopInv,
              Threads, Owns, NoConn, stopVars, acceptVars, connVars
<1>1. CASE AcceptCheck
  BY <1>1 DEF AcceptCheck
<1>2. CASE PollAgain
  BY <1>2 DEF PollAgain
<1>3. CASE AcceptFails
  BY <1>3 DEF AcceptFails
<1>4. CASE \E c \in Conns, f \in Fds : Accept(c, f)
  BY <1>4 DEF Accept
<1>5. CASE \E f \in Fds : Register(f)
  BY <1>5 DEF Register
<1>6. QED
  BY <1>1, <1>2, <1>3, <1>4, <1>5 DEF AcceptStep

(* A connection thread's steps keep the invariant.                         *)
LEMMA ServeInd ==
  ASSUME ListenerInd, NEW c \in Conns, ServeStep(c)
  PROVE  ListenerInd'
<1> USE ListenerAssumption
          DEF ListenerInd, ListenerTypeOK, LiveFdsAreOurs, FilesInv, AcceptInv, StopInv,
              Threads, Owns, NoConn, stopVars, acceptVars, connVars
<1>1. CASE ServeCheck(c)
  BY <1>1 DEF ServeCheck, Goto
<1>2. CASE ReceiveFails(c)
  BY <1>2 DEF ReceiveFails, Goto
<1>3. CASE Dispatch(c)
  BY <1>3 DEF Dispatch, Goto
<1>4. CASE DispatchThrows(c)
  BY <1>4 DEF DispatchThrows, Goto
<1>5. CASE WriteFails(c)
  BY <1>5 DEF WriteFails, Goto
<1>6. CASE Forget(c)
  BY <1>6 DEF Forget, Goto
<1>7. CASE CloseFd(c)
  BY <1>7 DEF CloseFd, Goto
<1>8. QED
  BY <1>1, <1>2, <1>3, <1>4, <1>5, <1>6, <1>7 DEF ServeStep

(* What clients do keeps the invariant.                                    *)
LEMMA ClientInd ==
  ASSUME ListenerInd, NEW c \in Conns, ClientStep(c)
  PROVE  ListenerInd'
<1> USE ListenerAssumption
          DEF ListenerInd, ListenerTypeOK, LiveFdsAreOurs, FilesInv, AcceptInv, StopInv,
              Threads, Owns, NoConn, stopVars, acceptVars, connVars
<1>1. CASE Connect(c)
  BY <1>1 DEF Connect, Goto
<1>2. CASE HangUp(c)
  BY <1>2 DEF HangUp
<1>3. CASE ReceiveMessage(c)
  BY <1>3 DEF ReceiveMessage, Goto
<1>4. CASE BadFrame(c)
  BY <1>4 DEF BadFrame, Goto
<1>5. CASE ReplyTaken(c)
  BY <1>5 DEF ReplyTaken, Goto
<1>6. QED
  BY <1>1, <1>2, <1>3, <1>4, <1>5 DEF ClientStep

(* stop()'s steps keep the invariant.                                      *)
LEMMA StopInd ==
  ASSUME ListenerInd, StopBegin \/ StopStep
  PROVE  ListenerInd'
<1> USE ListenerAssumption
          DEF ListenerInd, ListenerTypeOK, LiveFdsAreOurs, FilesInv, AcceptInv, StopInv,
              Threads, Owns, NoConn, stopVars, acceptVars, connVars
<1>1. CASE StopBegin
  BY <1>1 DEF StopBegin
<1>2. CASE StopAccepting
  BY <1>2 DEF StopAccepting
<1>3. CASE ShutdownAll
  BY <1>3 DEF ShutdownAll
<1>4. CASE JoinThreads
  BY <1>4 DEF JoinThreads
<1>5. CASE KillAll
  BY <1>5 DEF KillAll
<1>6. QED
  BY <1>1, <1>2, <1>3, <1>4, <1>5 DEF StopStep

(* Descriptors of the rest of the process never meet a live one.           *)
LEMMA OtherInd ==
  ASSUME ListenerInd, NEW f \in Fds, OtherFile(f)
  PROVE  ListenerInd'
BY ListenerAssumption
   DEF OtherFile, ListenerInd, ListenerTypeOK, LiveFdsAreOurs, FilesInv, AcceptInv, StopInv,
       Threads, stopVars, acceptVars

LEMMA StutterInd ==
  ASSUME ListenerInd, UNCHANGED vars
  PROVE  ListenerInd'
BY DEF vars, stopVars, acceptVars, connVars, ListenerInd, ListenerTypeOK, LiveFdsAreOurs,
       FilesInv, AcceptInv, StopInv, Threads, NoConn

(* The inductive invariant of the listener: descriptors are unique, live   *)
(* ones belong to running threads, and what stop() waited for stays so.    *)
THEOREM ListenerInvariant == Spec => []ListenerInd
<1>1. ListenerInd /\ [Next]_vars => ListenerInd'
  <2> SUFFICES ASSUME ListenerInd, [Next]_vars
               PROVE  ListenerInd'
    OBVIOUS
  <2>1. CASE AcceptStep
    BY <2>1, AcceptInd
  <2>2. CASE \E c \in Conns : ServeStep(c)
    BY <2>2, ServeInd
  <2>3. CASE \E c \in Conns : ClientStep(c)
    BY <2>3, ClientInd
  <2>4. CASE StopBegin \/ StopStep
    BY <2>4, StopInd
  <2>5. CASE \E f \in Fds : OtherFile(f)
    BY <2>5, OtherInd
  <2>6. CASE UNCHANGED vars
    BY <2>6, StutterInd
  <2>7. QED
    BY <2>1, <2>2, <2>3, <2>4, <2>5, <2>6 DEF Next
<1>2. QED
  BY InitInd, <1>1, PTL DEF Spec

(* The listener's type invariant, for every set of connections and         *)
(* descriptors; in particular stop() shuts down nothing but connections.   *)
THEOREM ListenerTypeCorrect == Spec => []ListenerTypeOK
BY ListenerInvariant, PTL DEF ListenerInd

(* stop()'s shutdown pass only ever meets descriptors of connections whose *)
(* threads have not forgotten them, however descriptors are reused.        *)
THEOREM ShutdownHitsOnlyOurs == Spec => []LiveFdsAreOurs
BY ListenerInvariant, PTL DEF ListenerInd

(* Nothing the listener started outlives stop(): no thread, no descriptor, *)
(* no cursor of the registry.                                              *)
THEOREM StopIsComplete == Spec => []NothingOutlivesStop
<1>1. ListenerInd => NothingOutlivesStop
  BY DEF ListenerInd, ListenerTypeOK, LiveFdsAreOurs, FilesInv, AcceptInv, StopInv,
         NothingOutlivesStop, Threads
<1>2. QED
  BY ListenerInvariant, <1>1, PTL
=============================================================================
