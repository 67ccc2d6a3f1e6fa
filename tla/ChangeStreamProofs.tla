------------------------- MODULE ChangeStreamProofs -------------------------
(***************************************************************************)
(* Proofs about ChangeStream, for any number of writers and consumers: no  *)
(* silent gap, no duplicate and no spurious loss of history in a stream,   *)
(* tails that skip only what was pruned, start times that miss nothing     *)
(* while commit order is time order, and the refinement of EventFeed. They *)
(* rest on the oplog's invariant: commits land above every settled         *)
(* position, and the watermark tells of every deletion.                    *)
(***************************************************************************)
EXTENDS ChangeStream, OplogProofs

(* Seen from the oplog, a consumer's step changes nothing.                 *)
LEMMA OplogSide ==
  ASSUME [Next]_vars
  PROVE  [OplogNext]_oplogVars
<1> USE DEF streamVars, cursorVars, clientVars
<1>1. CASE OplogStep
  BY <1>1 DEF OplogNext
<1>2. ASSUME NEW w \in WireWriters, Signal(w) PROVE OplogNext
  BY <1>2 DEF Signal, OplogNext
<1>3. ASSUME NEW c \in Consumers, OpenStep(c) PROVE UNCHANGED oplogVars
  BY <1>3 DEF OpenStep, ResolveHead, ResolveTime, ResolveTimeLost, ResolveToken,
              StartAfter, OpenChangeStream, FindHead, FindOplog,
              FindOplogNewestFirst, OpenTail
<1>4. ASSUME NEW c \in Consumers, GetMoreStep(c) PROVE UNCHANGED oplogVars
  BY <1>4 DEF GetMoreStep, SampleHead, ReadBatch, CheckHistory, Park, Wake,
              AdvanceTail, Receive
<1>5. ASSUME NEW c \in Consumers, Disconnect(c) PROVE UNCHANGED oplogVars
  BY <1>5 DEF Disconnect
<1>6. CASE Crash
  BY <1>6 DEF Crash, OplogNext
<1>7. CASE UNCHANGED vars
  BY <1>7 DEF vars
<1> QED
  BY <1>1, <1>2, <1>3, <1>4, <1>5, <1>6, <1>7 DEF Next

(* The oplog's invariant therefore also holds with consumers around.       *)
THEOREM OplogInvariantWithStreams == Spec => []OplogInd
<1>1. Init => OplogInd
  BY InitType, InitParts DEF Init, OplogInd
<1>2. OplogInd /\ [Next]_vars => OplogInd'
  BY OplogSide, TypeStep, RowsStep, LockStep, HistoryStep, PlanInvStep,
     NewestStep, WatermarkStep DEF OplogInd
<1> QED
  BY <1>1, <1>2, PTL DEF Spec

----------------------------------------------------------------------------
(* Batches                                                                 *)

(* Last is the greatest element of a bounded batch.                        *)
LEMMA LastIsGreatest ==
  ASSUME NEW B, B \subseteq Nat, NEW b \in Nat, \A x \in B : x <= b,
         NEW low \in Nat
  PROVE  /\ B = {} => Last(B, low) = low
         /\ B # {} => Last(B, low) \in B /\ \A x \in B : x <= Last(B, low)
<1>1. CASE B = {}
  BY <1>1 DEF Last
<1>2. CASE B # {}
  <2>1. PICK m \in B : \A x \in B : x <= m
    BY <1>2, MaxOfNaturals
  <2> QED
    BY <1>2, <2>1 DEF Last
<1> QED
  BY <1>1, <1>2

CompleteUpTo(na, B, S, low, sampled) ==
  /\ na \in Nat /\ low <= na
  /\ B \subseteq S /\ \A s \in B : s <= na
  /\ \A s \in S : s <= na => s \in B
  /\ na \in S \/ na = low \/ na = sampled

(* A limited ascending read is complete up to the position tail_batch      *)
(* moves to, and that position is one that was read, sampled or held.      *)
LEMMA BatchComplete ==
  ASSUME NEW S, S \subseteq Nat, NEW b \in Nat, NEW low \in Nat,
         \A s \in S : low < s /\ s <= b,
         NEW n \in Nat \ {0}, NEW sampled \in Nat, NEW B \in Lowest(S, n)
  PROVE  CompleteUpTo(NextAfter(B, n, low, sampled), B, S, low, sampled)
<1> DEFINE na == NextAfter(B, n, low, sampled)
           last == Last(B, low)
<1> USE DEF CompleteUpTo
<1>1. /\ B \subseteq S
      /\ \A x \in B, y \in S \ B : x < y
      /\ Cardinality(B) = n \/ B = S
  BY DEF Lowest
<1>2. /\ B = {} => last = low
      /\ B # {} => last \in B /\ \A x \in B : x <= last
  BY <1>1, LastIsGreatest
<1> HIDE DEF last
<1>3. last \in Nat /\ low <= last /\ \A s \in B : s <= last
  <2>1. CASE B = {}
    BY <1>2, <2>1
  <2>2. CASE B # {}
    <3>1. last \in S
      BY <1>1, <1>2, <2>2
    <3>2. last \in Nat /\ low < last
      BY <3>1
    <3> QED
      BY <1>2, <2>2, <3>2
  <2> QED
    BY <2>1, <2>2
<1>4. CASE Cardinality(B) >= n
  <2>1. na = last
    BY <1>4 DEF NextAfter, last
  <2>2. \A s \in S : s <= last => s \in B
    <3>1. CASE B = {}
      BY <1>2, <3>1
    <3>2. CASE B # {}
      <4> SUFFICES ASSUME NEW s \in S, s <= last, s \notin B PROVE FALSE
        OBVIOUS
      <4>1. last < s
        BY <1>1, <1>2, <3>2
      <4> QED
        BY <1>3, <4>1
    <3> QED
      BY <3>1, <3>2
  <2> QED
    BY <1>1, <1>2, <1>3, <2>1, <2>2
<1>5. CASE ~(Cardinality(B) >= n)
  <2>1. B = S
    BY <1>1, <1>5
  <2>2. na = IF sampled > last THEN sampled ELSE last
    BY <1>5 DEF NextAfter, Max2, last
  <2> QED
    BY <1>1, <1>2, <1>3, <2>1, <2>2
<1> QED
  BY <1>4, <1>5

----------------------------------------------------------------------------
(* Settled positions                                                       *)

(* Commits land above a settled position, so it stays settled, what lies   *)
(* below it never changes, and the floor of the history never sinks.       *)
LEMMA SettledStable ==
  ASSUME OplogInd, [OplogNext]_oplogVars
  PROVE  /\ \A p \in Nat : Settled(p) => Settled(p)'
         /\ \A p \in Nat : Settled(p) =>
              \A c \in Streams, low \in Nat : Between(c, low, p)' = Between(c, low, p)
         /\ HistoryFloor' >= HistoryFloor /\ hist'.baseline = hist.baseline
<1> USE DEF OplogInd
<1>0. Quiet \/ Append \/ Publish \/ Undo \/ PruneDelete
  BY Effects
<1>1. log' = log \/ log' = log \cup pend
  BY <1>0 DEF Quiet, Append, Publish, Undo, PruneDelete
<1>2. \A p \in Nat : Settled(p) => Settled(p)'
  BY <1>1 DEF Settled
<1>3. ASSUME NEW p \in Nat, Settled(p), NEW c \in Streams, NEW low \in Nat
      PROVE  Between(c, low, p)' = Between(c, low, p)
  <2>1. \A r \in pend : ~(r.seq <= p)
    <3> SUFFICES ASSUME NEW r \in pend, r.seq <= p PROVE FALSE
      OBVIOUS
    <3>1. r.seq \in Nat /\ r.seq > 0 /\ \A q \in log : q.seq \in Nat /\ q.seq < r.seq
      BY DEF OplogTypeOK, RowsInv, Rows
    <3> QED
      BY <1>3, <3>1 DEF Settled
  <2>2. \A x : x \in Between(c, low, p)' <=>
               x <= p /\ \E r \in log' : r.seq = x /\ Match(c, r) /\ r.seq > low
    BY DEF Between, Matching, Match
  <2>3. \A x : x \in Between(c, low, p) <=>
               x <= p /\ \E r \in log : r.seq = x /\ Match(c, r) /\ r.seq > low
    BY DEF Between, Matching
  <2>4. \A x : x \in Between(c, low, p)' <=> x \in Between(c, low, p)
    BY <1>1, <2>1, <2>2, <2>3
  <2> QED
    BY <2>4
<1>4. HistoryFloor' >= HistoryFloor /\ hist'.baseline = hist.baseline
  <2>1. CASE hist' = hist
    BY <2>1 DEF HistoryFloor, OplogTypeOK
  <2>2. CASE PruneDelete
    <3>1. /\ hist' = RaiseWatermarks(hist, plan.newest, plan.ts)
          /\ hist'.baseline = hist.baseline
      BY <2>2, DeleteEffect
    <3>2. hist'.pruned = IF hist.pruned > plan.newest THEN hist.pruned ELSE plan.newest
      BY <3>1 DEF RaiseWatermarks, OplogTypeOK
    <3>3. hist'.pruned \in Nat /\ hist'.pruned >= hist.pruned
      BY <3>2 DEF OplogTypeOK
    <3> QED
      BY <3>1, <3>3 DEF HistoryFloor, OplogTypeOK
  <2> QED
    BY <1>0, <2>1, <2>2 DEF Quiet, Append, Publish, Undo
<1> QED
  BY <1>2, <1>3, <1>4

(* The head is a settled position at or above the baseline.                *)
LEMMA HeadSettled ==
  ASSUME OplogInd
  PROVE  /\ OplogHead \in Nat /\ Settled(OplogHead) /\ hist.baseline <= OplogHead
<1> USE DEF OplogInd
<1>1. /\ OplogHead \in Nat
      /\ oplog = {} => OplogHead = 0
      /\ oplog # {} => OplogHead \in Seqs(oplog)
  BY HeadIsNewest
<1>2. CASE oplog = {}
  <2>1. log = {}
    BY <1>2 DEF NewestSurvives
  <2> QED
    BY <1>1, <1>2, <2>1 DEF HistoryInv, Settled, OplogTypeOK
<1>3. CASE oplog # {}
  <2>1. PICK r \in oplog : r.seq = OplogHead
    BY <1>1, <1>3 DEF Seqs
  <2>2. r \in log /\ hist.baseline < r.seq
    BY <2>1 DEF RowsInv, HistoryInv
  <2> QED
    BY <1>1, <2>1, <2>2 DEF Settled, OplogTypeOK
<1> QED
  BY <1>2, <1>3

(* So is the floor of the history.                                         *)
LEMMA FloorSettled ==
  ASSUME OplogInd
  PROVE  /\ HistoryFloor \in Nat /\ Settled(HistoryFloor) /\ hist.baseline <= HistoryFloor
<1> USE DEF OplogInd
<1>1. hist.pruned \in Nat /\ hist.baseline \in Nat
  BY DEF OplogTypeOK
<1>2. Settled(hist.pruned)
  BY <1>1 DEF WatermarkExact, Settled
<1>3. Settled(hist.baseline)
  <2>1. CASE log = {}
    BY <2>1 DEF HistoryInv, Settled
  <2>2. CASE log # {}
    <3>1. PICK q \in oplog : TRUE
      BY <2>2 DEF NewestSurvives
    <3>2. q \in log /\ hist.baseline < q.seq /\ q.seq \in Nat
      BY <3>1 DEF HistoryInv, RowsInv, OplogTypeOK, Rows
    <3> QED
      BY <1>1, <3>2 DEF Settled
  <2> QED
    BY <2>1, <2>2
<1> QED
  BY <1>1, <1>2, <1>3 DEF HistoryFloor

(* A missing row above the token lies below the floor: the check sees it.  *)
LEMMA MissingBelowFloor ==
  ASSUME OplogInd, NEW r \in log, r \notin oplog
  PROVE  r.seq <= HistoryFloor
<1>1. r.seq \in Nat /\ hist.pruned \in Nat /\ hist.baseline \in Nat
  BY DEF OplogInd, OplogTypeOK, Rows
<1>2. r.seq > hist.baseline => r.seq <= hist.pruned
  BY DEF OplogInd, WatermarkExact
<1> QED
  BY <1>1, <1>2 DEF HistoryFloor

(* A start resolved from an operation time is settled and at or above the  *)
(* baseline.                                                               *)
LEMMA StartSettled ==
  ASSUME OplogInd, NEW T
  PROVE  LET p == Max2(SeqBefore(T), HistoryFloor)
         IN p \in Nat /\ Settled(p) /\ hist.baseline <= p
<1> DEFINE below == {r \in oplog : TsLess(r, T)}
<1>1. SeqBefore(T) \in Nat /\ Settled(SeqBefore(T))
  <2>1. CASE below = {}
    BY <2>1 DEF SeqBefore, Settled
  <2>2. CASE below # {}
    <3>1. below \subseteq Rows /\ \A r \in below : r.seq <= next
      BY DEF OplogInd, OplogTypeOK, RowsInv, Rows
    <3>2. Newest(below) \in below
      BY <2>2, <3>1, NewestIsGreatest DEF OplogInd, OplogTypeOK
    <3>3. Newest(below) \in log /\ Newest(below).seq \in Nat
      BY <3>1, <3>2 DEF OplogInd, RowsInv, Rows
    <3>4. SeqBefore(T) = Newest(below).seq
      BY <2>2 DEF SeqBefore
    <3> QED
      BY <3>3, <3>4 DEF Settled
  <2> QED
    BY <2>1, <2>2
<1>2. HistoryFloor \in Nat /\ Settled(HistoryFloor) /\ hist.baseline <= HistoryFloor
  BY FloorSettled
<1>3. hist.baseline \in Nat
  BY DEF OplogInd, OplogTypeOK
<1> QED
  BY <1>1, <1>2, <1>3 DEF Max2

(* The rows a consumer's read can return are committed and bounded.        *)
LEMMA MatchingBounded ==
  ASSUME OplogInd, NEW c \in Consumers, NEW low \in Nat
  PROVE  /\ Matching(c, oplog, low) \subseteq Nat
         /\ \A s \in Matching(c, oplog, low) : low < s /\ s <= next /\ s \in Seqs(log)
<1>1. \A r \in oplog : r \in log /\ r.seq \in Nat /\ r.seq < next /\ next \in Nat
  BY DEF OplogInd, OplogTypeOK, RowsInv, Rows
<1> QED
  BY <1>1 DEF Matching, Seqs

(* Consumers stay well typed.                                              *)
LEMMA StreamTypeStep ==
  ASSUME OplogInd, StreamTypeOK, [Next]_vars
  PROVE  StreamTypeOK'
<1> USE DEF StreamTypeOK, cursorVars, clientVars
<1>0. OplogHead \in Nat
  BY HeadSettled
<1>1. CASE UNCHANGED streamVars
  BY <1>1 DEF streamVars
<1>2. ASSUME NEW w \in WireWriters, Signal(w) PROVE StreamTypeOK'
  BY <1>2 DEF Signal
<1>3. ASSUME NEW c \in Consumers, ResolveHead(c) PROVE StreamTypeOK'
  BY <1>0, <1>3 DEF ResolveHead, StartAfter
<1>4. ASSUME NEW c \in Consumers, NEW T \in StartTimes, ResolveTime(c, T)
      PROVE  StreamTypeOK'
  <2>1. T \in Timestamps
    BY DEF StartTimes, OplogInd, OplogTypeOK, Rows, Ts, Timestamps
  <2>2. Max2(SeqBefore(T), HistoryFloor) \in Nat
    BY StartSettled
  <2> QED
    BY <1>4, <2>1, <2>2 DEF ResolveTime, StartAfter
<1>5. ASSUME NEW c \in Consumers, NEW T \in StartTimes, ResolveTimeLost(c, T)
      PROVE  StreamTypeOK'
  BY <1>5 DEF ResolveTimeLost
<1>6. ASSUME NEW c \in Consumers,
             ResolveToken(c) \/ OpenChangeStream(c) \/ FindHead(c) \/ SampleHead(c)
      PROVE  StreamTypeOK'
  BY <1>0, <1>6 DEF ResolveToken, OpenChangeStream, FindHead, SampleHead, Serving
<1>7. ASSUME NEW c \in Consumers, NEW n \in BatchSizes,
             FindOplog(c, n) \/ FindOplogNewestFirst(c, n)
      PROVE  StreamTypeOK'
  <2> DEFINE S == Matching(c, oplog, 0)
  <2>1. S \subseteq Nat /\ \A s \in S : s <= next
    BY MatchingBounded
  <2>2. PICK B \in SUBSET S, start \in Nat, position \in Nat : OpenTail(c, B, start, position)
    <3>1. CASE FindOplog(c, n)
      <4>1. PICK B \in Lowest(S, n) :
              OpenTail(c, B, 0, IF Cardinality(B) >= n THEN Last(B, 0) ELSE head[c])
        BY <3>1 DEF FindOplog
      <4>2. B \in SUBSET S
        BY DEF Lowest
      <4>3. next \in Nat
        BY DEF OplogInd, OplogTypeOK
      <4>4. B \subseteq Nat /\ \A x \in B : x <= next
        BY <2>1, <4>2
      <4>5. Last(B, 0) \in Nat
        <5>0. 0 \in Nat
          OBVIOUS
        <5>1. /\ B = {} => Last(B, 0) = 0
              /\ B # {} => Last(B, 0) \in B
          BY <4>3, <4>4, <5>0, LastIsGreatest
        <5>2. CASE B = {}
          BY <5>1, <5>2
        <5>3. CASE B # {}
          BY <4>4, <5>1, <5>3
        <5> QED
          BY <5>2, <5>3
      <4>6. (IF Cardinality(B) >= n THEN Last(B, 0) ELSE head[c]) \in Nat
        BY <4>5
      <4> HIDE DEF S
      <4> QED
        BY <4>1, <4>2, <4>6, Zenon
    <3>2. CASE FindOplogNewestFirst(c, n)
      <4>1. PICK B \in Highest(S, n) : OpenTail(c, B, head[c], head[c])
        BY <3>2 DEF FindOplogNewestFirst
      <4>2. B \in SUBSET S
        BY DEF Highest
      <4> QED
        BY <4>1, <4>2
    <3> QED
      BY <1>7, <3>1, <3>2
  <2> QED
    BY <2>1, <2>2 DEF OpenTail, Serving
<1>8. ASSUME NEW c \in Consumers, NEW n \in BatchSizes, ReadBatch(c, n)
      PROVE  StreamTypeOK'
  <2> DEFINE S == Matching(c, oplog, after[c])
  <2>1. PICK B \in Lowest(S, n) :
          /\ batch' = [batch EXCEPT ![c] = B]
          /\ nextAfter' = [nextAfter EXCEPT ![c] = NextAfter(B, n, after[c], head[c])]
    BY <1>8 DEF ReadBatch
  <2>2. S \subseteq Nat /\ \A s \in S : after[c] < s /\ s <= next
    BY MatchingBounded
  <2>3. B \subseteq S
    BY DEF Lowest
  <2>4. n \in Nat \ {0} /\ next \in Nat
    BY StreamAssumption DEF OplogInd, OplogTypeOK
  <2>5. NextAfter(B, n, after[c], head[c]) \in Nat
    BY <2>2, <2>4, BatchComplete DEF CompleteUpTo
  <2> QED
    BY <1>8, <2>1, <2>2, <2>3, <2>5 DEF ReadBatch, Serving
<1>9. ASSUME NEW c \in Consumers, CheckHistory(c) PROVE StreamTypeOK'
  BY <1>9 DEF CheckHistory, DropBatch, Serving
<1>10. ASSUME NEW c \in Consumers, Park(c) \/ Wake(c) \/ AdvanceTail(c)
       PROVE  StreamTypeOK'
  <2>1. CASE Park(c)
    BY <2>1 DEF Park, DropBatch, Serving
  <2>2. CASE Wake(c)
    BY <2>2 DEF Wake, Serving
  <2>3. CASE AdvanceTail(c)
    BY <2>3 DEF AdvanceTail, Serving
  <2> QED
    BY <1>10, <2>1, <2>2, <2>3
<1>11. ASSUME NEW c \in Consumers, Receive(c) PROVE StreamTypeOK'
  BY <1>11 DEF Receive, DropBatch, Serving
<1>12. ASSUME NEW c \in Consumers, Disconnect(c) PROVE StreamTypeOK'
  BY <1>12 DEF Disconnect, Forget
<1>13. CASE Crash
  BY <1>13 DEF Crash, Forget, Serving
<1>14. CASE UNCHANGED vars
  BY <1>1, <1>14 DEF vars
<1> QED
  BY <1>1, <1>2, <1>3, <1>4, <1>5, <1>6, <1>7, <1>8, <1>9, <1>10, <1>11, <1>12,
     <1>13, <1>14 DEF Next, OpenStep, GetMoreStep

----------------------------------------------------------------------------
(* The stream invariant                                                    *)

SameSlot(d) ==
  /\ cpc'[d] = cpc[d] /\ after'[d] = after[d] /\ head'[d] = head[d]
  /\ batch'[d] = batch[d] /\ nextAfter'[d] = nextAfter[d]
  /\ token'[d] = token[d] /\ origin'[d] = origin[d] /\ got'[d] = got[d]
  /\ since'[d] = since[d]

(* Steps of the oplog and of other consumers leave a stream's invariant.   *)
LEMMA Unmoved ==
  ASSUME OplogInd, StreamTypeOK, [OplogNext]_oplogVars,
         NEW d \in Streams, StreamOK(d), SameSlot(d)
  PROVE  StreamOK(d)'
<1> SUFFICES ASSUME Subscribed(d)'
             PROVE  PositionInv(d)' /\ BatchInv(d)'
                    /\ (got[d] = Between(d, origin[d], token[d]))'
  BY DEF StreamOK
<1> USE DEF SameSlot
<1>1. /\ Subscribed(d) /\ PositionInv(d) /\ BatchInv(d)
      /\ got[d] = Between(d, origin[d], token[d])
  BY DEF StreamOK, Subscribed
<1>2. /\ token[d] \in Nat /\ origin[d] \in Nat /\ head[d] \in Nat /\ nextAfter[d] \in Nat
  BY DEF StreamTypeOK, Consumers
<1>3. /\ \A p \in Nat : Settled(p) => Settled(p)'
      /\ \A p \in Nat : Settled(p) =>
           \A c \in Streams, low \in Nat : Between(c, low, p)' = Between(c, low, p)
      /\ HistoryFloor' >= HistoryFloor /\ hist'.baseline = hist.baseline
  BY SettledStable
<1>4. /\ Settled(token[d])' /\ Between(d, origin[d], token[d])' = Between(d, origin[d], token[d])
  <2>1. Settled(token[d])
    BY <1>1 DEF PositionInv
  <2>2. \A p \in Nat : Settled(p)' <=> (p = 0 \/ \E r \in log' : p <= r.seq)
    BY DEF Settled
  <2>3. Settled(token[d])'
    BY <1>2, <1>3, <2>1, <2>2 DEF Settled
  <2>4. \A low, p : Between(d, low, p)' = {s \in Matching(d, log, low)' : s <= p}
    BY DEF Between
  <2>5. Between(d, origin[d], token[d])' = {s \in Matching(d, log', origin[d]) : s <= token[d]}
    BY DEF Between, Matching, Match
  <2>6. {s \in Matching(d, log', origin[d]) : s <= token[d]} = Between(d, origin[d], token[d])
    BY <1>2, <1>3, <2>1 DEF Between, Matching, Match
  <2> QED
    BY <2>3, <2>5, <2>6
<1>5. PositionInv(d)'
  <2>1. cpc[d] = "head" => Settled(head[d])'
    BY <1>1, <1>2, <1>3 DEF PositionInv, Settled
  <2> QED
    BY <1>1, <1>3, <1>4, <2>1 DEF PositionInv
<1>6. BatchInv(d)'
  <2> SUFFICES ASSUME cpc[d] \in {"read", "checked", "reply"} PROVE BatchInv(d)'
    BY DEF BatchInv
  <2>1. /\ Settled(nextAfter[d]) /\ token[d] <= nextAfter[d]
        /\ batch[d] \subseteq Between(d, token[d], nextAfter[d])
        /\ \/ batch[d] = Between(d, token[d], nextAfter[d])
           \/ cpc[d] = "read" /\ HistoryFloor > token[d]
    BY <1>1 DEF BatchInv
  <2>2. Settled(nextAfter[d])'
    BY <1>2, <1>3, <2>1 DEF Settled
  <2>3. Between(d, token[d], nextAfter[d])' = Between(d, token[d], nextAfter[d])
    <3>1. Between(d, token[d], nextAfter[d])' = {s \in Matching(d, log', token[d]) : s <= nextAfter[d]}
      BY DEF Between, Matching, Match
    <3>2. {s \in Matching(d, log', token[d]) : s <= nextAfter[d]} = Between(d, token[d], nextAfter[d])
      BY <1>2, <1>3, <2>1 DEF Between, Matching, Match
    <3> QED
      BY <3>1, <3>2
  <2>4. HistoryFloor \in Nat /\ HistoryFloor' \in Int
    BY FloorSettled, OplogSide, TypeStep DEF OplogInd, HistoryFloor, OplogTypeOK
  <2>5. HistoryFloor > token[d] => HistoryFloor' > token[d]
    BY <1>2, <1>3, <2>4
  <2> QED
    BY <2>1, <2>2, <2>3, <2>5 DEF BatchInv
<1> QED
  BY <1>1, <1>4, <1>5, <1>6

(* StreamOK as a predicate on the values of the slot, for steps that leave *)
(* the oplog alone.                                                        *)
SlotOK(c, pc, a, h, b, na, tk, o, g) ==
  pc \notin {"new", "lost"} =>
    /\ pc # "find"
    /\ Settled(tk) /\ o <= tk /\ hist.baseline <= tk
    /\ pc \in {"resolved", "idle", "head", "read", "checked", "parked"} => a = tk
    /\ pc = "head" => Settled(h)
    /\ pc = "reply" => a = na
    /\ pc \in {"read", "checked", "reply"} =>
         /\ Settled(na) /\ tk <= na
         /\ b \subseteq Between(c, tk, na)
         /\ b = Between(c, tk, na) \/ (pc = "read" /\ HistoryFloor > tk)
    /\ g = Between(c, o, tk)

Slot(c) == SlotOK(c, cpc[c], after[c], head[c], batch[c], nextAfter[c], token[c],
                  origin[c], got[c])

LEMMA SlotIsStreamOK ==
  ASSUME NEW c \in Streams
  PROVE  /\ StreamOK(c) => Slot(c)
         /\ UNCHANGED oplogVars /\
            SlotOK(c, cpc'[c], after'[c], head'[c], batch'[c], nextAfter'[c],
                   token'[c], origin'[c], got'[c]) => StreamOK(c)'
<1>1. StreamOK(c) => Slot(c)
  BY DEF StreamOK, Slot, SlotOK, Subscribed, PositionInv, BatchInv
<1>2. ASSUME UNCHANGED oplogVars,
             SlotOK(c, cpc'[c], after'[c], head'[c], batch'[c], nextAfter'[c],
                    token'[c], origin'[c], got'[c])
      PROVE  StreamOK(c)'
  <2>1. log' = log /\ hist' = hist
    BY <1>2 DEF oplogVars, tableVars
  <2>2. Subscribed(c)' => PositionInv(c)'
    BY <1>2, <2>1 DEF SlotOK, Subscribed, PositionInv, Settled
  <2>3. Subscribed(c)' => BatchInv(c)'
    BY <1>2, <2>1 DEF SlotOK, Subscribed, BatchInv, Settled, Between, Matching, Match,
                      HistoryFloor
  <2>4. Subscribed(c)' => (got[c] = Between(c, origin[c], token[c]))'
    BY <1>2, <2>1 DEF SlotOK, Subscribed, Between, Matching, Match
  <2> QED
    BY <2>2, <2>3, <2>4 DEF StreamOK
<1> QED
  BY <1>1, <1>2

(* An empty interval, and two adjoining ones.                              *)
LEMMA Intervals ==
  ASSUME OplogInd, NEW c \in Streams
  PROVE  /\ \A p \in Nat : Between(c, p, p) = {}
         /\ \A o, p, q \in Nat : o <= p /\ p <= q =>
              Between(c, o, q) = Between(c, o, p) \cup Between(c, p, q)
<1>1. \A r \in log : r.seq \in Nat
  BY DEF OplogInd, OplogTypeOK, Rows
<1>2. \A low, high, x : x \in Between(c, low, high) <=>
        x <= high /\ \E r \in log : r.seq = x /\ Match(c, r) /\ r.seq > low
  BY DEF Between, Matching
<1>3. ASSUME NEW p \in Nat PROVE Between(c, p, p) = {}
  BY <1>1, <1>2
<1>4. ASSUME NEW o \in Nat, NEW p \in Nat, NEW q \in Nat, o <= p, p <= q
      PROVE  Between(c, o, q) = Between(c, o, p) \cup Between(c, p, q)
  <2>1. \A x : x \in Between(c, o, q) <=> x \in Between(c, o, p) \/ x \in Between(c, p, q)
    BY <1>1, <1>2, <1>4
  <2> QED
    BY <2>1
<1> QED
  BY <1>3, <1>4

(* Resolving a start position and opening the stream there.                *)
LEMMA OpenKeepsStream ==
  ASSUME OplogInd, StreamTypeOK, NEW c \in Streams, StreamOK(c), OpenStep(c)
  PROVE  StreamOK(c)'
<1>1. c \in Consumers /\ Slot(c) /\ cpc[c] # "find"
  BY SlotIsStreamOK DEF Consumers, Slot, SlotOK
<1>2. ASSUME NEW p \in Nat, Settled(p), hist.baseline <= p, NEW T, StartAfter(c, p, T)
      PROVE  StreamOK(c)'
  <2>1. Between(c, p, p) = {}
    BY Intervals
  <2>2. UNCHANGED oplogVars
    BY <1>2 DEF StartAfter
  <2>3. /\ cpc'[c] = "resolved" /\ after'[c] = p /\ token'[c] = p
        /\ origin'[c] = p /\ got'[c] = {}
    BY <1>1, <1>2 DEF StartAfter, StreamTypeOK
  <2>4. SlotOK(c, cpc'[c], after'[c], head'[c], batch'[c], nextAfter'[c],
               token'[c], origin'[c], got'[c])
    BY <1>2, <2>1, <2>3 DEF SlotOK
  <2> QED
    BY <2>2, <2>4, SlotIsStreamOK
<1>3. CASE ResolveHead(c)
  BY <1>2, <1>3, HeadSettled DEF ResolveHead
<1>4. ASSUME NEW T \in StartTimes, ResolveTime(c, T) PROVE StreamOK(c)'
  BY <1>2, <1>4, StartSettled DEF ResolveTime
<1>5. ASSUME UNCHANGED <<oplogVars, head, batch, nextAfter, token, origin, got>>,
             \/ cpc'[c] = "lost"
             \/ cpc[c] = "closed" /\ cpc'[c] = "resolved" /\ after'[c] = token[c]
             \/ cpc[c] = "resolved" /\ cpc'[c] = "idle" /\ after'[c] = after[c]
      PROVE  StreamOK(c)'
  <2>1. UNCHANGED oplogVars
    BY <1>5
  <2>2. SlotOK(c, cpc'[c], after'[c], head'[c], batch'[c], nextAfter'[c],
               token'[c], origin'[c], got'[c])
    BY <1>1, <1>5 DEF Slot, SlotOK
  <2> QED
    BY <2>1, <2>2, SlotIsStreamOK
<1> USE DEF clientVars, cursorVars
<1>6. ASSUME NEW T \in StartTimes, ResolveTimeLost(c, T) PROVE StreamOK(c)'
  BY <1>1, <1>5, <1>6 DEF ResolveTimeLost, StreamTypeOK
<1>7. CASE ResolveToken(c)
  BY <1>1, <1>5, <1>7 DEF ResolveToken, StreamTypeOK
<1>8. CASE OpenChangeStream(c)
  <2>1. cpc'[c] = "idle" \/ cpc'[c] = "lost"
    BY <1>1, <1>8 DEF OpenChangeStream, StreamTypeOK
  <2> QED
    BY <1>5, <1>8, <2>1 DEF OpenChangeStream
<1>9. ~FindHead(c) /\ \A n \in BatchSizes : ~FindOplog(c, n) /\ ~FindOplogNewestFirst(c, n)
  BY <1>1, StreamAssumption DEF FindHead, FindOplog, FindOplogNewestFirst
<1> QED
  BY <1>3, <1>4, <1>6, <1>7, <1>8, <1>9 DEF OpenStep

(* A batch read at the token is complete up to nextAfter, or the watermark *)
(* already lies above the token and the check after the read will fail.    *)
LEMMA ReadKeepsStream ==
  ASSUME OplogInd, StreamTypeOK, NEW c \in Streams, StreamOK(c),
         NEW n \in BatchSizes, ReadBatch(c, n)
  PROVE  StreamOK(c)'
<1> DEFINE S == Matching(c, oplog, after[c])
           tk == token[c]
<1>1. /\ c \in Consumers /\ cpc[c] = "head"
      /\ after[c] = tk /\ tk \in Nat /\ origin[c] \in Nat /\ head[c] \in Nat
      /\ Settled(tk) /\ Settled(head[c]) /\ origin[c] <= tk /\ hist.baseline <= tk
      /\ got[c] = Between(c, origin[c], tk)
  BY SlotIsStreamOK DEF ReadBatch, Consumers, Slot, SlotOK, StreamTypeOK
<1>2. PICK B \in Lowest(S, n) :
        /\ batch' = [batch EXCEPT ![c] = B]
        /\ nextAfter' = [nextAfter EXCEPT ![c] = NextAfter(B, n, after[c], head[c])]
  BY DEF ReadBatch
<1> DEFINE na == NextAfter(B, n, after[c], head[c])
<1>3. S \subseteq Nat /\ \A s \in S : tk < s /\ s <= next /\ s \in Seqs(log)
  BY <1>1, MatchingBounded
<1>4. n \in Nat \ {0} /\ next \in Nat
  BY StreamAssumption DEF OplogInd, OplogTypeOK
<1>5. /\ na \in Nat /\ tk <= na
      /\ B \subseteq S /\ \A s \in B : s <= na
      /\ \A s \in S : s <= na => s \in B
      /\ na \in S \/ na = tk \/ na = head[c]
  <2>1. /\ S \subseteq Nat /\ after[c] \in Nat /\ head[c] \in Nat
        /\ \A s \in S : after[c] < s /\ s <= next
    BY <1>1, <1>3
  <2>3. /\ next \in Nat /\ n \in Nat \ {0} /\ B \in Lowest(S, n)
    BY <1>2, <1>4
  <2>2. CompleteUpTo(na, B, S, after[c], head[c])
    BY <2>1, <2>3, BatchComplete
  <2> QED
    BY <1>1, <2>2 DEF CompleteUpTo
<1> HIDE DEF na, S, tk
<1>6. Settled(na)
  <2>1. CASE na \in S
    BY <1>3, <1>5, <2>1 DEF Settled, Seqs
  <2> QED
    BY <1>1, <1>5, <2>1
<1>7. /\ \A x \in S : \E r \in oplog : r.seq = x /\ Match(c, r) /\ r.seq > tk
      /\ \A r \in oplog : Match(c, r) /\ r.seq > tk => r.seq \in S
  BY <1>1 DEF S, Matching
<1>8. /\ \A x \in Between(c, tk, na) :
           x <= na /\ \E r \in log : r.seq = x /\ Match(c, r) /\ r.seq > tk
      /\ \A r \in log : Match(c, r) /\ r.seq > tk /\ r.seq <= na =>
           r.seq \in Between(c, tk, na)
  BY DEF Between, Matching
<1>9. oplog \subseteq log
  BY DEF OplogInd, RowsInv
<1>10. B \subseteq Between(c, tk, na)
  BY <1>5, <1>7, <1>8, <1>9
<1>11. B = Between(c, tk, na) \/ HistoryFloor > tk
  <2> SUFFICES ASSUME NEW x \in Between(c, tk, na), x \notin B PROVE HistoryFloor > tk
    BY <1>10
  <2>1. PICK r \in log : r.seq = x /\ Match(c, r) /\ r.seq > tk /\ x <= na
    BY <1>8
  <2>2. r \notin oplog
    BY <1>5, <1>7, <2>1
  <2>3. r.seq <= HistoryFloor
    BY <2>1, <2>2, MissingBelowFloor
  <2>4. r.seq \in Nat /\ HistoryFloor \in Nat
    BY FloorSettled DEF OplogInd, OplogTypeOK, Rows
  <2> QED
    BY <1>1, <2>1, <2>3, <2>4
<1>12. /\ cpc'[c] = "read" /\ batch'[c] = B /\ nextAfter'[c] = na
       /\ after'[c] = tk /\ token'[c] = tk /\ origin'[c] = origin[c] /\ got'[c] = got[c]
       /\ UNCHANGED oplogVars
  BY <1>1, <1>2 DEF ReadBatch, StreamTypeOK, clientVars, na, tk
<1>13. SlotOK(c, cpc'[c], after'[c], head'[c], batch'[c], nextAfter'[c],
              token'[c], origin'[c], got'[c])
  BY <1>1, <1>5, <1>6, <1>10, <1>11, <1>12 DEF SlotOK
<1> QED
  BY <1>12, <1>13, SlotIsStreamOK

(* The other statements of a getMore, the reply, and a lost connection.    *)
LEMMA ServeKeepsStream ==
  ASSUME OplogInd, StreamTypeOK, NEW c \in Streams, StreamOK(c),
         GetMoreStep(c) \/ Disconnect(c)
  PROVE  StreamOK(c)'
<1>1. /\ c \in Consumers /\ Slot(c)
      /\ token[c] \in Nat /\ origin[c] \in Nat /\ nextAfter[c] \in Nat
      /\ hist.baseline \in Nat
  BY SlotIsStreamOK DEF Consumers, StreamTypeOK, OplogInd, OplogTypeOK
<1>2. UNCHANGED oplogVars
  BY DEF GetMoreStep, SampleHead, ReadBatch, CheckHistory, Park, Wake, AdvanceTail,
         Receive, Disconnect
<1> DEFINE Goal == SlotOK(c, cpc'[c], after'[c], head'[c], batch'[c], nextAfter'[c],
                          token'[c], origin'[c], got'[c])
<1> USE DEF clientVars, cursorVars
<1>3. CASE SampleHead(c)
  <2>1. /\ cpc[c] = "idle" /\ cpc'[c] = "head" /\ head'[c] = OplogHead
        /\ UNCHANGED <<after, token, origin, got>>
    BY <1>1, <1>3 DEF SampleHead, StreamTypeOK
  <2>2. Goal
    BY <1>1, <2>1, HeadSettled DEF Slot, SlotOK
  <2> QED
    BY <1>2, <2>2, SlotIsStreamOK
<1>4. ASSUME NEW n \in BatchSizes, ReadBatch(c, n) PROVE StreamOK(c)'
  BY <1>4, ReadKeepsStream
<1>5. CASE CheckHistory(c)
  <2>1. cpc[c] = "read" /\ UNCHANGED <<after, token, origin, got>>
    BY <1>5 DEF CheckHistory
  <2>2. CASE HistoryHolds(after[c])
    <3>1. cpc'[c] = "checked" /\ UNCHANGED <<batch, nextAfter>>
      BY <1>1, <1>5, <2>2 DEF CheckHistory, StreamTypeOK
    <3>2. ~(HistoryFloor > token[c])
      BY <1>1, <2>1, <2>2, FloorSettled DEF HistoryHolds, Slot, SlotOK
    <3>3. Goal
      BY <1>1, <2>1, <3>1, <3>2 DEF Slot, SlotOK
    <3> QED
      BY <1>2, <3>3, SlotIsStreamOK
  <2>3. CASE ~HistoryHolds(after[c])
    <3>1. cpc'[c] = "lost"
      BY <1>1, <1>5, <2>3 DEF CheckHistory, StreamTypeOK
    <3>2. Goal
      BY <3>1 DEF SlotOK
    <3> QED
      BY <1>2, <3>2, SlotIsStreamOK
  <2> QED
    BY <2>2, <2>3
<1>6. CASE Park(c) \/ Wake(c)
  <2>1. /\ \/ cpc[c] = "checked" /\ cpc'[c] = "parked"
           \/ cpc[c] = "parked" /\ cpc'[c] = "idle"
        /\ UNCHANGED <<after, token, origin, got>>
    BY <1>1, <1>6 DEF Park, Wake, StreamTypeOK
  <2>2. Goal
    BY <1>1, <2>1 DEF Slot, SlotOK
  <2> QED
    BY <1>2, <2>2, SlotIsStreamOK
<1>7. CASE AdvanceTail(c)
  <2>1. /\ cpc[c] = "checked" /\ cpc'[c] = "reply" /\ after'[c] = nextAfter[c]
        /\ UNCHANGED <<batch, nextAfter, token, origin, got>>
    BY <1>1, <1>7 DEF AdvanceTail, StreamTypeOK
  <2>2. Goal
    BY <1>1, <2>1 DEF Slot, SlotOK
  <2> QED
    BY <1>2, <2>2, SlotIsStreamOK
<1>8. CASE Receive(c)
  <2>1. /\ cpc[c] = "reply" /\ cpc'[c] = "idle"
        /\ got'[c] = got[c] \cup batch[c] /\ token'[c] = nextAfter[c]
        /\ UNCHANGED <<after, origin>>
    BY <1>1, <1>8 DEF Receive, StreamTypeOK
  <2>2. /\ after[c] = nextAfter[c]
        /\ Settled(nextAfter[c]) /\ token[c] <= nextAfter[c]
        /\ batch[c] = Between(c, token[c], nextAfter[c])
        /\ origin[c] <= token[c] /\ hist.baseline <= token[c]
        /\ got[c] = Between(c, origin[c], token[c])
    BY <1>1, <2>1 DEF Slot, SlotOK
  <2>3. Between(c, origin[c], nextAfter[c]) = got'[c]
    BY <1>1, <2>1, <2>2, Intervals
  <2>4. Goal
    BY <1>1, <2>1, <2>2, <2>3 DEF SlotOK
  <2> QED
    BY <1>2, <2>4, SlotIsStreamOK
<1>9. CASE Disconnect(c)
  <2>1. /\ cpc[c] \in Serving /\ cpc'[c] = "closed"
        /\ UNCHANGED <<token, origin, got>>
    BY <1>1, <1>9 DEF Disconnect, StreamTypeOK
  <2>2. Goal
    BY <1>1, <2>1 DEF Slot, SlotOK, Serving
  <2> QED
    BY <1>2, <2>2, SlotIsStreamOK
<1> QED
  BY <1>3, <1>4, <1>5, <1>6, <1>7, <1>8, <1>9 DEF GetMoreStep

(* Consumers share no state: a step moves at most one of them, or it is a  *)
(* crash of the server.                                                    *)
LEMMA OneConsumerMoves ==
  ASSUME StreamTypeOK, [Next]_vars
  PROVE  \/ Crash
         \/ \A d \in Consumers : SameSlot(d)
         \/ \E c \in Consumers : /\ OpenStep(c) \/ GetMoreStep(c) \/ Disconnect(c)
                                 /\ \A d \in Consumers \ {c} : SameSlot(d)
<1> USE DEF cursorVars, clientVars
<1>1. CASE UNCHANGED streamVars
  BY <1>1 DEF streamVars, SameSlot
<1>2. ASSUME NEW w \in WireWriters, Signal(w), NEW d \in Consumers PROVE SameSlot(d)
  BY <1>2 DEF Signal, SameSlot
<1>3. ASSUME NEW c \in Consumers, NEW d \in Consumers \ {c}, OpenStep(c) PROVE SameSlot(d)
  BY <1>3 DEF OpenStep, SameSlot, StreamTypeOK, ResolveHead, ResolveTime,
    ResolveTimeLost, ResolveToken, StartAfter, OpenChangeStream, FindHead, FindOplog,
    FindOplogNewestFirst, OpenTail
<1>4. ASSUME NEW c \in Consumers, NEW d \in Consumers \ {c}, CheckHistory(c) PROVE SameSlot(d)
  BY <1>4 DEF CheckHistory, DropBatch, SameSlot, StreamTypeOK
<1>5. ASSUME NEW c \in Consumers, NEW d \in Consumers \ {c}, Disconnect(c) PROVE SameSlot(d)
  BY <1>5 DEF Disconnect, Forget, SameSlot, StreamTypeOK
<1>6. ASSUME NEW c \in Consumers, NEW d \in Consumers \ {c}, GetMoreStep(c) PROVE SameSlot(d)
  BY <1>4, <1>6 DEF GetMoreStep, SameSlot, StreamTypeOK, SampleHead, ReadBatch, Park, Wake,
    AdvanceTail, Receive, DropBatch
<1>7. CASE UNCHANGED vars
  BY <1>1, <1>7 DEF vars
<1> QED
  BY <1>1, <1>2, <1>3, <1>5, <1>6, <1>7 DEF Next

(* The same, seen by one consumer.                                         *)
LEMMA ConsumerSteps ==
  ASSUME StreamTypeOK, [Next]_vars, NEW d \in Consumers
  PROVE  SameSlot(d) \/ OpenStep(d) \/ GetMoreStep(d) \/ Disconnect(d) \/ Crash
  BY OneConsumerMoves

(* Every step of the system keeps every stream's invariant.                *)
LEMMA StreamStep ==
  ASSUME OplogInd, StreamTypeOK, [Next]_vars, NEW d \in Streams, StreamOK(d)
  PROVE  StreamOK(d)'
<1>1. [OplogNext]_oplogVars
  BY OplogSide
<1>2. d \in Consumers
  BY DEF Consumers
<1>3. CASE SameSlot(d)
  BY <1>1, <1>3, Unmoved
<1>4. CASE OpenStep(d)
  BY <1>4, OpenKeepsStream
<1>5. CASE GetMoreStep(d) \/ Disconnect(d)
  BY <1>5, ServeKeepsStream
<1> USE DEF clientVars
<1>6. CASE Crash
  <2> SUFFICES ASSUME Subscribed(d)' PROVE StreamOK(d)'
    BY DEF StreamOK
  <2>1. /\ log' = log /\ hist' = hist /\ UNCHANGED <<token, origin, got>>
    BY <1>6 DEF Crash, CrashOplog
  <2>2. cpc[d] \in Serving \cup {"closed"} /\ cpc'[d] = "closed"
    BY <1>2, <1>6 DEF Crash, Subscribed
  <2>3. PositionInv(d) /\ got[d] = Between(d, origin[d], token[d])
    BY <2>2 DEF StreamOK, Subscribed, Serving
  <2>4. PositionInv(d)'
    BY <2>1, <2>2, <2>3 DEF PositionInv, Settled
  <2>5. BatchInv(d)'
    BY <2>2 DEF BatchInv
  <2>6. (got[d] = Between(d, origin[d], token[d]))'
    BY <2>1, <2>3 DEF Between, Matching, Match
  <2> QED
    BY <2>4, <2>5, <2>6 DEF StreamOK
<1> QED
  BY <1>2, <1>3, <1>4, <1>5, <1>6, ConsumerSteps

(* The consumers' inductive invariant holds in every reachable state.      *)
THEOREM StreamInvariant == Spec => []StreamInd
<1>1. Init => StreamInd
  <2> SUFFICES ASSUME StreamInit PROVE StreamInd
    BY DEF Init
  <2>1. StreamTypeOK
    BY DEF StreamInit, StreamTypeOK
  <2>2. \A c \in Streams : StreamOK(c)
    BY DEF StreamInit, StreamOK, Subscribed, Consumers
  <2> QED
    BY <2>1, <2>2 DEF StreamInd
<1>2. OplogInd /\ StreamInd /\ [Next]_vars => StreamInd'
  BY StreamTypeStep, StreamStep DEF StreamInd
<1> QED
  BY <1>1, <1>2, OplogInvariantWithStreams, PTL DEF Spec

(* A change stream receives exactly the committed events of its namespace  *)
(* between its start and its resume token, for any number of writers,      *)
(* streams and tails, any retention limits and any batch sizes.            *)
THEOREM StreamsMissNothing == Spec => []NoSilentGap
<1>1. StreamInd => NoSilentGap
  BY DEF StreamInd, StreamOK, Subscribed, NoSilentGap, Between
<1> QED
  BY <1>1, StreamInvariant, PTL

(* No reply of a change stream repeats or precedes an event the client has *)
(* already received, across lost replies, resumes and restarts.            *)
THEOREM StreamsNeverRepeat == Spec => []DeliversOnce
<1>1. OplogInd /\ StreamInd => DeliversOnce
  <2> SUFFICES ASSUME OplogInd, StreamInd, NEW c \in Streams, cpc[c] = "reply",
                      NEW s \in batch[c], NEW g \in got[c]
               PROVE  g < s
    BY DEF DeliversOnce
  <2>1. /\ s \in Between(c, token[c], nextAfter[c])
        /\ g \in Between(c, origin[c], token[c])
    BY DEF StreamInd, StreamOK, Subscribed, BatchInv
  <2>2. token[c] \in Nat /\ \A r \in log : r.seq \in Nat
    BY DEF StreamInd, StreamTypeOK, Consumers, OplogInd, OplogTypeOK, Rows
  <2> QED
    BY <2>1, <2>2 DEF Between, Matching
<1> QED
  BY <1>1, StreamInvariant, OplogInvariantWithStreams, PTL

(* The history check fails only above a row that is missing.               *)
LEMMA LossShown ==
  ASSUME OplogInd, StreamInd, [Next]_vars, NEW c \in Streams,
         cpc[c] \in {"resolved", "read"}, cpc'[c] = "lost"
  PROVE  \E r \in log \ oplog : r.seq > after[c]
<1>1. ~HistoryHolds(after[c])
  <2> USE DEF StreamInd, StreamTypeOK, Consumers
  <2>1. CASE UNCHANGED streamVars
    BY <2>1 DEF streamVars
  <2>2. ASSUME NEW w \in WireWriters, Signal(w) PROVE FALSE
    BY <2>2 DEF Signal
  <2>3. ASSUME NEW d \in Consumers, OpenStep(d) PROVE ~HistoryHolds(after[c])
    BY <2>3 DEF OpenStep, ResolveHead, ResolveTime, ResolveTimeLost, ResolveToken,
      StartAfter, OpenChangeStream, FindHead, FindOplog, FindOplogNewestFirst, OpenTail
  <2>4. ASSUME NEW d \in Consumers, GetMoreStep(d) PROVE ~HistoryHolds(after[c])
    BY <2>4 DEF GetMoreStep, SampleHead, ReadBatch, CheckHistory, Park, Wake,
      AdvanceTail, Receive
  <2>5. ASSUME NEW d \in Consumers, Disconnect(d) PROVE FALSE
    BY <2>5 DEF Disconnect
  <2>6. CASE Crash
    BY <2>6 DEF Crash, Serving
  <2>7. CASE UNCHANGED vars
    BY <2>1, <2>7 DEF vars
  <2> QED
    BY <2>1, <2>2, <2>3, <2>4, <2>5, <2>6, <2>7 DEF Next
<1>2. /\ after[c] = token[c] /\ Settled(token[c]) /\ hist.baseline <= token[c]
      /\ token[c] \in Nat
  BY DEF StreamInd, StreamOK, Subscribed, PositionInv, StreamTypeOK, Consumers
<1>3. hist.pruned \in Nat /\ hist.baseline \in Nat
  BY DEF OplogInd, OplogTypeOK
<1>4. oplog = {} => token[c] = 0
  BY <1>2 DEF OplogInd, NewestSurvives, Settled
<1>5. hist.pruned > token[c]
  BY <1>1, <1>2, <1>3, <1>4 DEF HistoryHolds, HistoryFloor
<1>6. PICK r \in log \ oplog : r.seq = hist.pruned
  BY <1>2, <1>3, <1>5 DEF OplogInd, WatermarkExact
<1> QED
  BY <1>2, <1>5, <1>6

(* A stream that is answered ChangeStreamHistoryLost has really lost a     *)
(* committed event: never a rollback's gap, never the legacy baseline.     *)
THEOREM LossIsReal == Spec => LostOnlyWhenPruned
<1>1. OplogInd /\ StreamInd /\ [Next]_vars =>
        [\A c \in Streams : cpc[c] \in {"resolved", "read"} /\ cpc'[c] = "lost" =>
           \E r \in log \ oplog : r.seq > after[c]]_vars
  BY LossShown
<1> QED
  BY <1>1, StreamInvariant, OplogInvariantWithStreams, PTL DEF Spec, LostOnlyWhenPruned

----------------------------------------------------------------------------
(* Raw tails                                                               *)

(* A batch or a client's record R holds every matching row that is still   *)
(* in the table between two positions.                                     *)
Covers(c, R, low, high) ==
  \A r \in oplog : Match(c, r) /\ low < r.seq /\ r.seq <= high => r.seq \in R

(* What a tail relies on: its positions are settled, the cursor stands at  *)
(* the token until it is advanced, and neither the batch nor what the      *)
(* client has received misses a row that is still there.                   *)
TailSlotOK(c, pc, a, h, b, na, tk, o, g) ==
  /\ pc \notin {"resolved", "read"}
  /\ pc = "find" => Settled(h)
  /\ pc \in Serving =>
       /\ Settled(tk) /\ Covers(c, g, o, tk)
       /\ pc \in {"idle", "head", "checked", "parked"} => a = tk
       /\ pc = "head" => Settled(h)
       /\ pc = "reply" => a = na
       /\ pc \in {"checked", "reply"} => Settled(na) /\ Covers(c, b, tk, na)

TailOK(c) ==
  TailSlotOK(c, cpc[c], after[c], head[c], batch[c], nextAfter[c], token[c],
             origin[c], got[c])

TailInd == \A c \in Tails : TailOK(c)

(* Commits land above a settled position and pruning only deletes: below   *)
(* it, the table gains no row.                                             *)
LEMMA NothingSlipsUnder ==
  ASSUME OplogInd, [OplogNext]_oplogVars, NEW p \in Nat, Settled(p)
  PROVE  Settled(p)' /\ \A r \in oplog' : r.seq <= p => r \in oplog
<1> USE DEF OplogInd
<1>0. Quiet \/ Append \/ Publish \/ Undo \/ PruneDelete
  BY Effects
<1>1. Settled(p)'
  <2>1. log' = log \/ log' = log \cup pend
    BY <1>0 DEF Quiet, Append, Publish, Undo, PruneDelete
  <2> QED
    BY <2>1 DEF Settled
<1>2. \A r \in oplog' : r \in oplog \/ r \in pend
  BY <1>0 DEF Quiet, Append, Publish, Undo, PruneDelete
<1>3. \A r \in pend : ~(r.seq <= p)
  <2> SUFFICES ASSUME NEW r \in pend, r.seq <= p PROVE FALSE
    OBVIOUS
  <2>1. r.seq \in Nat /\ r.seq > 0 /\ \A q \in log : q.seq \in Nat /\ q.seq < r.seq
    BY DEF OplogTypeOK, RowsInv, Rows
  <2> QED
    BY <2>1 DEF Settled
<1> QED
  BY <1>1, <1>2, <1>3

(* Steps of the oplog and of other consumers leave a tail's invariant.     *)
LEMMA TailUnmoved ==
  ASSUME OplogInd, StreamTypeOK, [OplogNext]_oplogVars,
         NEW d \in Tails, TailOK(d), SameSlot(d)
  PROVE  TailOK(d)'
<1> USE DEF SameSlot
<1>1. /\ token[d] \in Nat /\ head[d] \in Nat /\ nextAfter[d] \in Nat
  BY DEF StreamTypeOK, Consumers
<1>2. ASSUME NEW p \in Nat, Settled(p)
      PROVE  /\ p = 0 \/ \E r \in log' : p <= r.seq
             /\ \A r \in oplog' : r.seq <= p => r \in oplog
  <2>1. Settled(p)' /\ \A r \in oplog' : r.seq <= p => r \in oplog
    BY <1>2, NothingSlipsUnder
  <2> QED
    BY <2>1 DEF Settled
<1>3. \A R, low : \A p \in Nat : Settled(p) /\ Covers(d, R, low, p) =>
        \A r \in oplog' : Match(d, r) /\ low < r.seq /\ r.seq <= p => r.seq \in R
  BY <1>2 DEF Covers
<1> DEFINE pc == cpc[d]
<1>4. /\ pc \notin {"resolved", "read"}
      /\ pc \in {"idle", "head", "checked", "parked"} => after[d] = token[d]
      /\ pc = "reply" => after[d] = nextAfter[d]
  BY DEF TailOK, TailSlotOK, Serving
<1>5. pc = "find" \/ pc = "head" => Settled(head[d])'
  BY <1>1, <1>2 DEF TailOK, TailSlotOK, Settled, Serving
<1>6. pc \in Serving => Settled(token[d])' /\ Covers(d, got[d], origin[d], token[d])'
  <2>1. pc \in Serving => Settled(token[d]) /\ Covers(d, got[d], origin[d], token[d])
    BY DEF TailOK, TailSlotOK
  <2>2. pc \in Serving => Settled(token[d])'
    BY <1>1, <1>2, <2>1 DEF Settled
  <2>3. pc \in Serving => Covers(d, got[d], origin[d], token[d])'
    BY <1>1, <1>3, <2>1 DEF Covers, Match
  <2> QED
    BY <2>2, <2>3
<1>7. pc \in {"checked", "reply"} =>
        Settled(nextAfter[d])' /\ Covers(d, batch[d], token[d], nextAfter[d])'
  <2>1. pc \in {"checked", "reply"} =>
          Settled(nextAfter[d]) /\ Covers(d, batch[d], token[d], nextAfter[d])
    BY DEF TailOK, TailSlotOK, Serving
  <2>2. pc \in {"checked", "reply"} => Settled(nextAfter[d])'
    BY <1>1, <1>2, <2>1 DEF Settled
  <2>3. pc \in {"checked", "reply"} => Covers(d, batch[d], token[d], nextAfter[d])'
    BY <1>1, <1>3, <2>1 DEF Covers, Match
  <2> QED
    BY <2>2, <2>3
<1> QED
  BY <1>4, <1>5, <1>6, <1>7 DEF TailOK, TailSlotOK

(* A step that leaves the oplog alone is judged by the slot's new values.  *)
LEMMA TailSlot ==
  ASSUME NEW c \in Tails, UNCHANGED oplogVars,
         TailSlotOK(c, cpc'[c], after'[c], head'[c], batch'[c], nextAfter'[c],
                    token'[c], origin'[c], got'[c])
  PROVE  TailOK(c)'
<1>1. log' = log /\ oplog' = oplog
  BY DEF oplogVars, tableVars
<1>2. \A p : Settled(p) <=> (p = 0 \/ \E r \in log : p <= r.seq)
  BY DEF Settled
<1>3. Settled(head[c])' <=> Settled(head'[c])
  BY <1>1 DEF Settled
<1>4. Settled(token[c])' <=> Settled(token'[c])
  BY <1>1 DEF Settled
<1>5. Settled(nextAfter[c])' <=> Settled(nextAfter'[c])
  BY <1>1 DEF Settled
<1>6. Covers(c, got[c], origin[c], token[c])' <=> Covers(c, got'[c], origin'[c], token'[c])
  BY <1>1 DEF Covers, Match
<1>7. Covers(c, batch[c], token[c], nextAfter[c])'
        <=> Covers(c, batch'[c], token'[c], nextAfter'[c])
  BY <1>1 DEF Covers, Match
<1> QED
  BY <1>3, <1>4, <1>5, <1>6, <1>7 DEF TailOK, TailSlotOK

(* find_oplog: the first batch covers the table up to where the tail is    *)
(* put, whether the batch was full, short, or read newest first.           *)
LEMMA OpenKeepsTail ==
  ASSUME OplogInd, StreamTypeOK, NEW c \in Tails, TailOK(c), OpenStep(c)
  PROVE  TailOK(c)'
<1>1. /\ c \in Consumers /\ c \notin Streams /\ cpc[c] # "resolved"
      /\ cpc[c] = "find" => Settled(head[c])
      /\ head[c] \in Nat /\ next \in Nat
  BY StreamAssumption DEF Consumers, TailOK, TailSlotOK, StreamTypeOK, OplogInd, OplogTypeOK
<1>2. ASSUME NEW B, NEW start, NEW position \in Nat, Settled(position),
             Covers(c, B, start, position), OpenTail(c, B, start, position)
      PROVE  TailOK(c)'
  <2>1. UNCHANGED oplogVars
    BY <1>2 DEF OpenTail
  <2>2. /\ cpc'[c] = "idle" /\ after'[c] = position /\ token'[c] = position
        /\ origin'[c] = start /\ got'[c] = B
    BY <1>1, <1>2 DEF OpenTail, StreamTypeOK
  <2>3. TailSlotOK(c, cpc'[c], after'[c], head'[c], batch'[c], nextAfter'[c],
                   token'[c], origin'[c], got'[c])
    BY <1>2, <2>2 DEF TailSlotOK
  <2> QED
    BY <2>1, <2>3, TailSlot
<1>3. CASE FindHead(c)
  <2>1. UNCHANGED oplogVars /\ cpc'[c] = "find" /\ head'[c] = OplogHead
    BY <1>1, <1>3 DEF FindHead, StreamTypeOK
  <2>2. Settled(head'[c])
    BY <2>1, HeadSettled
  <2>3. TailSlotOK(c, cpc'[c], after'[c], head'[c], batch'[c], nextAfter'[c],
                   token'[c], origin'[c], got'[c])
    BY <2>1, <2>2 DEF TailSlotOK, Serving
  <2> QED
    BY <2>1, <2>3, TailSlot
<1>4. ASSUME NEW n \in BatchSizes, FindOplog(c, n) PROVE TailOK(c)'
  <2> DEFINE S == Matching(c, oplog, 0)
  <2>1. PICK B \in Lowest(S, n) :
          OpenTail(c, B, 0, IF Cardinality(B) >= n THEN Last(B, 0) ELSE head[c])
    BY <1>4 DEF FindOplog
  <2>2. /\ S \subseteq Nat /\ \A s \in S : s <= next /\ s \in Seqs(log)
    BY <1>1, MatchingBounded
  <2>3. /\ B \subseteq S /\ \A x \in B, y \in S \ B : x < y
        /\ Cardinality(B) = n \/ B = S
    BY DEF Lowest
  <2>4. \A r \in oplog : Match(c, r) /\ 0 < r.seq => r.seq \in S
    BY DEF Matching
  <2>5. Settled(head[c])
    BY <1>1, <1>4 DEF FindOplog
  <2> HIDE DEF S
  <2>6. CASE Cardinality(B) >= n
    <3>1. /\ B = {} => Last(B, 0) = 0
          /\ B # {} => Last(B, 0) \in B /\ \A x \in B : x <= Last(B, 0)
      <4>1. B \subseteq Nat /\ 0 \in Nat /\ \A x \in B : x <= next
        BY <2>2, <2>3
      <4> QED
        BY <1>1, <4>1, LastIsGreatest
    <3>2. Last(B, 0) \in Nat /\ Settled(Last(B, 0))
      <4>1. CASE B = {}
        BY <3>1, <4>1 DEF Settled
      <4>2. CASE B # {}
        <5>1. Last(B, 0) \in Nat /\ Last(B, 0) \in Seqs(log)
          BY <2>2, <2>3, <3>1, <4>2
        <5>2. PICK q \in log : q.seq = Last(B, 0)
          BY <5>1 DEF Seqs
        <5> QED
          BY <5>1, <5>2 DEF Settled
      <4> QED
        BY <4>1, <4>2
    <3>3. Covers(c, B, 0, Last(B, 0))
      <4> SUFFICES ASSUME NEW r \in oplog, Match(c, r), 0 < r.seq, r.seq <= Last(B, 0)
                   PROVE  r.seq \in B
        BY DEF Covers
      <4>1. r.seq \in S /\ r.seq \in Nat
        BY <2>2, <2>4
      <4>2. CASE B = {}
        BY <3>1, <4>1, <4>2
      <4>3. CASE B # {}
        BY <2>2, <2>3, <3>1, <3>2, <4>1, <4>3
      <4> QED
        BY <4>2, <4>3
    <3>4. OpenTail(c, B, 0, Last(B, 0))
      BY <2>1, <2>6
    <3> QED
      BY <1>2, <3>2, <3>3, <3>4
  <2>7. CASE ~(Cardinality(B) >= n)
    <3>1. B = S
      BY <2>3, <2>7, StreamAssumption
    <3>2. Covers(c, B, 0, head[c])
      BY <2>4, <3>1 DEF Covers
    <3>3. OpenTail(c, B, 0, head[c])
      BY <2>1, <2>7
    <3> QED
      BY <1>1, <1>2, <2>5, <3>2, <3>3
  <2> QED
    BY <2>6, <2>7
<1>5. ASSUME NEW n \in BatchSizes, FindOplogNewestFirst(c, n) PROVE TailOK(c)'
  <2>1. PICK B : OpenTail(c, B, head[c], head[c])
    BY <1>5 DEF FindOplogNewestFirst
  <2>2. Settled(head[c])
    BY <1>1, <1>5 DEF FindOplogNewestFirst
  <2>3. Covers(c, B, head[c], head[c])
    <3>1. \A r \in oplog : r.seq \in Nat
      BY DEF OplogInd, OplogTypeOK, Rows
    <3> QED
      BY <1>1, <3>1 DEF Covers
  <2> QED
    BY <1>1, <1>2, <2>1, <2>2, <2>3
<1>6. /\ ~ResolveHead(c) /\ ~ResolveToken(c) /\ ~OpenChangeStream(c)
      /\ \A T \in StartTimes : ~ResolveTime(c, T) /\ ~ResolveTimeLost(c, T)
  BY <1>1 DEF ResolveHead, ResolveToken, OpenChangeStream, ResolveTime, ResolveTimeLost
<1> QED
  BY <1>3, <1>4, <1>5, <1>6 DEF OpenStep

(* A getMore on a tail, its reply, and a lost connection.                  *)
LEMMA ServeKeepsTail ==
  ASSUME OplogInd, StreamTypeOK, NEW c \in Tails, TailOK(c),
         GetMoreStep(c) \/ Disconnect(c)
  PROVE  TailOK(c)'
<1>1. /\ c \in Consumers /\ c \notin Streams /\ cpc[c] # "read"
      /\ token[c] \in Nat /\ nextAfter[c] \in Nat /\ head[c] \in Nat
      /\ \A r \in oplog : r.seq \in Nat
  BY StreamAssumption DEF Consumers, TailOK, TailSlotOK, StreamTypeOK, OplogInd,
     OplogTypeOK, Rows
<1>2. UNCHANGED oplogVars
  BY DEF GetMoreStep, SampleHead, ReadBatch, CheckHistory, Park, Wake, AdvanceTail,
         Receive, Disconnect
<1> DEFINE Goal == TailSlotOK(c, cpc'[c], after'[c], head'[c], batch'[c], nextAfter'[c],
                              token'[c], origin'[c], got'[c])
<1> SUFFICES Goal
  BY <1>2, TailSlot
<1> USE DEF clientVars, cursorVars
<1>3. CASE SampleHead(c)
  <2>1. /\ cpc[c] = "idle" /\ cpc'[c] = "head" /\ head'[c] = OplogHead
        /\ UNCHANGED <<after, token, origin, got>>
    BY <1>1, <1>3 DEF SampleHead, StreamTypeOK
  <2> QED
    BY <2>1, HeadSettled DEF TailOK, TailSlotOK, Serving
<1>4. ASSUME NEW n \in BatchSizes, ReadBatch(c, n) PROVE Goal
  <2> DEFINE S == Matching(c, oplog, after[c])
             tk == token[c]
  <2>1. /\ cpc[c] = "head" /\ after[c] = tk /\ Settled(tk) /\ Settled(head[c])
        /\ Covers(c, got[c], origin[c], tk)
    BY <1>4 DEF ReadBatch, TailOK, TailSlotOK, Serving
  <2>2. PICK B \in Lowest(S, n) :
          /\ batch' = [batch EXCEPT ![c] = B]
          /\ nextAfter' = [nextAfter EXCEPT ![c] = NextAfter(B, n, after[c], head[c])]
    BY <1>4 DEF ReadBatch
  <2> DEFINE na == NextAfter(B, n, after[c], head[c])
  <2>3. S \subseteq Nat /\ \A s \in S : tk < s /\ s <= next /\ s \in Seqs(log)
    BY <1>1, <2>1, MatchingBounded
  <2>4. n \in Nat \ {0} /\ next \in Nat
    BY StreamAssumption DEF OplogInd, OplogTypeOK
  <2>5. CompleteUpTo(na, B, S, after[c], head[c])
    <3>1. /\ S \subseteq Nat /\ after[c] \in Nat /\ head[c] \in Nat
          /\ \A s \in S : after[c] < s /\ s <= next
      BY <1>1, <2>1, <2>3
    <3>2. /\ next \in Nat /\ n \in Nat \ {0} /\ B \in Lowest(S, n)
      BY <2>2, <2>4
    <3> QED
      BY <3>1, <3>2, BatchComplete
  <2>6. \A r \in oplog : Match(c, r) /\ r.seq > tk => r.seq \in S
    BY <2>1 DEF Matching
  <2> HIDE DEF na, S
  <2>7. /\ na \in Nat /\ (\A s \in S : s <= na => s \in B)
        /\ na \in S \/ na = tk \/ na = head[c]
    BY <2>1, <2>5 DEF CompleteUpTo
  <2>8. Settled(na)
    <3>1. CASE na \in S
      BY <2>3, <2>7, <3>1 DEF Settled, Seqs
    <3> QED
      BY <2>1, <2>7, <3>1
  <2>9. Covers(c, B, tk, na)
    BY <1>1, <2>6, <2>7 DEF Covers
  <2>10. /\ cpc'[c] = "checked" /\ batch'[c] = B /\ nextAfter'[c] = na
         /\ after'[c] = tk /\ token'[c] = tk /\ origin'[c] = origin[c] /\ got'[c] = got[c]
    BY <1>1, <1>4, <2>1, <2>2 DEF ReadBatch, StreamTypeOK, na
  <2> QED
    BY <2>1, <2>8, <2>9, <2>10 DEF TailSlotOK
<1>5. ~CheckHistory(c)
  BY <1>1 DEF CheckHistory
<1>6. CASE Park(c) \/ Wake(c)
  <2>1. /\ \/ cpc[c] = "checked" /\ cpc'[c] = "parked"
           \/ cpc[c] = "parked" /\ cpc'[c] = "idle"
        /\ UNCHANGED <<after, token, origin, got>>
    BY <1>1, <1>6 DEF Park, Wake, StreamTypeOK
  <2> QED
    BY <2>1 DEF TailOK, TailSlotOK, Serving
<1>7. CASE AdvanceTail(c)
  <2>1. /\ cpc[c] = "checked" /\ cpc'[c] = "reply" /\ after'[c] = nextAfter[c]
        /\ UNCHANGED <<batch, nextAfter, token, origin, got>>
    BY <1>1, <1>7 DEF AdvanceTail, StreamTypeOK
  <2> QED
    BY <2>1 DEF TailOK, TailSlotOK, Serving
<1>8. CASE Receive(c)
  <2>1. /\ cpc[c] = "reply" /\ cpc'[c] = "idle"
        /\ got'[c] = got[c] \cup batch[c] /\ token'[c] = nextAfter[c]
        /\ UNCHANGED <<after, origin>>
    BY <1>1, <1>8 DEF Receive, StreamTypeOK
  <2>2. /\ after[c] = nextAfter[c] /\ Settled(nextAfter[c])
        /\ Covers(c, got[c], origin[c], token[c])
        /\ Covers(c, batch[c], token[c], nextAfter[c])
    BY <2>1 DEF TailOK, TailSlotOK, Serving
  <2>3. Covers(c, got'[c], origin'[c], token'[c])
    BY <1>1, <2>1, <2>2 DEF Covers
  <2> QED
    BY <2>1, <2>2, <2>3 DEF TailSlotOK
<1>9. CASE Disconnect(c)
  <2>1. cpc'[c] = "new"
    BY <1>1, <1>9 DEF Disconnect, StreamTypeOK
  <2> QED
    BY <2>1 DEF TailSlotOK, Serving
<1> QED
  BY <1>3, <1>4, <1>5, <1>6, <1>7, <1>8, <1>9 DEF GetMoreStep

(* A tail's invariant holds in every reachable state.                      *)
THEOREM TailInvariant == Spec => []TailInd
<1>1. Init => TailInd
  BY DEF Init, StreamInit, TailInd, TailOK, TailSlotOK, Serving, Consumers
<1>2. ASSUME OplogInd, StreamInd, TailInd, [Next]_vars, NEW d \in Tails PROVE TailOK(d)'
  <2>1. /\ d \in Consumers /\ StreamTypeOK /\ TailOK(d) /\ [OplogNext]_oplogVars
    BY <1>2, OplogSide DEF Consumers, StreamInd, TailInd
  <2>2. CASE SameSlot(d)
    BY <1>2, <2>1, <2>2, TailUnmoved
  <2>3. CASE OpenStep(d)
    BY <1>2, <2>1, <2>3, OpenKeepsTail
  <2>4. CASE GetMoreStep(d) \/ Disconnect(d)
    BY <1>2, <2>1, <2>4, ServeKeepsTail
  <2>5. CASE Crash
    <3>1. d \notin Streams
      BY StreamAssumption
    <3>2. cpc'[d] \in {"new", "closed", "lost"}
      BY <2>1, <2>5, <3>1 DEF Crash
    <3> QED
      BY <3>2 DEF TailOK, TailSlotOK, Serving
  <2> QED
    BY <1>2, <2>1, <2>2, <2>3, <2>4, <2>5, ConsumerSteps
<1>3. OplogInd /\ StreamInd /\ TailInd /\ [Next]_vars => TailInd'
  BY <1>2 DEF TailInd
<1> QED
  BY <1>1, <1>3, StreamInvariant, OplogInvariantWithStreams, PTL DEF Spec

(* Consumers are well typed, and a raw tail, which checks no history, has  *)
(* every row of its namespaces at or below its token that the pruner left. *)
THEOREM TailsSkipOnlyPruned == Spec => []ConsumersInv
<1>1. StreamInd /\ TailInd => ConsumersInv
  BY DEF StreamInd, TailInd, TailOK, TailSlotOK, Covers, ConsumersInv,
         TailSkipsOnlyPruned, Matching
<1> QED
  BY <1>1, StreamInvariant, TailInvariant, PTL

----------------------------------------------------------------------------
(* Streams opened at a time                                                *)

(* A baseline above zero was seeded from a row, whose timestamp it kept.   *)
BaselineInv ==
  hist.baseline # 0 =>
    hist.legacy /\ \E q \in log : hist.baseline < q.seq /\ Ts(q) = hist.baseTs

(* Nothing at or below the start of a stream opened at a time has that     *)
(* time or a later one.                                                    *)
StartsBefore(c) ==
  Subscribed(c) /\ since[c] # Never =>
    \A r \in log : r.seq <= origin[c] => TsLess(r, since[c])

StartInd == TsFollowsSeq => \A c \in Streams : StartsBefore(c)

(* Timestamps are ordered lexicographically.                               *)
LEMMA TsOrder ==
  ASSUME NEW a, NEW b, NEW d, a.t \in Nat, a.i \in Nat, b.t \in Nat, b.i \in Nat,
         d.t \in Nat, d.i \in Nat
  PROVE  /\ TsLess(a, b) /\ TsLess(b, d) => TsLess(a, d)
         /\ TsLess(a, b) /\ ~TsLess(d, b) => TsLess(a, d)
         /\ ~TsLess(b, a) /\ TsLess(b, d) => TsLess(a, d)
  BY DEF TsLess

(* Commits never disturb what lies below a settled position, so a log that *)
(* is in timestamp order always was.                                       *)
LEMMA LogGrows ==
  ASSUME OplogInd, [OplogNext]_oplogVars
  PROVE  /\ log \subseteq log'
         /\ \A p \in Nat : Settled(p) => \A r \in log' : r.seq <= p => r \in log
<1> USE DEF OplogInd
<1>0. Quiet \/ Append \/ Publish \/ Undo \/ PruneDelete
  BY Effects
<1>1. log' = log \/ log' = log \cup pend
  BY <1>0 DEF Quiet, Append, Publish, Undo, PruneDelete
<1>2. ASSUME NEW p \in Nat, Settled(p), NEW r \in pend PROVE ~(r.seq <= p)
  <2>1. r.seq \in Nat /\ r.seq > 0 /\ \A q \in log : q.seq \in Nat /\ q.seq < r.seq
    BY DEF OplogTypeOK, RowsInv, Rows
  <2> QED
    BY <1>2, <2>1 DEF Settled
<1> QED
  BY <1>1, <1>2

(* install_oplog_schema seeds a baseline from the oldest row it finds.     *)
THEOREM BaselineFromRow == Spec => []BaselineInv
<1>1. Init => BaselineInv
  <2> SUFFICES ASSUME OplogInit, hist.baseline # 0 PROVE BaselineInv
    BY DEF Init, BaselineInv
  <2>1. PICK d \in Installed : log = d.all /\ hist = SeedHistory(d.kept)
    BY DEF OplogInit
  <2>2. d.kept \subseteq d.all /\ d.all \subseteq Rows
    BY OplogAssumption
  <2>3. d.kept # {}
    BY <2>1 DEF SeedHistory
  <2>4. Oldest(d.kept) \in d.kept
    BY <2>2, <2>3, OldestIsLeast
  <2> DEFINE o == Oldest(d.kept)
  <2>5. o \in log /\ o.seq \in Nat
    BY <2>1, <2>2, <2>4 DEF Rows
  <2>6. hist.baseline = o.seq - 1 /\ hist.legacy = (o.seq > 1) /\ hist.baseTs = Ts(o)
    BY <2>1, <2>3 DEF SeedHistory
  <2> HIDE DEF o
  <2>7. o.seq # 0
    BY <2>1, <2>2, <2>5 DEF Rows
  <2>8. o.seq > 1 /\ hist.baseline < o.seq
    BY <2>5, <2>6, <2>7
  <2>9. hist.legacy
    BY <2>6, <2>8, Zenon
  <2> QED
    BY <2>5, <2>6, <2>8, <2>9 DEF BaselineInv
<1>2. ASSUME OplogInd, BaselineInv, [Next]_vars PROVE BaselineInv'
  <2>1. [OplogNext]_oplogVars
    BY <1>2, OplogSide
  <2>2. log \subseteq log'
    BY <1>2, <2>1, LogGrows
  <2>3. /\ hist'.baseline = hist.baseline /\ hist'.legacy = hist.legacy
        /\ hist'.baseTs = hist.baseTs
    <3>1. Quiet \/ Append \/ Publish \/ Undo \/ PruneDelete
      BY <1>2, <2>1, Effects DEF OplogInd
    <3>2. CASE PruneDelete
      BY <1>2, <3>2 DEF PruneDelete, RaiseWatermarks, OplogInd, OplogTypeOK
    <3> QED
      BY <3>1, <3>2 DEF Quiet, Append, Publish, Undo
  <2> QED
    BY <1>2, <2>2, <2>3 DEF BaselineInv
<1> QED
  BY <1>1, <1>2, OplogInvariantWithStreams, PTL DEF Spec

(* A start resolved from a time lies below every event at or after it: the *)
(* greatest row before the time, the deletion watermark and the baseline   *)
(* each have a committed row whose timestamp shows it.                     *)
LEMMA ResolvedBelowTime ==
  ASSUME OplogInd, BaselineInv, TsFollowsSeq, NEW T \in Timestamps, ~TimeLost(T),
         NEW r \in log, r.seq <= Max2(SeqBefore(T), HistoryFloor)
  PROVE  TsLess(r, T)
<1> DEFINE below == {q \in oplog : TsLess(q, T)}
<1>1. /\ log \subseteq Rows /\ oplog \subseteq log
      /\ \A x, y \in log : x.seq = y.seq => x = y
      /\ hist.pruned \in Nat /\ hist.baseline \in Nat
      /\ hist.ts \in Timestamps /\ hist.baseTs \in Timestamps /\ next \in Nat
  BY DEF OplogInd, OplogTypeOK, RowsInv
<1>2. r.seq \in Nat \ {0} /\ r.t \in Nat /\ r.i \in Nat /\ T.t \in Nat /\ T.i \in Nat
  BY <1>1 DEF Rows, Timestamps
<1>3. ASSUME NEW q \in log, r.seq <= q.seq
      PROVE  /\ TsLess(r, q) \/ r = q
             /\ q.t \in Nat /\ q.i \in Nat /\ q.seq \in Nat
  <2>1. q.t \in Nat /\ q.i \in Nat /\ q.seq \in Nat
    BY <1>1 DEF Rows
  <2> QED
    BY <1>1, <1>2, <1>3, <2>1 DEF TsFollowsSeq
<1>4. CASE r.seq <= SeqBefore(T)
  <2>1. below # {}
    BY <1>2, <1>4 DEF SeqBefore
  <2>2. below \subseteq Rows /\ \A q \in below : q.seq <= next
    BY <1>1 DEF OplogInd, RowsInv, Rows
  <2>3. Newest(below) \in below
    BY <1>1, <2>1, <2>2, NewestIsGreatest
  <2>4. SeqBefore(T) = Newest(below).seq
    BY <2>1 DEF SeqBefore
  <2>5. Newest(below) \in log /\ TsLess(Newest(below), T) /\ r.seq <= Newest(below).seq
    BY <1>1, <1>4, <2>3, <2>4
  <2> QED
    BY <1>2, <1>3, <2>5, TsOrder
<1>5. CASE r.seq <= hist.pruned
  <2>1. hist.pruned # 0
    BY <1>1, <1>2, <1>5
  <2>2. PICK q \in log : q.seq = hist.pruned /\ ~TsLess(hist.ts, q)
    BY <2>1 DEF OplogInd, WatermarkExact
  <2>3. TsLess(hist.ts, T)
    BY <2>1 DEF TimeLost
  <2>4. hist.ts.t \in Nat /\ hist.ts.i \in Nat
    BY <1>1 DEF Timestamps
  <2>5. (TsLess(r, q) \/ r = q) /\ q.t \in Nat /\ q.i \in Nat
    BY <1>3, <1>5, <2>2
  <2>6. TsLess(q, T)
    BY <1>2, <2>2, <2>3, <2>4, <2>5, TsOrder
  <2> QED
    BY <1>2, <2>5, <2>6, TsOrder
<1>6. CASE r.seq <= hist.baseline
  <2>1. hist.baseline # 0
    BY <1>1, <1>2, <1>6
  <2>2. hist.legacy
    BY <2>1 DEF BaselineInv
  <2>3. PICK q \in log : hist.baseline < q.seq /\ Ts(q) = hist.baseTs
    BY <2>1 DEF BaselineInv
  <2>4. q.t \in Nat /\ q.i \in Nat /\ q.seq \in Nat
    BY <1>1, <2>3 DEF Rows
  <2>5. TsLess(r, q)
    <3>1. r.seq < q.seq
      BY <1>1, <1>2, <1>6, <2>3, <2>4
    <3> QED
      BY <3>1 DEF TsFollowsSeq
  <2>6. ~TsLess(T, q)
    BY <2>2, <2>3 DEF TimeLost, Ts, TsLess
  <2> QED
    BY <1>2, <2>4, <2>5, <2>6, TsOrder
<1>7. SeqBefore(T) \in Nat
  <2>1. CASE below = {}
    BY <2>1 DEF SeqBefore
  <2>2. CASE below # {}
    <3>1. below \subseteq Rows /\ \A q \in below : q.seq <= next
      BY <1>1 DEF OplogInd, RowsInv, Rows
    <3>2. Newest(below) \in below
      BY <1>1, <2>2, <3>1, NewestIsGreatest
    <3> QED
      BY <2>2, <3>1, <3>2 DEF SeqBefore, Rows
  <2> QED
    BY <2>1, <2>2
<1> QED
  BY <1>1, <1>2, <1>4, <1>5, <1>6, <1>7 DEF Max2, HistoryFloor

(* startAtOperationTime delivers every event at or after the time, across  *)
(* pruning and the legacy baseline, as long as timestamps follow seqs.     *)
THEOREM StartTimesInclusive == Spec => []StartTimeInclusiveIfOrdered
<1>1. Init => StartInd
  BY DEF Init, StreamInit, StartInd, StartsBefore, Subscribed, Consumers
<1>2. ASSUME OplogInd, StreamInd, BaselineInv, StartInd, [Next]_vars, TsFollowsSeq',
             NEW c \in Streams, Subscribed(c)', since'[c] # Never,
             NEW r \in log', r.seq <= origin'[c]
      PROVE  TsLess(r, since'[c])
  <2>1. [OplogNext]_oplogVars
    BY <1>2, OplogSide
  <2>2. /\ log \subseteq log'
        /\ \A p \in Nat : Settled(p) => \A q \in log' : q.seq <= p => q \in log
    BY <1>2, <2>1, LogGrows
  <2>3. TsFollowsSeq
    BY <1>2, <2>2 DEF TsFollowsSeq
  <2>4. StreamTypeOK /\ StreamOK(c) /\ c \in Consumers /\ origin[c] \in Nat /\ token[c] \in Nat
    BY <1>2 DEF StreamInd, StreamTypeOK, Consumers
  <2>5. ASSUME Subscribed(c), since'[c] = since[c], origin'[c] = origin[c]
        PROVE  TsLess(r, since'[c])
    <3>1. Settled(origin[c])
      <4>1. Settled(token[c]) /\ origin[c] <= token[c]
        BY <2>4, <2>5 DEF StreamOK, PositionInv
      <4>2. \A q \in log : q.seq \in Nat
        BY <1>2 DEF OplogInd, OplogTypeOK, Rows
      <4> QED
        BY <2>4, <4>1, <4>2 DEF Settled
    <3>2. r \in log
      BY <1>2, <2>2, <2>4, <2>5, <3>1
    <3> QED
      BY <1>2, <2>3, <2>5, <3>2 DEF StartInd, StartsBefore
  <2>6. ASSUME NEW T \in StartTimes, ResolveTime(c, T) PROVE TsLess(r, since'[c])
    <3>1. T \in Timestamps
      BY <1>2 DEF StartTimes, OplogInd, OplogTypeOK, Rows, Ts, Timestamps
    <3>2. /\ ~TimeLost(T) /\ log' = log /\ since'[c] = T
          /\ origin'[c] = Max2(SeqBefore(T), HistoryFloor)
      BY <2>4, <2>6 DEF ResolveTime, StartAfter, oplogVars, tableVars, StreamTypeOK
    <3> QED
      BY <1>2, <2>3, <3>1, <3>2, ResolvedBelowTime
  <2>7. ~ResolveHead(c)
    BY <1>2, <2>4 DEF ResolveHead, StartAfter, StreamTypeOK
  <2> USE DEF clientVars
  <2>8. CASE ResolveToken(c) \/ OpenChangeStream(c)
    <3>1. Subscribed(c) /\ UNCHANGED <<since, origin>>
      BY <2>8 DEF ResolveToken, OpenChangeStream, Subscribed
    <3> QED
      BY <2>5, <3>1
  <2>9. /\ ~FindHead(c) /\ \A T \in StartTimes : ~ResolveTimeLost(c, T)
        /\ \A n \in BatchSizes : ~FindOplog(c, n) /\ ~FindOplogNewestFirst(c, n)
    <3>1. c \notin Tails /\ cpc[c] # "find"
      BY <2>4, StreamAssumption DEF StreamOK, Subscribed, PositionInv
    <3>2. ASSUME NEW T \in StartTimes PROVE ~ResolveTimeLost(c, T)
      BY <1>2, <2>4 DEF ResolveTimeLost, Subscribed, StreamTypeOK
    <3> QED
      BY <3>1, <3>2 DEF FindHead, FindOplog, FindOplogNewestFirst
  <2>10. CASE GetMoreStep(c) \/ Disconnect(c)
    <3>1. cpc[c] \in Serving /\ UNCHANGED <<since, origin>>
      BY <2>10 DEF GetMoreStep, Disconnect, SampleHead, ReadBatch, CheckHistory, Park,
        Wake, AdvanceTail, Receive, Serving
    <3> QED
      BY <2>5, <3>1 DEF Subscribed, Serving
  <2>11. CASE Crash
    <3>1. UNCHANGED <<since, origin>>
      BY <2>11 DEF Crash
    <3>2. cpc[c] \in Serving \cup {"closed"}
      BY <1>2, <2>4, <2>11 DEF Crash, Subscribed
    <3> QED
      BY <2>5, <3>1, <3>2 DEF Subscribed, Serving
  <2>12. CASE SameSlot(c)
    BY <1>2, <2>5, <2>12 DEF SameSlot, Subscribed
  <2> QED
    BY <1>2, <2>4, <2>6, <2>7, <2>8, <2>9, <2>10, <2>11, <2>12, ConsumerSteps DEF OpenStep
<1>3. OplogInd /\ StreamInd /\ BaselineInv /\ StartInd /\ [Next]_vars => StartInd'
  BY <1>2 DEF StartInd, StartsBefore
<1>4. StartInd => StartTimeInclusiveIfOrdered
  BY DEF StartInd, StartsBefore, Subscribed, StartTimeInclusiveIfOrdered, StartTimeInclusive
<1> QED
  BY <1>1, <1>3, <1>4, StreamInvariant, BaselineFromRow, OplogInvariantWithStreams, PTL
     DEF Spec

----------------------------------------------------------------------------
(* The refinement of EventFeed                                             *)

(* What the feed sees of a stream.                                         *)
SeenUnchanged(d) ==
  SubState(d)' = SubState(d) /\ token'[d] = token[d] /\ got'[d] = got[d]

(* The feed's variables under a step that moves at most stream c.          *)
LEMMA FeedExcept ==
  ASSUME NEW c \in Streams, \A d \in Streams \ {c} : SeenUnchanged(d)
  PROVE  /\ [d \in Streams |-> SubState(d)]'
              = [[d \in Streams |-> SubState(d)] EXCEPT ![c] = SubState(c)']
         /\ [d \in Streams |-> token[d]]'
              = [[d \in Streams |-> token[d]] EXCEPT ![c] = token'[c]]
         /\ [d \in Streams |-> got[d]]'
              = [[d \in Streams |-> got[d]] EXCEPT ![c] = got'[c]]
  BY DEF SeenUnchanged

LEMMA FeedSame ==
  ASSUME \A d \in Streams : SeenUnchanged(d)
  PROVE  /\ [d \in Streams |-> SubState(d)]' = [d \in Streams |-> SubState(d)]
         /\ [d \in Streams |-> token[d]]' = [d \in Streams |-> token[d]]
         /\ [d \in Streams |-> got[d]]' = [d \in Streams |-> got[d]]
  BY DEF SeenUnchanged

(* The writers and the pruner: a commit publishes, a deletion retires,     *)
(* every other step is invisible.                                          *)
LEMMA OplogRefines ==
  ASSUME OplogInd, OplogInd', [OplogNext]_oplogVars, \A d \in Streams : SeenUnchanged(d)
  PROVE  [Feed!FeedNext]_Feed!feedVars
<1>1. /\ [d \in Streams |-> SubState(d)]' = [d \in Streams |-> SubState(d)]
      /\ [d \in Streams |-> token[d]]' = [d \in Streams |-> token[d]]
      /\ [d \in Streams |-> got[d]]' = [d \in Streams |-> got[d]]
  BY FeedSame
<1>2. Quiet \/ Append \/ Publish \/ Undo \/ PruneDelete
  BY Effects DEF OplogInd
<1>3. CASE Quiet \/ Append \/ Undo
  <2>1. log' = log /\ oplog' = oplog
    BY <1>3 DEF Quiet, Append, Undo
  <2>2. UNCHANGED Feed!feedVars
    BY <1>1, <2>1 DEF Feed!feedVars
  <2> QED
    BY <2>2
<1>4. CASE Publish
  <2>1. log' = log \cup pend /\ oplog' = oplog \cup pend
    BY <1>4 DEF Publish
  <2>2. /\ \A r \in log, p \in pend : r.seq < p.seq
        /\ \A r \in log : r.seq \in Nat
    BY DEF OplogInd, OplogTypeOK, RowsInv, Rows
  <2>3. log' \ log = pend
    BY <2>1, <2>2
  <2>4. log \subseteq log' /\ log' \subseteq Rows
    BY <2>1 DEF OplogInd, OplogTypeOK
  <2>5. \A e \in log' \ log, f \in log : f.seq < e.seq
    BY <2>2, <2>3
  <2>6. oplog' = oplog \cup (log' \ log)
    BY <2>1, <2>3
  <2>7. Feed!Publish
    BY <1>1, <2>4, <2>5, <2>6 DEF Feed!Publish
  <2> QED
    BY <2>7 DEF Feed!FeedNext
<1>5. CASE PruneDelete
  <2>1. log' = log /\ oplog' \subseteq oplog
    BY <1>5 DEF PruneDelete
  <2>2. \A e \in oplog : \E f \in oplog' : e.seq <= f.seq
    BY <2>1 DEF OplogInd, RowsInv, NewestSurvives
  <2>3. Feed!Retire
    BY <1>1, <2>1, <2>2 DEF Feed!Retire
  <2> QED
    BY <2>3 DEF Feed!FeedNext
<1> QED
  BY <1>2, <1>3, <1>4, <1>5

(* A stream step: it subscribes, is refused or cut off, receives a reply,  *)
(* or works out of the client's sight.                                     *)
LEMMA StreamRefines ==
  ASSUME OplogInd, StreamInd, [Next]_vars, NEW c \in Streams,
         OpenStep(c) \/ GetMoreStep(c) \/ Disconnect(c),
         \A d \in Streams \ {c} : SeenUnchanged(d)
  PROVE  [Feed!FeedNext]_Feed!feedVars
<1>1. /\ [d \in Streams |-> SubState(d)]'
           = [[d \in Streams |-> SubState(d)] EXCEPT ![c] = SubState(c)']
      /\ [d \in Streams |-> token[d]]'
           = [[d \in Streams |-> token[d]] EXCEPT ![c] = token'[c]]
      /\ [d \in Streams |-> got[d]]'
           = [[d \in Streams |-> got[d]] EXCEPT ![c] = got'[c]]
  BY FeedExcept
<1>2. /\ c \in Consumers /\ StreamTypeOK /\ StreamOK(c) /\ c \notin Tails
      /\ token[c] \in Nat /\ nextAfter[c] \in Nat
  BY StreamAssumption DEF StreamInd, Consumers, StreamTypeOK
<1> USE DEF clientVars, cursorVars
<1>3. log' = log /\ oplog' = oplog
  BY DEF OpenStep, ResolveHead, ResolveTime, ResolveTimeLost, ResolveToken, StartAfter,
    OpenChangeStream, FindHead, FindOplog, FindOplogNewestFirst, OpenTail, GetMoreStep,
    SampleHead, ReadBatch, CheckHistory, Park, Wake, AdvanceTail, Receive, Disconnect,
    oplogVars, tableVars
<1>4. ASSUME SeenUnchanged(c) PROVE UNCHANGED Feed!feedVars
  <2>1. \A d \in Streams : SeenUnchanged(d)
    BY <1>4
  <2> QED
    BY <1>3, <2>1, FeedSame DEF Feed!feedVars
<1>5. ASSUME NEW p \in Nat, Settled(p), NEW T, cpc[c] \in {"new", "lost"}, StartAfter(c, p, T)
      PROVE  Feed!FeedNext
  <2>1. cpc'[c] = "resolved" /\ token'[c] = p /\ got'[c] = {}
    BY <1>2, <1>5 DEF StartAfter, StreamTypeOK
  <2>2. SubState(c)' = "on" /\ SubState(c) # "on"
    BY <1>5, <2>1 DEF SubState
  <2>3. p = 0 \/ \E e \in log : p <= e.seq
    BY <1>5 DEF Settled
  <2>4. Feed!Subscribe(c)
    BY <1>1, <1>3, <2>1, <2>2, <2>3 DEF Feed!Subscribe, Feed!Published
  <2> QED
    BY <2>4 DEF Feed!FeedNext
<1>6. CASE ResolveHead(c)
  BY <1>5, <1>6, HeadSettled DEF ResolveHead
<1>7. ASSUME NEW T \in StartTimes, ResolveTime(c, T) PROVE Feed!FeedNext
  BY <1>5, <1>7, StartSettled DEF ResolveTime
<1>8. ASSUME NEW T \in StartTimes, ResolveTimeLost(c, T) PROVE Feed!FeedNext
  <2>1. /\ cpc[c] = "new" /\ cpc'[c] = "lost" /\ UNCHANGED <<token, got>>
    BY <1>2, <1>8 DEF ResolveTimeLost, StreamTypeOK
  <2>2. SubState(c) = "off" /\ SubState(c)' = "lost"
    BY <2>1 DEF SubState
  <2>3. Feed!Refuse(c)
    BY <1>1, <1>3, <2>1, <2>2 DEF Feed!Refuse
  <2> QED
    BY <2>3 DEF Feed!FeedNext
<1>9. ASSUME cpc[c] \in {"resolved", "read"}, cpc'[c] = "lost", UNCHANGED <<token, got>>
      PROVE  Feed!FeedNext
  <2>1. \E e \in log \ oplog : e.seq > after[c]
    BY <1>9, LossShown
  <2>2. after[c] = token[c]
    BY <1>2, <1>9 DEF StreamOK, Subscribed, PositionInv
  <2>3. SubState(c) = "on" /\ SubState(c)' = "lost"
    BY <1>9 DEF SubState
  <2>4. Feed!CutOff(c)
    BY <1>1, <1>3, <1>9, <2>1, <2>2, <2>3 DEF Feed!CutOff
  <2> QED
    BY <2>4 DEF Feed!FeedNext
<1>10. ASSUME UNCHANGED <<token, got>>, cpc[c] \notin {"new", "lost"},
              cpc'[c] \notin {"new", "lost"}
       PROVE  UNCHANGED Feed!feedVars
  <2>1. SeenUnchanged(c)
    BY <1>10 DEF SeenUnchanged, SubState
  <2> QED
    BY <1>4, <2>1
<1>11. CASE ResolveToken(c)
  BY <1>2, <1>10, <1>11 DEF ResolveToken, StreamTypeOK
<1>12. CASE OpenChangeStream(c)
  <2>1. cpc[c] = "resolved" /\ cpc'[c] \in {"idle", "lost"} /\ UNCHANGED <<token, got>>
    BY <1>2, <1>12 DEF OpenChangeStream, StreamTypeOK
  <2> QED
    BY <1>9, <1>10, <2>1
<1>13. /\ ~FindHead(c)
       /\ \A n \in BatchSizes : ~FindOplog(c, n) /\ ~FindOplogNewestFirst(c, n)
  <2>1. cpc[c] # "find"
    BY <1>2 DEF StreamOK, Subscribed, PositionInv
  <2> QED
    BY <1>2, <2>1 DEF FindHead, FindOplog, FindOplogNewestFirst
<1>14. CASE SampleHead(c) \/ Park(c) \/ Wake(c) \/ AdvanceTail(c) \/ Disconnect(c)
            \/ \E n \in BatchSizes : ReadBatch(c, n)
  <2>1. /\ cpc[c] \in Serving /\ UNCHANGED <<token, got>>
        /\ cpc'[c] \in {"head", "parked", "idle", "reply", "closed", "read"}
    BY <1>2, <1>14 DEF SampleHead, Park, Wake, AdvanceTail, Disconnect, ReadBatch,
      StreamTypeOK, Serving
  <2> QED
    BY <1>10, <2>1 DEF Serving
<1>15. CASE CheckHistory(c)
  <2>1. cpc[c] = "read" /\ cpc'[c] \in {"checked", "lost"} /\ UNCHANGED <<token, got>>
    BY <1>2, <1>15 DEF CheckHistory, StreamTypeOK
  <2> QED
    BY <1>9, <1>10, <2>1
<1>16. CASE Receive(c)
  <2> DEFINE new == {e.seq : e \in {f \in log :
                       Match(c, f) /\ token[c] < f.seq /\ f.seq <= token'[c]}}
  <2>1. /\ cpc[c] = "reply" /\ cpc'[c] = "idle"
        /\ got'[c] = got[c] \cup batch[c] /\ token'[c] = nextAfter[c]
    BY <1>2, <1>16 DEF Receive, StreamTypeOK
  <2>2. /\ Settled(nextAfter[c]) /\ token[c] <= nextAfter[c]
        /\ batch[c] = Between(c, token[c], nextAfter[c])
    BY <1>2, <2>1 DEF StreamOK, Subscribed, BatchInv
  <2>3. \A r \in log : r.seq \in Nat
    BY DEF OplogInd, OplogTypeOK, Rows
  <2>4. batch[c] = new
    <3>1. \A x : x \in batch[c] <=>
            x <= nextAfter[c] /\ \E r \in log : r.seq = x /\ Match(c, r) /\ r.seq > token[c]
      BY <2>2 DEF Between, Matching
    <3>2. \A x : x \in new <=>
            \E r \in log : r.seq = x /\ Match(c, r) /\ token[c] < r.seq /\ r.seq <= nextAfter[c]
      BY <2>1
    <3> HIDE DEF new
    <3>3. \A x : x \in batch[c] <=> x \in new
      BY <1>2, <2>3, <3>1, <3>2
    <3> QED
      BY <3>3
  <2>5. token'[c] = 0 \/ \E e \in log : token'[c] <= e.seq
    BY <2>1, <2>2 DEF Settled
  <2>6. SubState(c) = "on" /\ SubState(c)' = "on" /\ token'[c] >= token[c]
    BY <1>2, <2>1, <2>2 DEF SubState
  <2>7. got'[c] = got[c] \cup new
    BY <2>1, <2>4
  <2>8. Feed!Deliver(c)
    BY <1>1, <1>3, <2>5, <2>6, <2>7 DEF Feed!Deliver, Feed!Published
  <2> QED
    BY <2>8 DEF Feed!FeedNext
<1> QED
  BY <1>6, <1>7, <1>8, <1>11, <1>12, <1>13, <1>14, <1>15, <1>16 DEF OpenStep, GetMoreStep

(* Every step of the system is a step of the feed, or invisible to it.     *)
LEMMA StepRefines ==
  ASSUME OplogInd, OplogInd', StreamInd, [Next]_vars
  PROVE  [Feed!FeedNext]_Feed!feedVars
<1>1. [OplogNext]_oplogVars /\ StreamTypeOK
  BY OplogSide DEF StreamInd
<1>2. CASE \A d \in Streams : SeenUnchanged(d)
  BY <1>1, <1>2, OplogRefines
<1>3. CASE Crash
  <2>1. log' = log /\ oplog' = oplog /\ UNCHANGED <<token, got>>
    BY <1>3 DEF Crash, CrashOplog, clientVars
  <2>2. ASSUME NEW d \in Streams
        PROVE  SubState(d)' \in {SubState(d), "off"} /\ SubState(d)' \in {"off", "on", "lost"}
    <3>1. d \in Consumers
      BY DEF Consumers
    <3>2. cpc'[d] = CASE cpc[d] \in Serving /\ d \in Streams -> "closed"
                      [] cpc[d] \in {"closed", "lost"} -> cpc[d]
                      [] OTHER -> "new"
      BY <1>3, <3>1 DEF Crash
    <3>3. CASE cpc[d] \in Serving
      BY <3>2, <3>3 DEF SubState, Serving
    <3>4. CASE cpc[d] \in {"closed", "lost"}
      BY <3>2, <3>4 DEF SubState, Serving
    <3>5. CASE cpc[d] \notin Serving /\ cpc[d] \notin {"closed", "lost"}
      BY <3>2, <3>5 DEF SubState
    <3> QED
      BY <3>3, <3>4, <3>5
  <2>3. Feed!Restart
    BY <2>1, <2>2 DEF Feed!Restart
  <2> QED
    BY <2>3 DEF Feed!FeedNext
<1>4. ASSUME NEW c \in Consumers, OpenStep(c) \/ GetMoreStep(c) \/ Disconnect(c),
             \A d \in Consumers \ {c} : SameSlot(d)
      PROVE  [Feed!FeedNext]_Feed!feedVars
  <2>1. \A d \in Streams \ {c} : SeenUnchanged(d)
    BY <1>4 DEF SameSlot, SeenUnchanged, SubState, Consumers
  <2>2. CASE c \in Streams
    BY <1>4, <2>1, <2>2, StreamRefines
  <2>3. CASE c \notin Streams
    BY <1>2, <2>1, <2>3
  <2> QED
    BY <2>2, <2>3
<1>5. \/ Crash
      \/ \A d \in Consumers : SameSlot(d)
      \/ \E c \in Consumers : /\ OpenStep(c) \/ GetMoreStep(c) \/ Disconnect(c)
                              /\ \A d \in Consumers \ {c} : SameSlot(d)
  BY <1>1, OneConsumerMoves
<1>6. CASE \A d \in Consumers : SameSlot(d)
  <2>1. \A d \in Streams : SeenUnchanged(d)
    BY <1>6 DEF SameSlot, SeenUnchanged, SubState, Consumers
  <2> QED
    BY <1>2, <2>1
<1> QED
  BY <1>3, <1>4, <1>5, <1>6

(* The change streams implement EventFeed: whatever the interleaving of    *)
(* statements, commits, prunes, lost replies and crashes, a client sees an *)
(* ordered feed that skips nothing and ends only when history is gone.     *)
THEOREM StreamsImplementFeed == Spec => ImplementsEventFeed
<1>1. Init => Feed!FeedInit
  <2>1. Init => OplogInd
    BY InitType, InitParts DEF Init, OplogInd
  <2> QED
    BY <2>1 DEF Init, Feed!FeedInit, StreamInit, OplogInd, OplogTypeOK, RowsInv, SubState,
      Consumers
<1>2. OplogInd /\ OplogInd' /\ StreamInd /\ [Next]_vars => [Feed!FeedNext]_Feed!feedVars
  BY StepRefines
<1> QED
  BY <1>1, <1>2, StreamInvariant, OplogInvariantWithStreams, PTL
     DEF Spec, ImplementsEventFeed, Feed!FeedSpec
=============================================================================
