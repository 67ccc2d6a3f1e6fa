------------------------------ MODULE MCStream ------------------------------
(* One consumer at a time against the pruner, the writers and the clock.   *)
EXTENDS MCChangeStream

RowsOrAge == ByRows \cup ByAge

(* A consumer that has done nothing.                                       *)
Untouched(c) ==
  cpc[c] = "new" /\ origin[c] = 0 /\ token[c] = 0 /\ since[c] = Never /\ got[c] = {}

(* Consumers share no state: one moves only if no other one has.           *)
OneConsumer ==
  \A c \in Consumers : cpc'[c] # cpc[c] => \A d \in Consumers \ {c} : Untouched(d)

(* The other namespace matters to how batches fill up, which takes no      *)
(* second: it is written to while the wall clock stands, and so is all     *)
(* that a tail, to which time means nothing, meets.                        *)
TimeStands ==
  now' > 1 => /\ \A r \in log' \cup pend' : r.ns = Watched
              /\ \A t \in Tails : Untouched(t)'

(* A limit on rows knows no time: it is the pruner's as long as the clock  *)
(* stands, or never. An age limit of 1 second takes a row only in the      *)
(* third: two rows are enough for that.                                    *)
TimeForAge ==
  /\ now' > 1 => ppc' = "idle" \/ plan'.rows = 0
  /\ now' = 1 => ppc' = "idle" \/ plan'.age = 0
  /\ now' = 2 => hist'.pruned = 0
  /\ now' = MaxTime => \A r \in log' \cup pend' : r.seq < MaxSeq

Focus == OneConsumer /\ TimeStands /\ TimeForAge
=============================================================================
