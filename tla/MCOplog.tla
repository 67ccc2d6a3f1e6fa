------------------------------ MODULE MCOplog ------------------------------
(* Small instances of Oplog.                                               *)
EXTENDS Oplog

Row(s, time, inc, name) == [seq |-> s, t |-> time, i |-> inc, ns |-> name]
Fresh == [all |-> {}, kept |-> {}, clock |-> ZeroTs]

(* An oplog written by an older version: row 1 was pruned, 2 is left.      *)
Legacy ==
  LET name == CHOOSE n \in Namespaces : TRUE
  IN [all |-> {Row(1, 1, 1, name), Row(2, 1, 2, name)},
      kept |-> {Row(2, 1, 2, name)}, clock |-> [t |-> 1, i |-> 2]]

(* One where seq 1 was consumed by a rollback: nothing is missing, but the *)
(* installer cannot know.                                                  *)
LegacyGap ==
  LET kept == {Row(2, 1, 1, CHOOSE n \in Namespaces : TRUE)}
  IN [all |-> kept, kept |-> kept, clock |-> [t |-> 1, i |-> 1]]

AnyDatabase == {Fresh, Legacy, LegacyGap}
OnlyFresh == {Fresh}

ByRows == {[rows |-> 1, age |-> 0]}
(* Each limit alone, both, and an age the clock has not reached.           *)
ByRowsOrAge == {[rows |-> 1, age |-> 0], [rows |-> 0, age |-> 1],
                [rows |-> 2, age |-> 1], [rows |-> 0, age |-> 3]}
ByAge == {[rows |-> 0, age |-> 1]}
Unlimited == {[rows |-> 0, age |-> 0]}
=============================================================================
