--------------------------- MODULE CursorsProofs ----------------------------
(***************************************************************************)
(* Proof that the cursor registry hands every user its own result, whole   *)
(* and in order (CursorsInv), for any number of clients, callers and ids.  *)
(*                                                                         *)
(* CursorsInv alone is not inductive: it says nothing of what the registry *)
(* still holds. The inductive invariant adds that an id has at most one    *)
(* user with a record of it, that its entry is that user's, that the       *)
(* entry's offset is at or above everything the user was sent, exactly     *)
(* there as long as no reply was lost, and that a thread left behind by a  *)
(* broken connection only ever serves a user who knows of the loss.        *)
(***************************************************************************)
EXTENDS Cursors, SequenceTheorems, TLAPS

Knows(u, i) == held[u] = i \/ reply[u].id = i
All(u) == got[u] \o reply[u].docs

(* Documents of u's own query in the order of the result.                  *)
Ascending(u, s) ==
  /\ \A k \in DOMAIN s : s[k][1] = u
  /\ \A j, k \in DOMAIN s : j < k => s[j][2] < s[k][2]
UpTo(s, m) == \A k \in DOMAIN s : s[k][2] <= m

(* Where a user is and what it has.                                        *)
UserOK(u) ==
  /\ upc[u] = "idle" => held[u] = 0 /\ got[u] = <<>> /\ want[u] = 0
  /\ upc[u] # "replied" => reply[u] = NoReply
  /\ upc[u] \in {"open", "more", "tail"} => held[u] # 0
  /\ reply[u].id # 0 /\ held[u] # 0 => reply[u].id = held[u]
  /\ Ascending(u, All(u))
  /\ ~lost[u] /\ (upc[u] = "done" \/ (upc[u] = "replied" /\ reply[u].id = 0)) =>
       All(u) = Docs(u, 0, want[u])

(* What the registry still has for it.                                     *)
EntryOK(u, i) ==
  i \in DOMAIN cursors /\ Knows(u, i) =>
    /\ cursors[i].owner = u /\ cursors[i].total = want[u]
    /\ UpTo(All(u), cursors[i].offset)
    /\ ~lost[u] => All(u) = Docs(u, 0, cursors[i].offset)

CursorsInductive ==
  /\ CursorsTypeOK
  /\ \A i \in DOMAIN cursors : cursors[i].offset <= cursors[i].total
  /\ \A u \in Users : UserOK(u)
  /\ \A u \in Users, i \in Ids : EntryOK(u, i)
  /\ \A u, v \in Users, i \in Ids : Knows(u, i) /\ Knows(v, i) => u = v
  /\ \A o \in orphans, u \in Users : Knows(u, o.id) => lost[u]

----------------------------------------------------------------------------
(* Documents of a result                                                   *)

(* What Docs is, as a sequence.                                            *)
LEMMA DocsShape ==
  ASSUME NEW u \in Users, NEW low \in 0..MaxResult, NEW high \in low..MaxResult
  PROVE  /\ Docs(u, low, high) \in Seq(Positions)
         /\ Len(Docs(u, low, high)) = high - low
         /\ DOMAIN Docs(u, low, high) = 1..(high - low)
         /\ \A k \in 1..(high - low) : Docs(u, low, high)[k] = <<u, low + k>>
<1>1. MaxResult \in Nat
  BY CursorsAssumption
<1>2. high - low \in Nat /\ \A k \in 1..(high - low) : low + k \in 1..MaxResult
  BY <1>1
<1>3. \A k \in 1..(high - low) : <<u, low + k>> \in Positions
  BY <1>2 DEF Positions
<1>4. Docs(u, low, high) \in [1..(high - low) -> Positions]
  BY <1>3 DEF Docs
<1>5. Docs(u, low, high) \in Seq(Positions)
  BY <1>2, <1>4
<1>6. DOMAIN Docs(u, low, high) = 1..(high - low)
      /\ \A k \in 1..(high - low) : Docs(u, low, high)[k] = <<u, low + k>>
  BY DEF Docs
<1> QED
  BY <1>2, <1>5, <1>6

(* A first batch is in order and ends where the offset is.                 *)
LEMMA DocsAscend ==
  ASSUME NEW u \in Users, NEW m \in 0..MaxResult
  PROVE  Ascending(u, Docs(u, 0, m)) /\ UpTo(Docs(u, 0, m), m)
<1>1. MaxResult \in Nat
  BY CursorsAssumption
<1>2. DOMAIN Docs(u, 0, m) = 1..(m - 0) /\ \A k \in 1..(m - 0) : Docs(u, 0, m)[k] = <<u, 0 + k>>
  <2>1. 0 \in 0..MaxResult
    BY <1>1
  <2> QED
    BY <2>1, DocsShape
<1> QED
  BY <1>1, <1>2 DEF Ascending, UpTo

(* The next batch continues what was sent.                                 *)
LEMMA AppendAscends ==
  ASSUME NEW u \in Users, NEW m \in 0..MaxResult, NEW n \in m..MaxResult,
         NEW s \in Seq(Positions), Ascending(u, s), UpTo(s, m)
  PROVE  Ascending(u, s \o Docs(u, m, n)) /\ UpTo(s \o Docs(u, m, n), n)
<1>1. MaxResult \in Nat
  BY CursorsAssumption
<1> DEFINE d == Docs(u, m, n)
           t == s \o d
<1>2. d \in Seq(Positions) /\ Len(d) = n - m /\ \A k \in 1..(n - m) : d[k] = <<u, m + k>>
  BY DocsShape
<1>3. \A k \in 1..Len(s) : s[k][1] = u /\ s[k][2] \in 1..m
  <2>1. \A k \in 1..Len(s) : s[k] \in Positions
    OBVIOUS
  <2>2. \A p \in Positions : p[2] \in 1..MaxResult
    BY DEF Positions
  <2> QED
    BY <1>1, <2>1, <2>2 DEF Ascending, UpTo
<1>4. \A j, k \in 1..Len(s) : j < k => s[j][2] < s[k][2]
  BY DEF Ascending
<1> HIDE DEF d
<1>5. Len(s) \in Nat /\ Len(t) = Len(s) + (n - m) /\ DOMAIN t = 1..Len(t)
      /\ \A k \in 1..Len(t) : t[k] = IF k <= Len(s) THEN s[k] ELSE d[k - Len(s)]
  <2>1. t \in Seq(Positions) /\ Len(t) = Len(s) + Len(d)
        /\ \A k \in 1..(Len(s) + Len(d)) : t[k] = IF k <= Len(s) THEN s[k] ELSE d[k - Len(s)]
    BY <1>2, ConcatProperties
  <2> HIDE DEF t
  <2> QED
    BY <1>2, <2>1
<1> HIDE DEF t
<1>6. \A k \in 1..Len(t) : k > Len(s) => t[k][1] = u /\ t[k][2] = m + (k - Len(s))
  <2> SUFFICES ASSUME NEW k \in 1..Len(t), k > Len(s)
               PROVE  t[k][1] = u /\ t[k][2] = m + (k - Len(s))
    OBVIOUS
  <2>1. t[k] = d[k - Len(s)] /\ k - Len(s) \in 1..(n - m)
    BY <1>5
  <2>2. t[k] = <<u, m + (k - Len(s))>>
    BY <1>2, <2>1
  <2> QED
    BY <2>2
<1>7. \A k \in 1..Len(t) : k <= Len(s) => t[k][1] = u /\ t[k][2] \in 1..m /\ t[k] = s[k]
  BY <1>3, <1>5
<1>8. \A k \in 1..Len(t) : t[k][1] = u /\ t[k][2] <= n
  BY <1>1, <1>5, <1>6, <1>7
<1>9. \A j, k \in 1..Len(t) : j < k => t[j][2] < t[k][2]
  <2> SUFFICES ASSUME NEW j \in 1..Len(t), NEW k \in 1..Len(t), j < k
               PROVE  t[j][2] < t[k][2]
    OBVIOUS
  <2>1. CASE k <= Len(s)
    <3>1. j \in 1..Len(s) /\ k \in 1..Len(s)
      BY <1>5, <2>1
    <3>2. t[j] = s[j] /\ t[k] = s[k]
      BY <1>5, <2>1, <3>1
    <3> QED
      BY <1>4, <3>1, <3>2
  <2>2. CASE j <= Len(s) /\ k > Len(s)
    BY <1>1, <1>5, <1>6, <1>7, <2>2
  <2>3. CASE j > Len(s)
    BY <1>1, <1>5, <1>6, <2>3
  <2> QED
    BY <1>5, <2>1, <2>2, <2>3
<1> QED
  BY <1>5, <1>8, <1>9 DEF Ascending, UpTo, t, d

(* Two consecutive batches are one.                                        *)
LEMMA DocsJoin ==
  ASSUME NEW u \in Users, NEW m \in 0..MaxResult, NEW n \in m..MaxResult
  PROVE  Docs(u, 0, m) \o Docs(u, m, n) = Docs(u, 0, n)
<1>1. MaxResult \in Nat
  BY CursorsAssumption
<1> DEFINE a == Docs(u, 0, m)
           b == Docs(u, m, n)
           c == Docs(u, 0, n)
<1>2. a \in Seq(Positions) /\ Len(a) = m /\ \A k \in 1..m : a[k] = <<u, k>>
  <2>1. 0 \in 0..MaxResult /\ m - 0 = m /\ \A k \in 1..m : 0 + k = k
    BY <1>1
  <2>2. a \in Seq(Positions) /\ Len(a) = m - 0 /\ \A k \in 1..(m - 0) : a[k] = <<u, 0 + k>>
    BY <2>1, DocsShape
  <2> HIDE DEF a
  <2> QED
    BY <2>1, <2>2
<1>3. b \in Seq(Positions) /\ Len(b) = n - m /\ \A k \in 1..(n - m) : b[k] = <<u, m + k>>
  BY DocsShape
<1>4. c \in Seq(Positions) /\ Len(c) = n /\ \A k \in 1..n : c[k] = <<u, k>>
  <2>1. 0 \in 0..MaxResult /\ n \in 0..MaxResult /\ n - 0 = n /\ \A k \in 1..n : 0 + k = k
    BY <1>1
  <2>2. c \in Seq(Positions) /\ Len(c) = n - 0 /\ \A k \in 1..(n - 0) : c[k] = <<u, 0 + k>>
    BY <2>1, DocsShape
  <2> HIDE DEF c
  <2> QED
    BY <2>1, <2>2
<1> HIDE DEF a, b, c
<1>5. a \o b \in Seq(Positions) /\ Len(a \o b) = n
      /\ \A k \in 1..n : (a \o b)[k] = IF k <= m THEN a[k] ELSE b[k - m]
  <2>1. a \o b \in Seq(Positions) /\ Len(a \o b) = Len(a) + Len(b)
        /\ \A k \in 1..(Len(a) + Len(b)) : (a \o b)[k] = IF k <= Len(a) THEN a[k] ELSE b[k - Len(a)]
    BY <1>2, <1>3, ConcatProperties
  <2>2. Len(a) + Len(b) = n
    BY <1>1, <1>2, <1>3
  <2> QED
    BY <1>2, <2>1, <2>2
<1>6. \A k \in 1..n : (a \o b)[k] = c[k]
  <2> SUFFICES ASSUME NEW k \in 1..n PROVE (a \o b)[k] = c[k]
    OBVIOUS
  <2>1. CASE k <= m
    <3>1. k \in 1..m
      BY <1>1, <2>1
    <3>2. (a \o b)[k] = a[k] /\ a[k] = <<u, k>> /\ c[k] = <<u, k>>
      BY <1>2, <1>4, <1>5, <2>1, <3>1
    <3> QED
      BY <3>2
  <2>2. CASE ~(k <= m)
    <3>1. k - m \in 1..(n - m) /\ m + (k - m) = k
      BY <1>1, <2>2
    <3> QED
      BY <1>3, <1>4, <1>5, <2>2, <3>1
  <2> QED
    BY <2>1, <2>2
<1> QED
  BY <1>4, <1>5, <1>6, SeqEqual DEF a, b, c

(* What was received is in order if what was sent is.                      *)
LEMMA PrefixAscends ==
  ASSUME NEW u, NEW s \in Seq(Positions), NEW d \in Seq(Positions), NEW m,
         Ascending(u, s \o d)
  PROVE  Ascending(u, s) /\ (UpTo(s \o d, m) => UpTo(s, m))
<1>1. /\ Len(s) \in Nat /\ DOMAIN s = 1..Len(s)
      /\ \A k \in 1..Len(s) : k \in DOMAIN (s \o d) /\ (s \o d)[k] = s[k]
  OBVIOUS
<1> QED
  BY <1>1 DEF Ascending, UpTo

----------------------------------------------------------------------------
(* Steps that open no cursor                                               *)

(* A step leaves user v alone.                                             *)
Still(v) ==
  /\ upc'[v] = upc[v] /\ held'[v] = held[v] /\ reply'[v] = reply[v]
  /\ want'[v] = want[v] /\ got'[v] = got[v] /\ lost'[v] = lost[v]

(* An entry after a step of the users U is the same cursor, not further    *)
(* back; further on only if the others that know it have lost a reply.     *)
Later(U, i) ==
  /\ i \in DOMAIN cursors
  /\ cursors'[i].owner = cursors[i].owner /\ cursors'[i].total = cursors[i].total
  /\ cursors[i].offset <= cursors'[i].offset /\ cursors'[i].offset <= cursors'[i].total
  /\ \/ cursors'[i].offset = cursors[i].offset
     \/ \A v \in Users \ U : Knows(v, i) => lost[v]

(* The numbers of an entry.                                                *)
LEMMA EntryTypes ==
  ASSUME CursorsTypeOK, NEW i \in DOMAIN cursors
  PROVE  /\ i \in Ids /\ cursors[i].owner \in Users /\ cursors[i].ns \in Collections
         /\ cursors[i].offset \in 0..MaxResult /\ cursors[i].total \in 0..MaxResult
         /\ cursors[i].offset \in Int /\ cursors[i].total \in Int
<1>1. MaxResult \in Nat
  BY CursorsAssumption
<1>2. cursors[i] \in [ns : Collections, owner : Users, total : 0..MaxResult, offset : 0..MaxResult,
                      age : 0..(IdleTimeout + 1), tailing : BOOLEAN] /\ i \in Ids
  BY DEF CursorsTypeOK
<1> QED
  BY <1>1, <1>2

(* The documents of a user.                                                *)
LEMMA UserTypes ==
  ASSUME CursorsTypeOK, NEW u \in Users
  PROVE  /\ got[u] \in Seq(Positions) /\ reply[u].docs \in Seq(Positions)
         /\ All(u) \in Seq(Positions)
         /\ held[u] \in Ids \cup {0} /\ reply[u].id \in Ids \cup {0}
         /\ reply[u] = [id |-> reply[u].id, docs |-> reply[u].docs]
         /\ want[u] \in 0..MaxResult /\ lost[u] \in BOOLEAN /\ asked[u] \in Collections
<1>1. got[u] \in Seq(Positions) /\ reply[u] \in [id : Ids \cup {0}, docs : Seq(Positions)]
      /\ held[u] \in Ids \cup {0} /\ want[u] \in 0..MaxResult /\ lost[u] \in BOOLEAN
      /\ asked[u] \in Collections
  BY DEF CursorsTypeOK
<1>2. reply[u].docs \in Seq(Positions) /\ reply[u].id \in Ids \cup {0}
      /\ reply[u] = [id |-> reply[u].id, docs |-> reply[u].docs]
  BY <1>1
<1> QED
  BY <1>1, <1>2, ConcatProperties DEF All

(* An id is no 0.                                                          *)
LEMMA ZeroIsNoId == 0 \notin Ids
  BY CursorsAssumption

(* A user that a step leaves alone keeps its state of affairs.             *)
LEMMA StillUser ==
  ASSUME NEW u \in Users, UserOK(u), Still(u)
  PROVE  /\ UserOK(u)' /\ All(u)' = All(u)
         /\ \A i \in Ids : Knows(u, i)' <=> Knows(u, i)
<1>1. All(u)' = All(u)
  BY DEF Still, All
<1> QED
  BY <1>1 DEF UserOK, Still, Knows

(* An entry stays what it is to a user that has the same documents after   *)
(* the step, where the step's entries are Later.                           *)
LEMMA EntryKept ==
  ASSUME CursorsInductive, NEW U, NEW u \in Users \ U, NEW i \in Ids,
         Knows(u, i)' => Knows(u, i),
         All(u)' = All(u), want'[u] = want[u], lost'[u] = lost[u],
         i \in DOMAIN cursors' => Later(U, i) /\ cursors'[i].offset \in Int
  PROVE  EntryOK(u, i)'
<1> SUFFICES ASSUME i \in DOMAIN cursors', Knows(u, i)'
             PROVE  /\ cursors'[i].owner = u /\ cursors'[i].total = want'[u]
                    /\ UpTo(All(u), cursors'[i].offset)
                    /\ ~lost[u] => All(u) = Docs(u, 0, cursors'[i].offset)
  BY DEF EntryOK, UpTo
<1>1. CursorsTypeOK /\ EntryOK(u, i) /\ u \in Users
  BY DEF CursorsInductive
<1>2. i \in DOMAIN cursors /\ Knows(u, i)
  BY DEF Later
<1>3. /\ cursors[i].owner = u /\ cursors[i].total = want[u]
      /\ UpTo(All(u), cursors[i].offset)
      /\ ~lost[u] => All(u) = Docs(u, 0, cursors[i].offset)
  BY <1>1, <1>2 DEF EntryOK
<1>4. UpTo(All(u), cursors'[i].offset)
  <2>1. All(u) \in Seq(Positions) /\ cursors[i].offset \in Int
    BY <1>1, <1>2, UserTypes, EntryTypes
  <2>2. \A k \in DOMAIN All(u) : All(u)[k][2] \in Int
    <3>1. \A p \in Positions : p[2] \in 1..MaxResult
      BY DEF Positions
    <3>2. \A k \in DOMAIN All(u) : All(u)[k] \in Positions
      BY <2>1
    <3> QED
      BY <3>1, <3>2
  <2>3. cursors[i].offset <= cursors'[i].offset /\ cursors'[i].offset \in Int
    BY DEF Later
  <2> QED
    BY <1>3, <2>1, <2>2, <2>3 DEF UpTo
<1>5. ~lost[u] => cursors'[i].offset = cursors[i].offset
  BY <1>2 DEF Later
<1> QED
  BY <1>3, <1>4, <1>5 DEF Later

(* A step of the users U, none of which learns a new id.                   *)
LEMMA FrameStep ==
  ASSUME CursorsInductive, CursorsTypeOK', NEW U \in SUBSET Users,
         \A v \in Users \ U : Still(v),
         \A i \in DOMAIN cursors' : Later(U, i),
         \A o \in orphans' : o \in orphans \/ \A v \in Users : Knows(v, o.id)' => lost'[v],
         \A u \in U : UserOK(u)',
         \A u \in U, i \in Ids : EntryOK(u, i)',
         \A u \in U, i \in Ids : Knows(u, i)' => Knows(u, i) /\ (lost[u] => lost'[u])
  PROVE  CursorsInductive'
<1>1. \A u \in Users, i \in Ids : Knows(u, i)' => Knows(u, i) /\ (lost[u] => lost'[u])
  BY DEF Still, Knows
<1>2. \A u \in Users : UserOK(u)'
  BY StillUser DEF CursorsInductive
<1>3. \A u \in Users, i \in Ids : EntryOK(u, i)'
  <2> SUFFICES ASSUME NEW u \in Users \ U, NEW i \in Ids PROVE EntryOK(u, i)'
    OBVIOUS
  <2>1. i \in DOMAIN cursors' => cursors'[i].offset \in Int
    <3> SUFFICES ASSUME i \in DOMAIN cursors' PROVE cursors'[i].offset \in Int
      OBVIOUS
    <3>1. cursors'[i].offset \in 0..MaxResult
      BY DEF CursorsTypeOK
    <3> QED
      BY <3>1
  <2>2. All(u)' = All(u) /\ want'[u] = want[u] /\ lost'[u] = lost[u]
        /\ (Knows(u, i)' => Knows(u, i))
    BY <1>1 DEF Still, All
  <2> QED
    BY <2>1, <2>2, EntryKept
<1>4. \A i \in DOMAIN cursors' : cursors'[i].offset <= cursors'[i].total
  BY DEF Later
<1>5. \A u, v \in Users, i \in Ids : Knows(u, i)' /\ Knows(v, i)' => u = v
  BY <1>1 DEF CursorsInductive
<1>6. \A o \in orphans', u \in Users : Knows(u, o.id)' => lost'[u]
  <2> SUFFICES ASSUME NEW o \in orphans', NEW u \in Users, Knows(u, o.id)', o \in orphans
               PROVE  lost'[u]
    OBVIOUS
  <2>1. o.id \in Ids
    BY DEF CursorsInductive, CursorsTypeOK
  <2> QED
    BY <1>1, <2>1 DEF CursorsInductive
<1> QED
  BY <1>2, <1>3, <1>4, <1>5, <1>6 DEF CursorsInductive

(* The same for a step of one user.                                        *)
LEMMA UserFrameStep ==
  ASSUME CursorsInductive, CursorsTypeOK', NEW u \in Users,
         \A v \in Users \ {u} : Still(v),
         \A i \in DOMAIN cursors' : Later({u}, i),
         \A o \in orphans' : o \in orphans \/ \A v \in Users : Knows(v, o.id)' => lost'[v],
         UserOK(u)', \A i \in Ids : EntryOK(u, i)',
         \A i \in Ids : Knows(u, i)' => Knows(u, i), lost[u] => lost'[u]
  PROVE  CursorsInductive'
<1>1. {u} \in SUBSET Users
  OBVIOUS
<1>2. \A x \in {u} : UserOK(x)'
  OBVIOUS
<1>3. \A x \in {u}, i \in Ids : EntryOK(x, i)'
  OBVIOUS
<1>4. \A x \in {u}, i \in Ids : Knows(x, i)' => Knows(x, i) /\ (lost[x] => lost'[x])
  OBVIOUS
<1> QED
  BY <1>1, <1>2, <1>3, <1>4, FrameStep

RegistryTypes ==
  /\ DOMAIN cursors \subseteq Ids
  /\ \A i \in DOMAIN cursors : cursors[i] \in
       [ns : Collections, owner : Users, total : 0..MaxResult, offset : 0..MaxResult,
        age : 0..(IdleTimeout + 1), tailing : BOOLEAN]
  /\ orphans \subseteq [id : Ids, ns : Collections] /\ running \in BOOLEAN

(* Entries that lose nothing but their age are Later, and those that go    *)
(* are no concern of anybody's.                                            *)
LEMMA FewerAreLater ==
  ASSUME CursorsInductive, NEW U, DOMAIN cursors' \subseteq DOMAIN cursors,
         \A i \in DOMAIN cursors' :
           /\ cursors'[i].owner = cursors[i].owner /\ cursors'[i].total = cursors[i].total
           /\ cursors'[i].offset = cursors[i].offset
  PROVE  \A i \in DOMAIN cursors' : Later(U, i)
<1> SUFFICES ASSUME NEW i \in DOMAIN cursors' PROVE Later(U, i)
  OBVIOUS
<1>1. i \in DOMAIN cursors /\ cursors[i].offset \in Int /\ cursors[i].offset <= cursors[i].total
  BY EntryTypes DEF CursorsInductive
<1> QED
  BY <1>1 DEF Later

(* The query is over for the users U: they have nothing and know nothing.  *)
LEMMA ForgetStep ==
  ASSUME CursorsInductive, NEW U \in SUBSET Users, Forget(U), RegistryTypes',
         \A i \in DOMAIN cursors' : Later(U, i), orphans' \subseteq orphans
  PROVE  CursorsInductive'
<1>1. NoReply \in [id : Ids \cup {0}, docs : Seq(Positions)] /\ NoReply.docs = <<>> /\ NoReply.id = 0
      /\ <<>> \in Seq(Positions)
  BY EmptySeq DEF NoReply
<1>2. CursorsTypeOK /\ MaxResult \in Nat /\ Home \in [Users -> Collections]
  BY CursorsAssumption DEF CursorsInductive
<1>3. CursorsTypeOK'
  <2>1. /\ upc' \in [Users -> {"idle", "open", "more", "tail", "replied", "done", "failed"}]
        /\ held' \in [Users -> Ids \cup {0}] /\ asked' \in [Users -> Collections]
    BY <1>2 DEF CursorsTypeOK, Forget
  <2>2. /\ want' \in [Users -> 0..MaxResult] /\ lost' \in [Users -> BOOLEAN]
    <3>1. want' = [v \in Users |-> IF v \in U THEN 0 ELSE want[v]] /\ want \in [Users -> 0..MaxResult]
      BY <1>2 DEF CursorsTypeOK, Forget
    <3>2. lost' = [v \in Users |-> IF v \in U THEN FALSE ELSE lost[v]] /\ lost \in [Users -> BOOLEAN]
      BY <1>2 DEF CursorsTypeOK, Forget
    <3>3. \A v \in Users : (IF v \in U THEN FALSE ELSE lost[v]) \in BOOLEAN
      BY <3>2, Zenon
    <3>4. lost' \in [Users -> BOOLEAN]
      BY <3>2, <3>3, Zenon
    <3> QED
      BY <1>2, <3>1, <3>4
  <2>3. /\ reply' \in [Users -> [id : Ids \cup {0}, docs : Seq(Positions)]]
        /\ got' \in [Users -> Seq(Positions)]
    BY <1>1, <1>2 DEF CursorsTypeOK, Forget
  <2> QED
    BY <2>1, <2>2, <2>3 DEF CursorsTypeOK, RegistryTypes
<1>4. \A v \in Users \ U : Still(v)
  BY DEF Forget, Still
<1>5. ASSUME NEW u \in U
      PROVE  /\ upc'[u] = "idle" /\ held'[u] = 0 /\ reply'[u] = NoReply /\ want'[u] = 0
             /\ got'[u] = <<>> /\ lost'[u] = FALSE
  BY DEF Forget
<1>6. \A u \in U, i \in Ids : ~Knows(u, i)'
  BY <1>1, <1>5, ZeroIsNoId DEF Knows
<1>7. \A u \in U : UserOK(u)'
  <2> SUFFICES ASSUME NEW u \in U PROVE UserOK(u)'
    OBVIOUS
  <2>1. All(u)' = <<>>
    BY <1>1, <1>5, ConcatEmptySeq DEF All
  <2>2. Ascending(u, All(u))'
    BY <2>1 DEF Ascending
  <2> QED
    BY <1>1, <1>5, <2>2 DEF UserOK
<1>8. \A u \in U, i \in Ids : EntryOK(u, i)'
  BY <1>6 DEF EntryOK
<1>9. \A u \in U, i \in Ids : Knows(u, i)' => Knows(u, i) /\ (lost[u] => lost'[u])
  BY <1>6
<1> QED
  BY <1>3, <1>4, <1>7, <1>8, <1>9, FrameStep

(* Finish and Abandon.                                                     *)
LEMMA LeaveStep ==
  ASSUME CursorsInductive, NEW u \in Users, Finish(u) \/ Abandon(u)
  PROVE  CursorsInductive'
<1>1. Forget({u}) /\ cursors' = cursors /\ orphans' = orphans /\ running' = running
  BY DEF Finish, Abandon, regVars
<1>2. RegistryTypes'
  BY <1>1 DEF RegistryTypes, CursorsInductive, CursorsTypeOK
<1>3. \A i \in DOMAIN cursors' : Later({u}, i)
  BY <1>1, FewerAreLater
<1> QED
  BY <1>1, <1>2, <1>3, ForgetStep

(* kill_all: the registry is empty.                                        *)
LEMMA KillAllStep ==
  ASSUME CursorsInductive, KillAll
  PROVE  CursorsInductive'
<1>1. Forget(WireClients) /\ WireClients \in SUBSET Users /\ DOMAIN cursors' = {}
      /\ orphans' = {} /\ running' = FALSE
  BY DEF KillAll, Users
<1>2. RegistryTypes'
  BY <1>1 DEF RegistryTypes
<1>3. \A i \in DOMAIN cursors' : Later(WireClients, i)
  BY <1>1
<1> QED
  BY <1>1, <1>2, <1>3, ForgetStep

(* Time passes: only ages change.                                          *)
LEMMA TickStep ==
  ASSUME CursorsInductive, Tick
  PROVE  CursorsInductive'
<1>1. CursorsTypeOK /\ IdleTimeout \in Nat
  BY CursorsAssumption DEF CursorsInductive
<1>2. /\ DOMAIN cursors' = DOMAIN cursors
      /\ \A i \in DOMAIN cursors : cursors'[i] = [cursors[i] EXCEPT !.age = Least(@ + 1, IdleTimeout + 1)]
      /\ UNCHANGED <<orphans, running, upc, held, asked, reply, want, got, lost>>
  BY DEF Tick, Aged, userVars
<1>3. \A i \in DOMAIN cursors' :
        /\ cursors'[i] \in [ns : Collections, owner : Users, total : 0..MaxResult, offset : 0..MaxResult,
                             age : 0..(IdleTimeout + 1), tailing : BOOLEAN]
        /\ cursors'[i].owner = cursors[i].owner /\ cursors'[i].total = cursors[i].total
        /\ cursors'[i].offset = cursors[i].offset
  <2> SUFFICES ASSUME NEW i \in DOMAIN cursors
               PROVE  /\ cursors'[i] \in [ns : Collections, owner : Users, total : 0..MaxResult,
                                           offset : 0..MaxResult, age : 0..(IdleTimeout + 1), tailing : BOOLEAN]
                      /\ cursors'[i].owner = cursors[i].owner /\ cursors'[i].total = cursors[i].total
                      /\ cursors'[i].offset = cursors[i].offset
    BY <1>2
  <2>1. cursors[i] \in [ns : Collections, owner : Users, total : 0..MaxResult, offset : 0..MaxResult,
                        age : 0..(IdleTimeout + 1), tailing : BOOLEAN]
    BY <1>1 DEF CursorsTypeOK
  <2>2. Least(cursors[i].age + 1, IdleTimeout + 1) \in 0..(IdleTimeout + 1)
    BY <1>1, <2>1 DEF Least
  <2> QED
    BY <1>2, <2>1, <2>2
<1>4. CursorsTypeOK'
  BY <1>1, <1>2, <1>3 DEF CursorsTypeOK
<1>5. \A i \in DOMAIN cursors' : Later({}, i)
  BY <1>2, <1>3, FewerAreLater
<1>6. \A v \in Users \ {} : Still(v)
  BY <1>2 DEF Still
<1> QED
  BY <1>2, <1>4, <1>5, <1>6, FrameStep

(* cmd_kill_cursors: the entry is gone; somebody else's getMore may still  *)
(* be on its way to it.                                                    *)
LEMMA KillCursorsStep ==
  ASSUME CursorsInductive, NEW u \in Users, KillCursors(u)
  PROVE  CursorsInductive'
<1>1. CursorsTypeOK
  BY DEF CursorsInductive
<1>2. /\ DOMAIN cursors' \subseteq DOMAIN cursors
      /\ \A i \in DOMAIN cursors' : cursors'[i] = cursors[i]
      /\ orphans' = orphans /\ running' = running
  BY DEF KillCursors, Without
<1>3. RegistryTypes'
  BY <1>1, <1>2 DEF RegistryTypes, CursorsTypeOK
<1>4. CASE upc[u] = "open"
  <2>1. Forget({u})
    BY <1>4 DEF KillCursors
  <2>2. \A i \in DOMAIN cursors' : Later({u}, i)
    BY <1>2, FewerAreLater
  <2> QED
    BY <1>2, <1>3, <2>1, <2>2, ForgetStep
<1>5. CASE upc[u] # "open"
  <2>1. UNCHANGED <<upc, held, asked, reply, want, got, lost>>
    BY <1>5 DEF KillCursors, userVars
  <2>2. CursorsTypeOK'
    BY <1>1, <1>3, <2>1 DEF CursorsTypeOK, RegistryTypes
  <2>3. \A i \in DOMAIN cursors' : Later({}, i)
    BY <1>2, FewerAreLater
  <2>4. \A v \in Users \ {} : Still(v)
    BY <2>1 DEF Still
  <2> QED
    BY <1>2, <2>2, <2>3, <2>4, FrameStep
<1> QED
  BY <1>4, <1>5

(* tail_state: touches the cursor if it tails.                             *)
LEMMA GetMoreStep ==
  ASSUME CursorsInductive, NEW u \in Users, NEW ns \in Collections, GetMore(u, ns)
  PROVE  CursorsInductive'
<1>1. CursorsTypeOK /\ UserOK(u) /\ IdleTimeout \in Nat
  BY CursorsAssumption DEF CursorsInductive
<1>2. /\ upc[u] = "open" /\ UNCHANGED <<orphans, running, held, reply, want, got, lost>>
      /\ asked' = [asked EXCEPT ![u] = ns]
      /\ upc' = [upc EXCEPT ![u] = "tail"] \/ upc' = [upc EXCEPT ![u] = "more"]
  BY DEF GetMore
<1>3. /\ DOMAIN cursors' = DOMAIN cursors
      /\ \A i \in DOMAIN cursors' :
           cursors'[i] = cursors[i] \/ cursors'[i] = [cursors[i] EXCEPT !.age = 0]
  BY DEF GetMore, Touched
<1>4. \A i \in DOMAIN cursors' :
        /\ cursors'[i] \in [ns : Collections, owner : Users, total : 0..MaxResult, offset : 0..MaxResult,
                             age : 0..(IdleTimeout + 1), tailing : BOOLEAN]
        /\ cursors'[i].owner = cursors[i].owner /\ cursors'[i].total = cursors[i].total
        /\ cursors'[i].offset = cursors[i].offset
  <2> SUFFICES ASSUME NEW i \in DOMAIN cursors
               PROVE  /\ cursors'[i] \in [ns : Collections, owner : Users, total : 0..MaxResult,
                                           offset : 0..MaxResult, age : 0..(IdleTimeout + 1), tailing : BOOLEAN]
                      /\ cursors'[i].owner = cursors[i].owner /\ cursors'[i].total = cursors[i].total
                      /\ cursors'[i].offset = cursors[i].offset
    BY <1>3
  <2>1. cursors[i] \in [ns : Collections, owner : Users, total : 0..MaxResult, offset : 0..MaxResult,
                        age : 0..(IdleTimeout + 1), tailing : BOOLEAN]
    BY <1>1 DEF CursorsTypeOK
  <2>2. 0 \in 0..(IdleTimeout + 1)
    BY <1>1
  <2> QED
    BY <1>3, <2>1, <2>2
<1>5. \A U : \A i \in DOMAIN cursors' : Later(U, i)
  BY <1>3, <1>4, FewerAreLater
<1>6. CursorsTypeOK'
  <2>1. upc' \in [Users -> {"idle", "open", "more", "tail", "replied", "done", "failed"}]
        /\ asked' \in [Users -> Collections]
    BY <1>1, <1>2 DEF CursorsTypeOK
  <2> QED
    BY <1>1, <1>2, <1>3, <1>4, <2>1 DEF CursorsTypeOK
<1>7. \A v \in Users \ {u} : Still(v)
  BY <1>1, <1>2 DEF Still, CursorsTypeOK
<1>8. upc'[u] \in {"tail", "more"} /\ All(u)' = All(u) /\ \A i \in Ids : Knows(u, i)' <=> Knows(u, i)
  BY <1>1, <1>2 DEF CursorsTypeOK, All, Knows
<1>9. UserOK(u)'
  BY <1>1, <1>2, <1>8 DEF UserOK
<1>10. \A i \in Ids : EntryOK(u, i)'
  <2> SUFFICES ASSUME NEW i \in Ids PROVE EntryOK(u, i)'
    OBVIOUS
  <2>1. i \in DOMAIN cursors' => Later({}, i) /\ cursors'[i].offset \in Int
    BY <1>5, <1>6 DEF CursorsTypeOK
  <2> QED
    BY <1>2, <1>8, <2>1, EntryKept
<1> QED
  BY <1>2, <1>5, <1>6, <1>7, <1>8, <1>9, <1>10, UserFrameStep

(* A reply that ends a tail's getMore, and one that arrives: the user's    *)
(* documents are the same, some of them now its own.                       *)
LEMMA ReplyStep ==
  ASSUME CursorsInductive, NEW u \in Users, TailBatch(u) \/ Receive(u)
  PROVE  CursorsInductive'
<1>1. CursorsTypeOK /\ UserOK(u)
  BY DEF CursorsInductive
<1>2. UNCHANGED <<cursors, orphans, running, asked, want, lost>>
  BY DEF TailBatch, Receive, regVars
<1>3. /\ got[u] \in Seq(Positions) /\ reply[u].docs \in Seq(Positions) /\ All(u) \in Seq(Positions)
      /\ held[u] \in Ids \cup {0} /\ reply[u].id \in Ids \cup {0}
      /\ NoReply.id = 0 /\ NoReply.docs = <<>> /\ <<>> \in Seq(Positions)
  BY <1>1, UserTypes, EmptySeq DEF NoReply
<1>4. \A v \in Users \ {u} : Still(v)
  BY <1>1, <1>2 DEF Still, CursorsTypeOK, TailBatch, Receive, Answer
<1>5. CursorsTypeOK' /\ UserOK(u)' /\ All(u)' = All(u) /\ \A i \in Ids : Knows(u, i)' => Knows(u, i)
  <2>1. CASE TailBatch(u)
    <3>1. upc[u] = "tail" /\ held' = held /\ got' = got /\ reply[u] = NoReply /\ held[u] # 0
      BY <1>1, <2>1 DEF TailBatch, UserOK
    <3>2. All(u) = got[u]
      BY <1>3, <3>1, ConcatEmptySeq DEF All
    <3>3. CASE Answer(u, held[u], <<>>)
      <4>1. reply'[u] = [id |-> held[u], docs |-> <<>>] /\ upc'[u] = "replied"
        BY <1>1, <3>3 DEF Answer, CursorsTypeOK
      <4>2. All(u)' = got[u]
        BY <1>3, <3>1, <4>1, ConcatEmptySeq DEF All
      <4>3. [id |-> held[u], docs |-> <<>>] \in [id : Ids \cup {0}, docs : Seq(Positions)]
        BY <1>3
      <4>4. CursorsTypeOK'
        BY <1>1, <1>2, <3>1, <3>3, <4>3 DEF CursorsTypeOK, Answer
      <4>5. \A i \in Ids : Knows(u, i)' => Knows(u, i)
        BY <3>1, <4>1 DEF Knows
      <4>6. UserOK(u)'
        BY <1>1, <1>2, <3>1, <3>2, <4>1, <4>2 DEF UserOK
      <4> QED
        BY <3>2, <4>2, <4>4, <4>5, <4>6
    <3>4. CASE upc' = [upc EXCEPT ![u] = "failed"] /\ UNCHANGED reply
      <4>1. upc'[u] = "failed"
        BY <1>1, <3>4 DEF CursorsTypeOK
      <4>2. All(u)' = All(u)
        BY <3>1, <3>4 DEF All
      <4>3. CursorsTypeOK'
        BY <1>1, <1>2, <3>1, <3>4 DEF CursorsTypeOK
      <4> QED
        BY <1>1, <1>2, <3>1, <3>4, <4>1, <4>2, <4>3 DEF UserOK, Knows
    <3> QED
      BY <2>1, <3>3, <3>4 DEF TailBatch
  <2>2. CASE Receive(u)
    <3>1. /\ upc[u] = "replied" /\ held'[u] = reply[u].id /\ reply'[u] = NoReply
          /\ got'[u] = got[u] \o reply[u].docs
          /\ upc'[u] = IF reply[u].id = 0 THEN "done" ELSE "open"
      BY <1>1, <2>2 DEF Receive, CursorsTypeOK
    <3>2. All(u)' = All(u)
      BY <1>3, <3>1, ConcatEmptySeq DEF All
    <3>3. got[u] \o reply[u].docs \in Seq(Positions)
          /\ NoReply \in [id : Ids \cup {0}, docs : Seq(Positions)]
      BY <1>3 DEF NoReply, All
    <3>4. CursorsTypeOK'
      <4>1. upc' \in [Users -> {"idle", "open", "more", "tail", "replied", "done", "failed"}]
            /\ held' \in [Users -> Ids \cup {0}]
        BY <1>1, <1>3, <2>2 DEF CursorsTypeOK, Receive
      <4>2. reply' \in [Users -> [id : Ids \cup {0}, docs : Seq(Positions)]]
            /\ got' \in [Users -> Seq(Positions)]
        BY <1>1, <2>2, <3>3 DEF CursorsTypeOK, Receive
      <4> QED
        BY <1>1, <1>2, <4>1, <4>2 DEF CursorsTypeOK
    <3>5. \A i \in Ids : Knows(u, i)' => Knows(u, i)
      BY <1>3, <3>1, ZeroIsNoId DEF Knows
    <3>6. UserOK(u)'
      BY <1>1, <1>2, <1>3, <3>1, <3>2 DEF UserOK
    <3> QED
      BY <3>2, <3>4, <3>5, <3>6
  <2> QED
    BY <2>1, <2>2
<1>6. \A U : \A i \in DOMAIN cursors' : Later(U, i)
  BY <1>2, FewerAreLater
<1>7. \A i \in Ids : EntryOK(u, i)'
  <2> SUFFICES ASSUME NEW i \in Ids PROVE EntryOK(u, i)'
    OBVIOUS
  <2>1. i \in DOMAIN cursors' => Later({}, i) /\ cursors'[i].offset \in Int
    BY <1>5, <1>6 DEF CursorsTypeOK
  <2> QED
    BY <1>2, <1>5, <2>1, EntryKept
<1> QED
  BY <1>2, <1>4, <1>5, <1>6, <1>7, UserFrameStep

(* A connection breaks: what was received is still in order, the loss is   *)
(* on record, and the thread left behind is its user's.                    *)
LEMMA LoseReplyStep ==
  ASSUME CursorsInductive, NEW u \in Users, LoseReply(u)
  PROVE  CursorsInductive'
<1>1. CursorsTypeOK /\ UserOK(u)
  BY DEF CursorsInductive
<1>2. cursors' = cursors /\ running' = running /\ upc[u] \in {"more", "tail", "replied"}
  BY DEF LoseReply
<1>3. \A U : \A i \in DOMAIN cursors' : Later(U, i)
  BY <1>2, FewerAreLater
<1>4. CASE held[u] = 0
  <2>1. Forget({u}) /\ orphans' = orphans
    BY <1>4 DEF LoseReply
  <2>2. RegistryTypes'
    BY <1>1, <1>2, <2>1 DEF RegistryTypes, CursorsTypeOK
  <2> QED
    BY <1>3, <2>1, <2>2, ForgetStep
<1>5. CASE held[u] # 0
  <2>1. /\ upc' = [upc EXCEPT ![u] = "open"] /\ lost' = [lost EXCEPT ![u] = TRUE]
        /\ reply' = [reply EXCEPT ![u] = NoReply]
        /\ orphans' = IF upc[u] = "more" THEN {[id |-> held[u], ns |-> asked[u]]} ELSE orphans
        /\ UNCHANGED <<held, asked, want, got>>
    BY <1>5 DEF LoseReply
  <2>2. /\ got[u] \in Seq(Positions) /\ reply[u].docs \in Seq(Positions)
        /\ held[u] \in Ids /\ asked[u] \in Collections
        /\ NoReply.id = 0 /\ NoReply.docs = <<>> /\ <<>> \in Seq(Positions)
    BY <1>1, <1>5, UserTypes, EmptySeq DEF NoReply
  <2>3. upc'[u] = "open" /\ reply'[u] = NoReply /\ got'[u] = got[u] /\ held'[u] = held[u]
        /\ want'[u] = want[u]
    BY <1>1, <2>1 DEF CursorsTypeOK
  <2>4. lost'[u] = TRUE
    BY <1>1, <2>1 DEF CursorsTypeOK
  <2>5. CursorsTypeOK'
    <3>1. NoReply \in [id : Ids \cup {0}, docs : Seq(Positions)]
      BY <2>2 DEF NoReply
    <3>2. upc' \in [Users -> {"idle", "open", "more", "tail", "replied", "done", "failed"}]
          /\ reply' \in [Users -> [id : Ids \cup {0}, docs : Seq(Positions)]]
      BY <1>1, <2>1, <3>1 DEF CursorsTypeOK
    <3>3. lost' \in [Users -> BOOLEAN]
      BY <1>1, <2>1 DEF CursorsTypeOK
    <3>4. orphans' \subseteq [id : Ids, ns : Collections]
      BY <1>1, <2>1, <2>2 DEF CursorsTypeOK
    <3> QED
      BY <1>1, <1>2, <2>1, <3>2, <3>3, <3>4 DEF CursorsTypeOK
  <2>6. \A v \in Users \ {u} : Still(v)
    BY <1>1, <2>1 DEF Still, CursorsTypeOK
  <2>7. All(u)' = got[u]
    BY <2>2, <2>3, ConcatEmptySeq DEF All
  <2>8. Ascending(u, got[u]) /\ \A m : UpTo(All(u), m) => UpTo(got[u], m)
    BY <1>1, <2>2, PrefixAscends DEF UserOK, All
  <2>9. UserOK(u)'
    <3>1. Ascending(u, All(u))'
      BY <2>7, <2>8 DEF Ascending
    <3> QED
      BY <1>5, <2>2, <2>3, <2>4, <3>1 DEF UserOK
  <2>10. \A i \in Ids : Knows(u, i)' => Knows(u, i)
    BY <2>2, <2>3, ZeroIsNoId DEF Knows
  <2>11. \A i \in Ids : EntryOK(u, i)'
    <3> SUFFICES ASSUME NEW i \in Ids, i \in DOMAIN cursors, Knows(u, i)
                 PROVE  /\ cursors[i].owner = u /\ cursors[i].total = want[u]
                        /\ UpTo(got[u], cursors[i].offset)
      BY <1>2, <2>3, <2>4, <2>7, <2>10 DEF EntryOK, UpTo
    <3>1. EntryOK(u, i)
      BY DEF CursorsInductive
    <3> QED
      BY <2>8, <3>1 DEF EntryOK
  <2>12. \A o \in orphans' : o \in orphans \/ \A v \in Users : Knows(v, o.id)' => lost'[v]
    <3>1. CASE upc[u] = "more"
      <4> SUFFICES ASSUME NEW v \in Users, Knows(v, held[u])' PROVE lost'[v]
        BY <2>1, <3>1
      <4>1. Knows(v, held[u])
        BY <2>2, <2>3, <2>6, <2>10 DEF Still, Knows
      <4>2. Knows(u, held[u])
        BY DEF Knows
      <4>3. v = u
        BY <2>2, <4>1, <4>2 DEF CursorsInductive
      <4> QED
        BY <2>4, <4>3
    <3>2. CASE upc[u] # "more"
      BY <2>1, <3>2
    <3> QED
      BY <3>1, <3>2
  <2> QED
    BY <1>3, <2>4, <2>5, <2>6, <2>9, <2>10, <2>11, <2>12, UserFrameStep
<1> QED
  BY <1>4, <1>5

(* next_batch in the registry: documents from the old offset to the new    *)
(* one leave the entry, and the entry leaves with its last one.            *)
LEMMA TakeBatchEffect ==
  ASSUME CursorsInductive, NEW i \in DOMAIN cursors, NEW b \in Int, TakeBatch(i, b)
  PROVE  LET e == cursors[i]
             next == NextOffset(e, b)
         IN /\ next \in e.offset..e.total
            /\ next \in 0..MaxResult /\ e.offset \in 0..next
            /\ Exhausted(e, next) <=> next = e.total
            /\ Exhausted(e, next) <=> i \notin DOMAIN cursors'
            /\ DOMAIN cursors' \subseteq DOMAIN cursors
            /\ \A j \in DOMAIN cursors' : j # i => cursors'[j] = cursors[j]
            /\ i \in DOMAIN cursors' =>
                 /\ cursors'[i].owner = e.owner /\ cursors'[i].total = e.total
                 /\ cursors'[i].offset = next
            /\ \A j \in DOMAIN cursors' : cursors'[j] \in
                 [ns : Collections, owner : Users, total : 0..MaxResult, offset : 0..MaxResult,
                  age : 0..(IdleTimeout + 1), tailing : BOOLEAN]
<1> DEFINE e == cursors[i]
           next == NextOffset(e, b)
<1>1. MaxResult \in Nat /\ IdleTimeout \in Nat /\ CursorsTypeOK
  BY CursorsAssumption DEF CursorsInductive
<1>2. e.offset \in 0..MaxResult /\ e.total \in 0..MaxResult /\ e.offset <= e.total
  BY <1>1, EntryTypes DEF CursorsInductive
<1>3. e \in [ns : Collections, owner : Users, total : 0..MaxResult, offset : 0..MaxResult,
             age : 0..(IdleTimeout + 1), tailing : BOOLEAN]
  BY <1>1 DEF CursorsTypeOK
<1>4. next \in e.offset..e.total /\ next \in 0..MaxResult /\ e.offset \in 0..next
  <2> HIDE DEF e
  <2> QED
    BY <1>1, <1>2 DEF NextOffset, Least
<1>5. Exhausted(e, next) <=> next = e.total
  <2> HIDE DEF e, next
  <2> QED
    BY <1>1, <1>2, <1>4 DEF Exhausted
<1>6. CASE Exhausted(e, next)
  <2>1. cursors' = Without(cursors, {i})
    BY <1>6 DEF TakeBatch
  <2>2. DOMAIN cursors' = DOMAIN cursors \ {i} /\ \A j \in DOMAIN cursors' : cursors'[j] = cursors[j]
    BY <2>1 DEF Without
  <2> HIDE DEF e, next
  <2> QED
    BY <1>1, <1>4, <1>5, <1>6, <2>2 DEF CursorsTypeOK, e, next
<1>7. CASE ~Exhausted(e, next)
  <2>1. cursors' = [Touched(i) EXCEPT ![i].offset = next]
    BY <1>7 DEF TakeBatch
  <2>2. DOMAIN cursors' = DOMAIN cursors /\ (\A j \in DOMAIN cursors' : j # i => cursors'[j] = cursors[j])
        /\ cursors'[i] = [e EXCEPT !.age = 0, !.offset = next]
    BY <2>1 DEF Touched
  <2>3. 0 \in 0..(IdleTimeout + 1)
    BY <1>1
  <2> HIDE DEF next, e
  <2>4. /\ cursors'[i].owner = e.owner /\ cursors'[i].total = e.total /\ cursors'[i].offset = next
        /\ cursors'[i] \in [ns : Collections, owner : Users, total : 0..MaxResult, offset : 0..MaxResult,
                             age : 0..(IdleTimeout + 1), tailing : BOOLEAN]
    BY <1>3, <1>4, <2>2, <2>3
  <2> QED
    BY <1>1, <1>4, <1>5, <1>7, <2>2, <2>4 DEF CursorsTypeOK, e, next
<1> QED
  BY <1>6, <1>7

(* The thread of a broken connection takes a batch nobody will see: only a *)
(* user that has lost a reply knows that cursor.                           *)
LEMMA OrphanBatchStep ==
  ASSUME CursorsInductive, NEW o \in orphans, NEW b \in Int, OrphanBatch(o, b)
  PROVE  CursorsInductive'
<1>1. CursorsTypeOK
  BY DEF CursorsInductive
<1>2. orphans' \subseteq orphans /\ UNCHANGED <<running, upc, held, asked, reply, want, got, lost>>
  BY DEF OrphanBatch, userVars
<1>3. \A v \in Users \ {} : Still(v)
  BY <1>2 DEF Still
<1>4. CASE Serves(o.id, o.ns)
  <2>1. o.id \in DOMAIN cursors /\ TakeBatch(o.id, b)
    BY <1>4 DEF OrphanBatch, Serves
  <2> DEFINE i == o.id
             next == NextOffset(cursors[i], b)
  <2>2. /\ next \in cursors[i].offset..cursors[i].total
        /\ DOMAIN cursors' \subseteq DOMAIN cursors
        /\ \A j \in DOMAIN cursors' : j # i => cursors'[j] = cursors[j]
        /\ i \in DOMAIN cursors' =>
             /\ cursors'[i].owner = cursors[i].owner /\ cursors'[i].total = cursors[i].total
             /\ cursors'[i].offset = next
        /\ \A j \in DOMAIN cursors' : cursors'[j] \in
             [ns : Collections, owner : Users, total : 0..MaxResult, offset : 0..MaxResult,
              age : 0..(IdleTimeout + 1), tailing : BOOLEAN]
    BY <2>1, TakeBatchEffect
  <2> HIDE DEF next
  <2>3. CursorsTypeOK'
    BY <1>1, <1>2, <2>2 DEF CursorsTypeOK
  <2>4. \A j \in DOMAIN cursors' : Later({}, j)
    <3> SUFFICES ASSUME NEW j \in DOMAIN cursors' PROVE Later({}, j)
      OBVIOUS
    <3>1. j \in DOMAIN cursors /\ cursors[j].offset \in Int /\ cursors[j].total \in Int
          /\ cursors[j].offset <= cursors[j].total
      BY <1>1, <2>2, EntryTypes DEF CursorsInductive
    <3>2. CASE j # i
      BY <2>2, <3>1, <3>2 DEF Later
    <3>3. CASE j = i
      <4>1. \A v \in Users : Knows(v, i) => lost[v]
        BY DEF CursorsInductive
      <4>2. cursors[i].offset <= next /\ next <= cursors[i].total
        BY <2>2, <3>1, <3>3
      <4> QED
        BY <2>2, <3>1, <3>3, <4>1, <4>2 DEF Later
    <3> QED
      BY <3>2, <3>3
  <2> QED
    BY <1>2, <1>3, <2>3, <2>4, FrameStep
<1>5. CASE ~Serves(o.id, o.ns)
  <2>1. cursors' = cursors
    BY <1>5 DEF OrphanBatch
  <2>2. CursorsTypeOK'
    BY <1>1, <1>2, <2>1 DEF CursorsTypeOK
  <2>3. \A j \in DOMAIN cursors' : Later({}, j)
    BY <2>1, FewerAreLater
  <2> QED
    BY <1>2, <1>3, <2>2, <2>3, FrameStep
<1> QED
  BY <1>4, <1>5

(* next_batch for a user: the batch begins where what it was sent ends, so *)
(* that without a loss the documents are a whole prefix of the result, and *)
(* the whole result when the entry goes.                                   *)
LEMMA NextBatchStep ==
  ASSUME CursorsInductive, NEW u \in Users, NEW b \in Int, NextBatch(u, b)
  PROVE  CursorsInductive'
<1>1. CursorsTypeOK /\ UserOK(u) /\ MaxResult \in Nat
  BY CursorsAssumption DEF CursorsInductive
<1>2. upc[u] = "more" /\ UNCHANGED <<orphans, running, held, asked, want, got, lost>>
  BY DEF NextBatch
<1>3. /\ held[u] # 0 /\ reply[u] = NoReply /\ NoReply.id = 0 /\ NoReply.docs = <<>>
      /\ got[u] \in Seq(Positions) /\ held[u] \in Ids \cup {0} /\ want[u] \in 0..MaxResult
  BY <1>1, <1>2, UserTypes DEF UserOK, NoReply
<1>4. All(u) = got[u]
  BY <1>3, ConcatEmptySeq DEF All
<1>5. CASE Serves(held[u], asked[u])
  <2> DEFINE i == held[u]
             e == cursors[i]
             next == NextOffset(e, b)
             docs == Docs(e.owner, e.offset, next)
             id == IF Exhausted(e, next) THEN 0 ELSE i
  <2>1. i \in DOMAIN cursors /\ TakeBatch(i, b) /\ Answer(u, id, docs)
    BY <1>5 DEF NextBatch, Serves
  <2>2. /\ next \in e.offset..e.total
        /\ next \in 0..MaxResult /\ e.offset \in 0..next
        /\ Exhausted(e, next) <=> next = e.total
        /\ Exhausted(e, next) <=> i \notin DOMAIN cursors'
        /\ DOMAIN cursors' \subseteq DOMAIN cursors
        /\ \A j \in DOMAIN cursors' : j # i => cursors'[j] = cursors[j]
        /\ i \in DOMAIN cursors' =>
             /\ cursors'[i].owner = e.owner /\ cursors'[i].total = e.total
             /\ cursors'[i].offset = next
        /\ \A j \in DOMAIN cursors' : cursors'[j] \in
             [ns : Collections, owner : Users, total : 0..MaxResult, offset : 0..MaxResult,
              age : 0..(IdleTimeout + 1), tailing : BOOLEAN]
    BY <2>1, TakeBatchEffect
  <2>3. i \in Ids /\ e.offset \in 0..MaxResult /\ e.total \in 0..MaxResult
    BY <1>1, <2>1, EntryTypes
  <2>4. Knows(u, i)
    BY DEF Knows
  <2>5. /\ e.owner = u /\ e.total = want[u] /\ UpTo(got[u], e.offset)
        /\ ~lost[u] => got[u] = Docs(u, 0, e.offset)
    BY <1>4, <2>1, <2>3, <2>4 DEF CursorsInductive, EntryOK
  <2>6. id \in Ids \cup {0} /\ (id # 0 => id = i) /\ (id = 0 <=> next = e.total)
    BY <1>3, <2>2, <2>3
  <2>7. upc' = [upc EXCEPT ![u] = "replied"] /\ reply' = [reply EXCEPT ![u] = [id |-> id, docs |-> docs]]
    BY <2>1 DEF Answer
  <2> HIDE DEF e, next, id, docs, i
  <2>8. docs = Docs(u, e.offset, next) /\ e.offset \in 0..MaxResult /\ next \in e.offset..MaxResult
    BY <1>1, <2>2, <2>3, <2>5 DEF docs
  <2>9. docs \in Seq(Positions)
    BY <2>8, DocsShape
  <2>10. upc'[u] = "replied" /\ reply'[u] = [id |-> id, docs |-> docs]
    BY <1>1, <2>7 DEF CursorsTypeOK
  <2>11. All(u)' = got[u] \o docs
    BY <1>2, <2>10 DEF All
  <2>12. Ascending(u, got[u])
    BY <1>1, <1>4 DEF UserOK
  <2>13. Ascending(u, got[u] \o docs) /\ UpTo(got[u] \o docs, next)
    BY <1>3, <2>5, <2>8, <2>12, AppendAscends
  <2>14. ~lost[u] => got[u] \o docs = Docs(u, 0, next)
    BY <2>5, <2>8, DocsJoin
  <2>15. CursorsTypeOK'
    <3>1. [id |-> id, docs |-> docs] \in [id : Ids \cup {0}, docs : Seq(Positions)]
      BY <2>6, <2>9
    <3>2. upc' \in [Users -> {"idle", "open", "more", "tail", "replied", "done", "failed"}]
          /\ reply' \in [Users -> [id : Ids \cup {0}, docs : Seq(Positions)]]
      BY <1>1, <2>7, <3>1 DEF CursorsTypeOK
    <3>3. DOMAIN cursors' \subseteq Ids
      BY <1>1, <2>2 DEF CursorsTypeOK
    <3> QED
      BY <1>1, <1>2, <2>2, <3>2, <3>3 DEF CursorsTypeOK
  <2>16. UserOK(u)'
    <3>1. Ascending(u, All(u))'
      BY <2>11, <2>13 DEF Ascending
    <3>2. ~lost'[u] /\ reply'[u].id = 0 => All(u)' = Docs(u, 0, want'[u])
      BY <1>2, <2>5, <2>6, <2>10, <2>11, <2>14
    <3>3. reply'[u].id # 0 => reply'[u].id = held'[u]
      BY <1>2, <2>6, <2>10 DEF i
    <3> QED
      BY <2>10, <3>1, <3>2, <3>3 DEF UserOK
  <2>17. \A j \in Ids : Knows(u, j)' => Knows(u, j)
    BY <1>2, <2>6, <2>10, ZeroIsNoId DEF Knows, i
  <2>18. \A j \in Ids : EntryOK(u, j)'
    <3> SUFFICES ASSUME NEW j \in Ids, j \in DOMAIN cursors', Knows(u, j)'
                 PROVE  /\ cursors'[j].owner = u /\ cursors'[j].total = want'[u]
                        /\ UpTo(All(u)', cursors'[j].offset)
                        /\ ~lost'[u] => All(u)' = Docs(u, 0, cursors'[j].offset)
      BY DEF EntryOK, UpTo
    <3>1. j = i
      BY <1>3, <2>17, ZeroIsNoId DEF Knows, i
    <3> QED
      BY <1>2, <2>2, <2>5, <2>11, <2>13, <2>14, <3>1
  <2>19. \A j \in DOMAIN cursors' : Later({u}, j)
    <3> SUFFICES ASSUME NEW j \in DOMAIN cursors' PROVE Later({u}, j)
      OBVIOUS
    <3>1. j \in DOMAIN cursors /\ cursors[j].offset \in Int /\ cursors[j].total \in Int
          /\ cursors[j].offset <= cursors[j].total
      BY <1>1, <2>2, EntryTypes DEF CursorsInductive
    <3>2. CASE j # i
      BY <2>2, <3>1, <3>2 DEF Later
    <3>3. CASE j = i
      <4>1. \A v \in Users \ {u} : ~Knows(v, i)
        BY <2>3, <2>4 DEF CursorsInductive
      <4>2. e = cursors[j]
        BY <3>3 DEF e
      <4>3. e.offset <= next /\ next <= e.total
        BY <2>2, <3>1, <4>2
      <4> QED
        BY <2>2, <3>1, <3>3, <4>1, <4>2, <4>3 DEF Later
    <3> QED
      BY <3>2, <3>3
  <2>20. \A v \in Users \ {u} : Still(v)
    BY <1>1, <1>2, <2>7 DEF Still, CursorsTypeOK
  <2> QED
    BY <1>2, <2>15, <2>16, <2>17, <2>18, <2>19, <2>20, UserFrameStep
<1>6. CASE ~Serves(held[u], asked[u])
  <2>1. upc' = [upc EXCEPT ![u] = "failed"] /\ cursors' = cursors /\ reply' = reply
    BY <1>6 DEF NextBatch
  <2>2. CursorsTypeOK'
    BY <1>1, <1>2, <2>1 DEF CursorsTypeOK
  <2>3. \A v \in Users \ {u} : Still(v)
    BY <1>1, <1>2, <2>1 DEF Still, CursorsTypeOK
  <2>4. upc'[u] = "failed" /\ All(u)' = All(u) /\ \A i \in Ids : Knows(u, i)' => Knows(u, i)
    BY <1>1, <1>2, <2>1 DEF CursorsTypeOK, All, Knows
  <2>5. UserOK(u)'
    BY <1>1, <1>2, <1>3, <2>1, <2>4 DEF UserOK
  <2>6. \A U : \A i \in DOMAIN cursors' : Later(U, i)
    BY <2>1, FewerAreLater
  <2>7. \A i \in Ids : EntryOK(u, i)'
    <3> SUFFICES ASSUME NEW i \in Ids PROVE EntryOK(u, i)'
      OBVIOUS
    <3>1. i \in DOMAIN cursors' => Later({}, i) /\ cursors'[i].offset \in Int
      BY <2>2, <2>6 DEF CursorsTypeOK
    <3> QED
      BY <1>2, <2>4, <3>1, EntryKept
  <2> QED
    BY <1>2, <2>2, <2>3, <2>4, <2>5, <2>6, <2>7, UserFrameStep
<1> QED
  BY <1>5, <1>6

----------------------------------------------------------------------------
(* Opening                                                                 *)

(* open and open_tail: the new id is one nobody knows, so that the entry   *)
(* is the opener's alone; idle entries go.                                 *)
LEMMA RegisterStep ==
  ASSUME CursorsInductive, NEW u \in Users, NEW n \in 0..MaxResult, NEW taken \in 0..n,
         NEW tail \in BOOLEAN, NEW i \in NewIds, upc[u] = "idle",
         Register(i, u, n, taken, tail), Answer(u, i, Docs(u, 0, taken)),
         want' = [want EXCEPT ![u] = n], UNCHANGED <<orphans, running, held, asked, got, lost>>
  PROVE  CursorsInductive'
<1>1. CursorsTypeOK /\ UserOK(u) /\ MaxResult \in Nat /\ IdleTimeout \in Nat
      /\ Home \in [Users -> Collections]
  BY CursorsAssumption DEF CursorsInductive
<1>2. i \in Ids /\ ~Known(i) /\ i # 0
  BY ZeroIsNoId DEF NewIds
<1>3. \A v \in Users : ~Knows(v, i)
  BY <1>2 DEF Known, Knows
<1> DEFINE entry == [ns |-> Home[u], owner |-> u, total |-> n, offset |-> taken, age |-> 0, tailing |-> tail]
           docs == Docs(u, 0, taken)
<1>4. /\ i \in DOMAIN cursors' /\ cursors'[i] = entry
      /\ \A j \in DOMAIN cursors' : j # i => j \in DOMAIN cursors /\ cursors'[j] = cursors[j]
  BY DEF Register, With, Without
<1>5. taken \in 0..MaxResult /\ docs \in Seq(Positions) /\ Ascending(u, docs) /\ UpTo(docs, taken)
  <2>1. taken \in 0..MaxResult /\ 0 \in 0..MaxResult
    BY <1>1
  <2> QED
    BY <2>1, DocsShape, DocsAscend
<1>6. upc' = [upc EXCEPT ![u] = "replied"] /\ reply' = [reply EXCEPT ![u] = [id |-> i, docs |-> docs]]
  BY DEF Answer
<1> HIDE DEF docs
<1>7. /\ upc'[u] = "replied" /\ reply'[u] = [id |-> i, docs |-> docs] /\ want'[u] = n
      /\ held'[u] = 0 /\ got'[u] = <<>>
  BY <1>1, <1>6 DEF CursorsTypeOK, UserOK
<1>8. All(u)' = docs
  BY <1>5, <1>7, ConcatEmptySeq DEF All
<1>9. \A v \in Users \ {u} : Still(v)
  BY <1>1, <1>6 DEF Still, CursorsTypeOK
<1>10. \A j \in Ids : Knows(u, j)' <=> j = i
  BY <1>7, ZeroIsNoId DEF Knows
<1>11. \A v \in Users \ {u} : UserOK(v)' /\ All(v)' = All(v) /\ \A j \in Ids : Knows(v, j)' <=> Knows(v, j)
  BY <1>9, StillUser DEF CursorsInductive
<1>12. CursorsTypeOK'
  <2>1. [id |-> i, docs |-> docs] \in [id : Ids \cup {0}, docs : Seq(Positions)]
    BY <1>2, <1>5
  <2>2. upc' \in [Users -> {"idle", "open", "more", "tail", "replied", "done", "failed"}]
        /\ reply' \in [Users -> [id : Ids \cup {0}, docs : Seq(Positions)]]
    BY <1>1, <1>6, <2>1 DEF CursorsTypeOK
  <2>3. want' \in [Users -> 0..MaxResult]
    BY <1>1 DEF CursorsTypeOK
  <2>4. entry \in [ns : Collections, owner : Users, total : 0..MaxResult, offset : 0..MaxResult,
                   age : 0..(IdleTimeout + 1), tailing : BOOLEAN]
    BY <1>1, <1>5
  <2> HIDE DEF entry
  <2>5. DOMAIN cursors' \subseteq Ids
    BY <1>1, <1>2, <1>4 DEF CursorsTypeOK
  <2>6. \A j \in DOMAIN cursors' : cursors'[j] \in
          [ns : Collections, owner : Users, total : 0..MaxResult, offset : 0..MaxResult,
           age : 0..(IdleTimeout + 1), tailing : BOOLEAN]
    BY <1>1, <1>4, <2>4 DEF CursorsTypeOK
  <2> QED
    BY <1>1, <2>2, <2>3, <2>5, <2>6 DEF CursorsTypeOK
<1>13. \A j \in DOMAIN cursors' : cursors'[j].offset <= cursors'[j].total
  BY <1>4 DEF CursorsInductive
<1>14. UserOK(u)'
  <2>1. Ascending(u, All(u))'
    BY <1>5, <1>8 DEF Ascending
  <2> QED
    BY <1>2, <1>7, <2>1 DEF UserOK
<1>15. \A v \in Users, j \in Ids : EntryOK(v, j)'
  <2> SUFFICES ASSUME NEW v \in Users, NEW j \in Ids, j \in DOMAIN cursors', Knows(v, j)'
               PROVE  /\ cursors'[j].owner = v /\ cursors'[j].total = want'[v]
                      /\ UpTo(All(v)', cursors'[j].offset)
                      /\ ~lost'[v] => All(v)' = Docs(v, 0, cursors'[j].offset)
    BY DEF EntryOK, UpTo
  <2>1. CASE v = u
    <3>1. j = i
      BY <1>10, <2>1
    <3> QED
      BY <1>4, <1>5, <1>7, <1>8, <2>1, <3>1 DEF docs
  <2>2. CASE v # u
    <3>1. Knows(v, j) /\ j # i
      BY <1>3, <1>11, <2>2
    <3>2. EntryOK(v, j) /\ j \in DOMAIN cursors /\ cursors'[j] = cursors[j]
      BY <1>4, <3>1 DEF CursorsInductive
    <3>3. want'[v] = want[v] /\ lost'[v] = lost[v] /\ All(v)' = All(v)
      BY <1>9, <1>11, <2>2 DEF Still
    <3> QED
      BY <3>1, <3>2, <3>3 DEF EntryOK
  <2> QED
    BY <2>1, <2>2
<1>16. \A v, w \in Users, j \in Ids : Knows(v, j)' /\ Knows(w, j)' => v = w
  BY <1>3, <1>10, <1>11 DEF CursorsInductive
<1>17. \A o \in orphans', v \in Users : Knows(v, o.id)' => lost'[v]
  <2> SUFFICES ASSUME NEW o \in orphans, NEW v \in Users, Knows(v, o.id)' PROVE lost'[v]
    OBVIOUS
  <2>1. o.id \in Ids /\ o.id # i
    BY <1>1, <1>2 DEF CursorsTypeOK, Known
  <2>2. v # u
    BY <1>10, <2>1
  <2>3. Knows(v, o.id) /\ lost'[v] = lost[v]
    BY <1>9, <1>11, <2>1, <2>2 DEF Still
  <2> QED
    BY <2>3 DEF CursorsInductive
<1>18. \A v \in Users : UserOK(v)'
  BY <1>11, <1>14
<1> QED
  BY <1>12, <1>13, <1>15, <1>16, <1>17, <1>18 DEF CursorsInductive

(* cmd_find and cmd_aggregate.                                             *)
LEMMA FindStep ==
  ASSUME CursorsInductive, NEW u \in Users, NEW n \in 0..MaxResult, NEW b \in Int,
         NEW single \in BOOLEAN, Find(u, n, b, single)
  PROVE  CursorsInductive'
<1>1. CursorsTypeOK /\ UserOK(u) /\ MaxResult \in Nat
  BY CursorsAssumption DEF CursorsInductive
<1> DEFINE taken == FirstBatch(n, b)
           docs == Docs(u, 0, taken)
<1>2. taken \in 0..n
  BY <1>1 DEF FirstBatch, Least
<1>3. /\ upc[u] = "idle" /\ UNCHANGED <<orphans, running, held, asked, got, lost>>
      /\ want' = [want EXCEPT ![u] = IF single THEN taken ELSE n]
  BY DEF Find
<1>4. CASE single \/ taken = n
  <2>1. Answer(u, 0, docs) /\ cursors' = cursors
    BY <1>4 DEF Find
  <2> HIDE DEF taken
  <2>2. want' = [want EXCEPT ![u] = taken]
    BY <1>3, <1>4
  <2>3. taken \in 0..MaxResult /\ docs \in Seq(Positions) /\ Ascending(u, docs)
    <3>1. taken \in 0..MaxResult /\ 0 \in 0..MaxResult
      BY <1>1, <1>2
    <3> QED
      BY <3>1, DocsShape, DocsAscend
  <2>4. upc' = [upc EXCEPT ![u] = "replied"] /\ reply' = [reply EXCEPT ![u] = [id |-> 0, docs |-> docs]]
    BY <2>1 DEF Answer
  <2> HIDE DEF docs
  <2>5. /\ upc'[u] = "replied" /\ reply'[u] = [id |-> 0, docs |-> docs] /\ want'[u] = taken
        /\ held'[u] = 0 /\ got'[u] = <<>>
    BY <1>1, <1>3, <2>2, <2>4 DEF CursorsTypeOK, UserOK
  <2>6. All(u)' = docs
    BY <2>3, <2>5, ConcatEmptySeq DEF All
  <2>7. CursorsTypeOK'
    <3>1. [id |-> 0, docs |-> docs] \in [id : Ids \cup {0}, docs : Seq(Positions)]
      BY <2>3
    <3>2. upc' \in [Users -> {"idle", "open", "more", "tail", "replied", "done", "failed"}]
          /\ reply' \in [Users -> [id : Ids \cup {0}, docs : Seq(Positions)]]
      BY <1>1, <2>4, <3>1 DEF CursorsTypeOK
    <3>3. want' \in [Users -> 0..MaxResult]
      BY <1>1, <2>2, <2>3 DEF CursorsTypeOK
    <3> QED
      BY <1>1, <1>3, <2>1, <3>2, <3>3 DEF CursorsTypeOK
  <2>8. \A v \in Users \ {u} : Still(v)
    BY <1>1, <1>3, <2>2, <2>4 DEF Still, CursorsTypeOK
  <2>9. \A i \in Ids : ~Knows(u, i)'
    BY <2>5, ZeroIsNoId DEF Knows
  <2>10. UserOK(u)'
    <3>1. Ascending(u, All(u))'
      BY <2>3, <2>6 DEF Ascending
    <3>2. All(u)' = Docs(u, 0, want'[u])
      BY <2>5, <2>6 DEF docs
    <3> QED
      BY <2>5, <3>1, <3>2 DEF UserOK
  <2>11. \A i \in Ids : EntryOK(u, i)'
    BY <2>9 DEF EntryOK
  <2>12. \A i \in DOMAIN cursors' : Later({u}, i)
    BY <2>1, FewerAreLater
  <2> QED
    BY <1>3, <2>7, <2>8, <2>9, <2>10, <2>11, <2>12, UserFrameStep
<1>5. CASE ~(single \/ taken = n)
  <2> DEFINE i == CHOOSE x \in NewIds : TRUE
  <2>1. NewIds # {} /\ Answer(u, i, docs) /\ Register(i, u, n, taken, FALSE)
    BY <1>5 DEF Find
  <2>2. i \in NewIds
    BY <2>1
  <2>3. want' = [want EXCEPT ![u] = n]
    BY <1>3, <1>5
  <2> HIDE DEF i, taken
  <2> QED
    BY <1>2, <1>3, <2>1, <2>2, <2>3, RegisterStep
<1> QED
  BY <1>4, <1>5

(* find with tailable and aggregate with $changeStream.                    *)
LEMMA FindTailStep ==
  ASSUME CursorsInductive, NEW u \in Users, FindTail(u)
  PROVE  CursorsInductive'
<1>1. CursorsTypeOK /\ UserOK(u) /\ MaxResult \in Nat
  BY CursorsAssumption DEF CursorsInductive
<1> DEFINE i == CHOOSE x \in NewIds : TRUE
<1>2. /\ upc[u] = "idle" /\ NewIds # {} /\ Answer(u, i, <<>>) /\ Register(i, u, 0, 0, TRUE)
      /\ UNCHANGED <<orphans, running, held, asked, got, lost>> /\ want' = want
  BY DEF FindTail
<1>3. i \in NewIds
  BY <1>2
<1>4. want' = [want EXCEPT ![u] = 0]
  BY <1>1, <1>2 DEF UserOK, CursorsTypeOK
<1>5. 0 \in 0..MaxResult /\ 0 \in 0..0 /\ TRUE \in BOOLEAN
  BY <1>1
<1>6. Docs(u, 0, 0) = <<>>
  <2>1. Docs(u, 0, 0) \in Seq(Positions) /\ Len(Docs(u, 0, 0)) = 0 - 0
    BY <1>5, DocsShape
  <2> QED
    BY <2>1, EmptySeq
<1> HIDE DEF i
<1> QED
  BY <1>2, <1>3, <1>4, <1>5, <1>6, RegisterStep

----------------------------------------------------------------------------

(* The registry's inductive invariant.                                     *)
LEMMA CursorsInvariant == CursorsSpec => []CursorsInductive
<1>1. CursorsInit => CursorsInductive
  <2> SUFFICES ASSUME CursorsInit PROVE CursorsInductive
    OBVIOUS
  <2>1. MaxResult \in Nat /\ Home \in [Users -> Collections]
    BY CursorsAssumption
  <2>2. NoReply \in [id : Ids \cup {0}, docs : Seq(Positions)] /\ NoReply.docs = <<>> /\ NoReply.id = 0
        /\ <<>> \in Seq(Positions) /\ DOMAIN cursors = {}
    BY EmptySeq DEF NoReply, CursorsInit
  <2>3. CursorsTypeOK
    BY <2>1, <2>2 DEF CursorsInit, CursorsTypeOK
  <2>4. \A u \in Users : UserOK(u)
    <3> SUFFICES ASSUME NEW u \in Users PROVE UserOK(u)
      OBVIOUS
    <3>1. upc[u] = "idle" /\ held[u] = 0 /\ reply[u] = NoReply /\ got[u] = <<>> /\ want[u] = 0
      BY DEF CursorsInit
    <3>2. All(u) = <<>>
      BY <2>2, <3>1, ConcatEmptySeq DEF All
    <3>3. Ascending(u, All(u))
      BY <3>2 DEF Ascending
    <3> QED
      BY <2>2, <3>1, <3>3 DEF UserOK
  <2>5. \A u \in Users, i \in Ids : ~Knows(u, i)
    BY <2>2, ZeroIsNoId DEF CursorsInit, Knows
  <2> QED
    BY <2>2, <2>3, <2>4, <2>5 DEF CursorsInductive, CursorsInit, EntryOK
<1>2. CursorsInductive /\ [CursorsNext]_cursorVars => CursorsInductive'
  <2> SUFFICES ASSUME CursorsInductive, [CursorsNext]_cursorVars PROVE CursorsInductive'
    OBVIOUS
  <2>0. BatchSizes \subseteq Int /\ DefaultBatchSize \in Int /\ Home \in [Users -> Collections]
    BY CursorsAssumption
  <2>1. ASSUME NEW u \in Users, UserStep(u) PROVE CursorsInductive'
    <3>1. CASE WireStep(u)
      <4>1. CASE \E n \in 0..MaxResult, b \in BatchSizes, single \in BOOLEAN : Find(u, n, b, single)
        BY <2>0, <4>1, FindStep
      <4>2. CASE FindTail(u)
        BY <4>2, FindTailStep
      <4>3. CASE \E ns \in Collections : GetMore(u, ns)
        BY <4>3, GetMoreStep
      <4>4. CASE \E b \in BatchSizes : NextBatch(u, b)
        BY <2>0, <4>4, NextBatchStep
      <4> QED
        BY <3>1, <4>1, <4>2, <4>3, <4>4 DEF WireStep
    <3>2. CASE SqlStep(u)
      <4>1. CASE \E n \in 0..MaxResult : Find(u, n, DefaultBatchSize, FALSE)
        BY <2>0, <4>1, FindStep
      <4>2. CASE FindTail(u)
        BY <4>2, FindTailStep
      <4>3. CASE GetMore(u, Home[u])
        BY <2>0, <4>3, GetMoreStep
      <4>4. CASE NextBatch(u, DefaultBatchSize)
        BY <2>0, <4>4, NextBatchStep
      <4> QED
        BY <3>2, <4>1, <4>2, <4>3, <4>4 DEF SqlStep
    <3>3. CASE TailBatch(u) \/ Receive(u)
      BY <3>3, ReplyStep
    <3>4. CASE Finish(u)
      BY <3>4, LeaveStep
    <3> QED
      BY <2>1, <3>1, <3>2, <3>3, <3>4 DEF UserStep
  <2>2. ASSUME NEW u \in Users, Abandon(u) \/ LoseReply(u) \/ KillCursors(u) PROVE CursorsInductive'
    BY <2>2, LeaveStep, LoseReplyStep, KillCursorsStep
  <2>3. ASSUME NEW o \in orphans, NEW b \in BatchSizes, OrphanBatch(o, b) PROVE CursorsInductive'
    BY <2>0, <2>3, OrphanBatchStep
  <2>4. CASE KillAll \/ Tick
    BY <2>4, KillAllStep, TickStep
  <2>5. CASE UNCHANGED cursorVars
    <3>1. UNCHANGED <<cursors, orphans, running, upc, held, asked, reply, want, got, lost>>
      BY <2>5 DEF cursorVars, regVars, userVars
    <3>2. CursorsTypeOK'
      BY <3>1 DEF CursorsInductive, CursorsTypeOK
    <3>3. \A v \in Users \ {} : Still(v)
      BY <3>1 DEF Still
    <3>4. \A i \in DOMAIN cursors' : Later({}, i)
      BY <3>1, FewerAreLater
    <3> QED
      BY <3>1, <3>2, <3>3, <3>4, FrameStep
  <2> QED
    BY <2>1, <2>2, <2>3, <2>4, <2>5 DEF CursorsNext
<1> QED
  BY <1>1, <1>2, PTL DEF CursorsSpec

(* Whatever expires, is killed, is lost on the wire or is taken by a       *)
(* thread left behind, a query that ends with cursor id 0 without a lost   *)
(* reply has its whole result, and nobody ever sees a document of another  *)
(* query, one twice or one out of order.                                   *)
THEOREM CursorsCorrect == CursorsSpec => []CursorsInv
<1>1. CursorsInductive => CursorsInv
  <2> SUFFICES ASSUME CursorsInductive PROVE CursorsInv
    OBVIOUS
  <2>1. CursorsTypeOK
    BY DEF CursorsInductive
  <2>2. WholeResult
    <3> SUFFICES ASSUME NEW u \in Users, upc[u] = "done", ~lost[u]
                 PROVE  got[u] = Docs(u, 0, want[u])
      BY DEF WholeResult
    <3>1. UserOK(u)
      BY DEF CursorsInductive
    <3>2. reply[u].docs = <<>> /\ All(u) = Docs(u, 0, want[u])
      BY <3>1 DEF UserOK, NoReply
    <3>3. got[u] \in Seq(Positions)
      BY <2>1, UserTypes
    <3> QED
      BY <3>2, <3>3, ConcatEmptySeq DEF All
  <2>3. OwnDocumentsInOrder
    BY DEF OwnDocumentsInOrder, CursorsInductive, UserOK, Ascending, All
  <2> QED
    BY <2>1, <2>2, <2>3 DEF CursorsInv
<1> QED
  BY <1>1, CursorsInvariant, PTL
=============================================================================
