---------------------------- MODULE LearningProofs ----------------------------
(***************************************************************************)
(* What holds of LearningStore in MCPlanning for any number of learnings   *)
(* and processes: no outcome that was acknowledged is lost, a learning in  *)
(* use does not expire, and no learnings supersede each other (the second  *)
(* part, HideInv).  The first two rest on LearnInv: as long as the local   *)
(* file could always be written, it and the shared one count all outcomes, *)
(* and the local one has the latest; so has what a command under way is    *)
(* about to write, as nobody else writes while it has the lock.  The types *)
(* of the learnings, and with them of all parts of MCPlanning, are last.   *)
(***************************************************************************)
EXTENDS LinkProofs

(* What is similar to no other is never superseded. *)
Alike(id) == \E other \in Ids : <<id, other>> \in Similar \/ <<other, id>> \in Similar

Entry ==
  [id : Ids, created : Nat, attach : Nat, success : Nat, last : Nat, expired : BOOLEAN,
   by : Ids \cup {L!None}]

(* What expires is collected at once, as it is at least as old.            *)
EntryOK(l) ==
  /\ l \in Entry
  /\ l.id \in added
  /\ l.created <= l.last /\ l.last <= now
  /\ ~l.expired
  /\ ~Alike(l.id) => l.by = L!None

FileOK(ls) == ls \in Seq(Entry) /\ \A i \in 1 .. Len(ls) : EntryOK(ls[i])

Counted(ls) == \A i \in 1 .. Len(ls) : ls[i].attach >= Len(acked[ls[i].id])

(* An outcome within the expiry shows in ls. *)
Fresh(ls) ==
  \A id \in Ids :
    ~Alike(id) /\ acked[id] # <<>> /\ now - acked[id][Len(acked[id])] <= Expiry =>
      \E i \in 1 .. Len(ls) : ls[i].id = id /\ ls[i].last >= acked[id][Len(acked[id])]

Updating ==
  [pc : {"idle", "local", "shared", "index", "prevent"},
   op : {"none", "add", "outcome", "maintain", "repair"},
   ids : SUBSET Ids, at : Nat, new : Seq(Entry)]

(* A command under way: what it is about to write has all outcomes, and    *)
(* the one it records.                                                     *)
Recording(p) == job[p].op = "outcome"

Writing(p) == job[p].pc \in {"local", "shared"}

JobOK(p) ==
  /\ job[p].pc = "idle" => job[p] = L!Idle
  /\ job[p] # L!Idle <=> lock = p
  /\ job[p].at <= now
  /\ Recording(p) => job[p].ids \subseteq added
  /\ Writing(p) => FileOK(job[p].new)

Noted(p) ==
  Writing(p) =>
  /\ \A i \in 1 .. Len(job[p].new) :
       job[p].new[i].attach >= Len(acked[job[p].new[i].id]) +
         (IF Recording(p) /\ job[p].new[i].id \in job[p].ids THEN 1 ELSE 0)
  /\ Fresh(job[p].new)
  /\ Recording(p) =>
       \A id \in job[p].ids : ~Alike(id) =>
         \E i \in 1 .. Len(job[p].new) : job[p].new[i].id = id /\ job[p].new[i].last >= job[p].at
  /\ job[p].pc = "shared" => local = job[p].new

LearnTypes ==
  /\ FileOK(local) /\ FileOK(shared)
  /\ lock \in Procs \cup {NoProc}
  /\ job \in [Procs -> Updating]
  /\ now \in Nat
  /\ added \subseteq Ids
  /\ acked \in [Ids -> Seq(Nat)]
  /\ \A id \in Ids : acked[id] # <<>> => id \in added
  /\ localFailed \in BOOLEAN

LearnInv ==
  /\ LearnTypes
  /\ \A p \in Procs : JobOK(p)
  /\ ~localFailed => /\ Counted(local) /\ Counted(shared) /\ Fresh(local)
                     /\ \A p \in Procs : Noted(p)

(* No two learnings have the same id.                                      *)
Distinct(ls) == \A i \in 1 .. Len(ls), j \in 1 .. Len(ls) : ls[i].id = ls[j].id => i = j

(* Select keeps what is asked for, and nothing else.                       *)
Selection(s, ls, keep) ==
  /\ \A i \in 1 .. Len(s) : \E j \in 1 .. Len(ls) : j \in keep /\ s[i] = ls[j]
  /\ \A j \in 1 .. Len(ls) : j \in keep => \E i \in 1 .. Len(s) : s[i] = ls[j]

(* The recursion of Select exists, and the selection grows with it.        *)
LEMMA Selected ==
  ASSUME NEW W, NEW ls \in Seq(W), NEW keep
  PROVE  /\ L!Select(ls, keep) \in Seq(W) /\ Selection(L!Select(ls, keep), ls, keep)
         /\ Distinct(ls) => Distinct(L!Select(ls, keep))
<1> DEFINE n == Len(ls)
           Is(f) == f = [m \in 0 .. n |-> IF m = 0 THEN <<>>
                                          ELSE IF m \in keep THEN Append(f[m - 1], ls[m])
                                          ELSE f[m - 1]]
           upTo == CHOOSE f : Is(f)
           step == [k \in 1 .. n |-> [a \in Seq(W) |-> IF k \in keep THEN Append(a, ls[k]) ELSE a]]
<1>1. n \in Nat /\ <<>> \in Seq(W) /\ \A k \in 1 .. n : ls[k] \in W OBVIOUS
<1>2. \A a \in Seq(W), x \in W :
        /\ Append(a, x) \in Seq(W) /\ Len(Append(a, x)) = Len(a) + 1 /\ Len(a) \in Nat
        /\ \A i \in 1 .. Len(a) : Append(a, x)[i] = a[i]
        /\ Append(a, x)[Len(a) + 1] = x
  OBVIOUS
<1>3. step \in [1 .. n -> [Seq(W) -> Seq(W)]] BY <1>1, <1>2
<1>4. PICK h \in [0 .. n -> Seq(W)] :
        h = [k \in 0 .. n |-> IF k = 0 THEN <<>> ELSE step[k][h[k - 1]]]
  <2> DEFINE S == Seq(W)
             empty == <<>>
  <2>1. n \in Nat /\ empty \in S /\ step \in [1 .. n -> [S -> S]] BY <1>1, <1>3
  <2> HIDE DEF step, n, S, empty
  <2>2. PICK h : Iterated(h, n, S, empty, step) BY <2>1, Iterates, Zenon
  <2> QED BY <2>2, Zenon DEF S, empty, Iterated
<1>5. Is(h)
  <2>1. ASSUME NEW k \in 0 .. n
        PROVE  h[k] = IF k = 0 THEN <<>> ELSE IF k \in keep THEN Append(h[k - 1], ls[k])
                                               ELSE h[k - 1]
    <3>1. h[k] = IF k = 0 THEN <<>> ELSE step[k][h[k - 1]] BY <1>4, Zenon
    <3>2. CASE k = 0 BY <3>1, <3>2
    <3>3. CASE k # 0
      <4>1. k \in 1 .. n /\ k - 1 \in 0 .. n BY <1>1, <3>3
      <4>2. h[k - 1] \in Seq(W) BY <4>1
      <4>3. step[k][h[k - 1]] = IF k \in keep THEN Append(h[k - 1], ls[k]) ELSE h[k - 1]
        BY <4>1, <4>2
      <4> HIDE DEF step
      <4> QED BY <3>1, <3>3, <4>3
    <3> QED BY <3>2, <3>3
  <2>2. h = [k \in 0 .. n |-> h[k]] BY Zenon
  <2> HIDE DEF n
  <2> QED BY <2>1, <2>2, Zenon
<1>6. Is(upTo) BY <1>5, Zenon
<1> DEFINE Good(a, k) ==
             /\ \A i \in 1 .. Len(a) : \E j \in 1 .. k : j \in keep /\ a[i] = ls[j]
             /\ \A j \in 1 .. k : j \in keep => \E i \in 1 .. Len(a) : a[i] = ls[j]
             /\ Distinct(ls) => Distinct(a)
           V == [k \in 0 .. n |-> {a \in Seq(W) : Good(a, k)}]
<1>7. upTo[0] \in V[0]
  <2>1. upTo[0] = <<>>
    <3>1. 0 \in 0 .. n BY <1>1
    <3> HIDE DEF n, upTo
    <3>2. upTo[0] = IF 0 = 0 THEN <<>> ELSE IF 0 \in keep THEN Append(upTo[0 - 1], ls[0])
                                            ELSE upTo[0 - 1]
      BY <1>6, <3>1, Zenon
    <3> QED BY <3>2
  <2>2. Good(<<>>, 0) BY DEF Distinct
  <2> HIDE DEF upTo, Good
  <2> QED BY <1>1, <2>1, <2>2
<1>8. ASSUME NEW k \in 1 .. n, upTo[k - 1] \in V[k - 1] PROVE upTo[k] \in V[k]
  <2> DEFINE a == upTo[k - 1]
             b == upTo[k]
  <2>1. k - 1 \in 0 .. n /\ k \in 0 .. n /\ k # 0 /\ k \in Nat BY <1>1
  <2>2. a \in Seq(W) /\ Good(a, k - 1)
    <3> HIDE DEF upTo, Good, n
    <3> QED BY <1>8, <2>1
  <2>3. b = IF k \in keep THEN Append(a, ls[k]) ELSE a
    <3>1. upTo[k] = IF k = 0 THEN <<>> ELSE IF k \in keep THEN Append(upTo[k - 1], ls[k])
                                             ELSE upTo[k - 1]
      BY <1>6, <2>1, Zenon
    <3> QED BY <2>1, <3>1
  <2> HIDE DEF a, b, upTo
  <2>4. \A j \in 1 .. k : j = k \/ j \in 1 .. k - 1 BY <2>1
  <2>5. \A j \in 1 .. k - 1 : j \in 1 .. k BY <2>1
  <2>6. CASE k \in keep
    <3>1. b = Append(a, ls[k]) /\ ls[k] \in W BY <1>1, <2>3, <2>6
    <3>2. /\ b \in Seq(W) /\ Len(b) = Len(a) + 1 /\ Len(a) \in Nat
          /\ \A i \in 1 .. Len(a) : b[i] = a[i]
          /\ b[Len(a) + 1] = ls[k]
      BY <1>2, <2>2, <3>1
    <3>3. ASSUME NEW i \in 1 .. Len(b) PROVE \E j \in 1 .. k : j \in keep /\ b[i] = ls[j]
      <4>1. CASE i = Len(a) + 1
        <5>1. b[i] = ls[k] /\ k \in 1 .. k BY <2>1, <3>2, <4>1
        <5> HIDE DEF Good, V
        <5> QED BY <2>6, <5>1
      <4>2. CASE i \in 1 .. Len(a)
        <5>1. PICK j \in 1 .. k - 1 : j \in keep /\ a[i] = ls[j] BY <2>2, <4>2
        <5>2. b[i] = ls[j] /\ j \in 1 .. k BY <2>5, <3>2, <4>2, <5>1
        <5> QED BY <5>1, <5>2
      <4> QED BY <3>2, <4>1, <4>2
    <3>4. ASSUME NEW j \in 1 .. k, j \in keep PROVE \E i \in 1 .. Len(b) : b[i] = ls[j]
      <4>1. CASE j = k
        <5>1. Len(a) + 1 \in 1 .. Len(b) BY <3>2
        <5> QED BY <3>2, <4>1, <5>1
      <4>2. CASE j \in 1 .. k - 1
        <5>1. PICK i \in 1 .. Len(a) : a[i] = ls[j] BY <2>2, <3>4, <4>2
        <5>2. i \in 1 .. Len(b) BY <3>2
        <5> QED BY <3>2, <5>1, <5>2
      <4> QED BY <2>4, <4>1, <4>2
    <3>5. ASSUME Distinct(ls), NEW i \in 1 .. Len(b), NEW j \in 1 .. Len(b), b[i].id = b[j].id
          PROVE  i = j
      <4>1. \A m \in 1 .. Len(a) : b[m].id # b[Len(a) + 1].id
        <5> TAKE m \in 1 .. Len(a)
        <5>1. PICK q \in 1 .. k - 1 : a[m] = ls[q] BY <2>2
        <5>2. q \in 1 .. n /\ q # k BY <1>1
        <5> QED BY <3>2, <3>5, <5>1, <5>2 DEF Distinct
      <4>2. Distinct(a) BY <2>2, <3>5
      <4>3. \A m \in 1 .. Len(b) : m = Len(a) + 1 \/ m \in 1 .. Len(a) BY <3>2
      <4> QED BY <3>2, <3>5, <4>1, <4>2, <4>3 DEF Distinct
    <3>6. Distinct(ls) => Distinct(b) BY <3>5 DEF Distinct
    <3> QED BY <2>1, <3>2, <3>3, <3>4, <3>6 DEF b
  <2>7. CASE k \notin keep
    <3>1. b = a BY <2>3, <2>7
    <3>2. Good(a, k) BY <2>2, <2>4, <2>5, <2>7
    <3> HIDE DEF Good
    <3> QED BY <2>1, <2>2, <3>1, <3>2 DEF b
  <2> QED BY <2>6, <2>7
<1>9. upTo[n] \in V[n]
  <2> HIDE DEF upTo, V
  <2>1. n \in 0 .. n BY <1>1
  <2> HIDE DEF n
  <2> QED BY <1>1, <1>7, <1>8, <2>1, UpTo
<1>10. L!Select(ls, keep) = upTo[n] BY Zenon DEF L!Select
<1>11. n \in 0 .. n BY <1>1
<1> HIDE DEF upTo
<1> QED BY <1>9, <1>10, <1>11 DEF Selection

(* What has become of the learnings in ls: some may be superseded.         *)
Relabelled(a, ls) ==
  /\ a \in Seq(Entry) /\ Len(a) = Len(ls)
  /\ \A i \in 1 .. Len(ls) :
       /\ a[i].id = ls[i].id /\ a[i].created = ls[i].created /\ a[i].attach = ls[i].attach
       /\ a[i].success = ls[i].success /\ a[i].last = ls[i].last /\ a[i].expired = ls[i].expired
       /\ a[i].by = ls[i].by \/ Alike(ls[i].id)

(* Relabelling nothing, and twice.                                         *)
LEMMA Relabels ==
  /\ \A ls \in Seq(Entry) : Relabelled(ls, ls)
  /\ \A a, b, ls : Relabelled(b, a) /\ Relabelled(a, ls) => Relabelled(b, ls)
<1>1. \A ls \in Seq(Entry) : Relabelled(ls, ls) BY DEF Relabelled
<1>2. ASSUME NEW a, NEW b, NEW ls, Relabelled(b, a), Relabelled(a, ls)
      PROVE  Relabelled(b, ls)
  BY <1>2, Zenon DEF Relabelled
<1> QED BY <1>1, <1>2

(* Only what is similar to something may be superseded.                    *)
LEMMA Superseded ==
  ASSUME NEW ls \in Seq(Entry), NEW k \in 1 .. Len(ls), NEW id \in Ids, Alike(ls[k].id)
  PROVE  Relabelled([ls EXCEPT ![k].by = id], ls)
<1> DEFINE l == ls[k]
           m == [l EXCEPT !.by = id]
           a == [ls EXCEPT ![k] = m]
<1>1. l \in Entry OBVIOUS
<1>2. /\ m \in Entry /\ m.id = l.id /\ m.created = l.created /\ m.attach = l.attach
      /\ m.success = l.success /\ m.last = l.last /\ m.expired = l.expired
  BY <1>1 DEF Entry
<1> HIDE DEF m
<1>3. a \in Seq(Entry) /\ Len(a) = Len(ls) /\ a[k] = m
      /\ \A i \in 1 .. Len(ls) : i # k => a[i] = ls[i]
  BY <1>2
<1> HIDE DEF a
<1>4. Relabelled(a, ls) BY <1>2, <1>3 DEF Relabelled
<1> QED BY <1>4 DEF a, m

(* mergePair, and with it the loops of applyDedup, do no more.             *)
LEMMA PairRelabels ==
  ASSUME NEW ls \in Seq(Entry), NEW i \in 1 .. Len(ls), NEW j \in 1 .. Len(ls)
  PROVE  Relabelled(L!MergePair(ls, i, j), ls)
<1>1. ls[i].id \in Ids /\ ls[j].id \in Ids
  <2>1. ls[i] \in Entry /\ ls[j] \in Entry OBVIOUS
  <2> QED BY <2>1 DEF Entry
<1>2. CASE <<ls[i].id, ls[j].id>> \notin Similar BY <1>2, Relabels DEF L!MergePair
<1>3. CASE <<ls[i].id, ls[j].id>> \in Similar
  <2>1. Alike(ls[i].id) /\ Alike(ls[j].id) BY <1>1, <1>3 DEF Alike
  <2>2. /\ Relabelled([ls EXCEPT ![j].by = ls[i].id], ls)
        /\ Relabelled([ls EXCEPT ![i].by = ls[j].id], ls)
    BY <1>1, <2>1, Superseded
  <2>3. L!MergePair(ls, i, j) \in {[ls EXCEPT ![j].by = ls[i].id], [ls EXCEPT ![i].by = ls[j].id]}
    BY <1>3, Zenon DEF L!MergePair
  <2> QED BY <2>2, <2>3
<1> QED BY <1>2, <1>3

(* What becomes of the learnings while one is compared with those behind   *)
(* it, and while that is done with each.                                   *)
Comparing(u, ls, i) ==
  \A j \in 0 .. Len(ls) :
    /\ Relabelled(u[j], ls)
    /\ u[j] = IF j <= i THEN ls
              ELSE IF L!Active(u[j - 1][j]) THEN L!MergePair(u[j - 1], i, j) ELSE u[j - 1]

Deduping(u, ls) ==
  \A i \in 0 .. Len(ls) :
    /\ Relabelled(u[i], ls)
    /\ u[i] = IF i = 0 THEN ls
              ELSE IF L!Active(u[i - 1][i]) THEN L!Compared(u[i - 1], i) ELSE u[i - 1]

(* Comparing a learning with the later ones changes only who supersedes    *)
(* whom.                                                                   *)
LEMMA ComparedRelabels ==
  ASSUME NEW ls \in Seq(Entry), NEW i \in 1 .. Len(ls)
  PROVE  /\ Relabelled(L!Compared(ls, i), ls)
         /\ \E u : Comparing(u, ls, i) /\ L!Compared(ls, i) = u[Len(ls)]
<1> DEFINE n == Len(ls)
           V == {a \in Seq(Entry) : Relabelled(a, ls)}
           Next1(a, j) == IF L!Active(a[j]) THEN L!MergePair(a, i, j) ELSE a
           Is(f) == f = [j \in 0 .. n |-> IF j <= i THEN ls ELSE LET a == f[j - 1] IN
                                            IF L!Active(a[j]) THEN L!MergePair(a, i, j) ELSE a]
           upTo == CHOOSE f : Is(f)
           step == [j \in 1 .. n |-> [a \in V |-> IF j <= i THEN ls ELSE Next1(a, j)]]
<1>1. n \in Nat /\ ls \in V BY Relabels
<1>2. ASSUME NEW a \in V, NEW j \in 1 .. n PROVE Next1(a, j) \in V
  <2>1. a \in Seq(Entry) /\ Len(a) = n /\ Relabelled(a, ls) BY DEF Relabelled
  <2>2. Relabelled(L!MergePair(a, i, j), a) BY <2>1, PairRelabels
  <2>3. Relabelled(L!MergePair(a, i, j), ls) BY <2>1, <2>2, Relabels
  <2>4. L!MergePair(a, i, j) \in V BY <2>3 DEF Relabelled
  <2> QED BY <2>4
<1> HIDE DEF Next1, V
<1>3. step \in [1 .. n -> [V -> V]] BY <1>1, <1>2
<1>4. PICK h : Iterated(h, n, V, ls, step)
  <2> HIDE DEF step, n
  <2> QED BY <1>1, <1>3, Iterates, Zenon
<1>5. Is(h)
  <2>1. ASSUME NEW j \in 0 .. n
        PROVE  h[j] = IF j <= i THEN ls ELSE Next1(h[j - 1], j)
    <3>1. /\ h[j] = IF j = 0 THEN ls ELSE step[j][h[j - 1]]
          /\ h \in [0 .. n -> V]
      BY <1>4, Zenon DEF Iterated
    <3>2. CASE j = 0
      <4>1. 0 <= i OBVIOUS
      <4> QED BY <3>1, <3>2, <4>1
    <3>3. CASE j # 0
      <4>1. j \in 1 .. n /\ j - 1 \in 0 .. n BY <1>1, <3>3
      <4>2. h[j - 1] \in V BY <3>1, <4>1
      <4>3. step[j][h[j - 1]] = IF j <= i THEN ls ELSE Next1(h[j - 1], j) BY <4>1, <4>2
      <4> HIDE DEF step
      <4> QED BY <3>1, <3>3, <4>3
    <3> QED BY <3>2, <3>3
  <2>2. h = [j \in 0 .. n |-> h[j]] BY <1>4, Zenon DEF Iterated
  <2> HIDE DEF n
  <2>3. h = [j \in 0 .. n |-> IF j <= i THEN ls ELSE Next1(h[j - 1], j)] BY <2>1, <2>2, Zenon
  <2> QED BY <2>3, Zenon DEF Next1
<1>6. Is(upTo) BY <1>5, Zenon
<1>7. \A j \in 0 .. n : upTo[j] = IF j <= i THEN ls ELSE Next1(upTo[j - 1], j)
  BY <1>6, Zenon DEF Next1
<1>8. L!Compared(ls, i) = upTo[n] BY Zenon DEF L!Compared
<1> HIDE DEF upTo
<1>9. \A j \in 0 .. n : upTo[j] \in V
  <2> DEFINE VV == [j \in 0 .. n |-> V]
  <2>1. upTo[0] \in VV[0] /\ 0 \in 0 .. n
    <3>1. 0 \in 0 .. n /\ 0 <= i BY <1>1
    <3> QED BY <1>1, <1>7, <3>1
  <2>2. ASSUME NEW j \in 1 .. n, upTo[j - 1] \in VV[j - 1] PROVE upTo[j] \in VV[j]
    <3>1. j \in 0 .. n /\ j - 1 \in 0 .. n BY <1>1
    <3>2. upTo[j - 1] \in V BY <2>2, <3>1
    <3>3. Next1(upTo[j - 1], j) \in V BY <1>2, <3>2
    <3> QED BY <1>1, <1>7, <3>1, <3>3
  <2> HIDE DEF VV
  <2>3. \A j \in 0 .. n : upTo[j] \in VV[j] BY <1>1, <2>1, <2>2, UpTo
  <2> QED BY <2>3 DEF VV
<1>10. upTo[n] \in V BY <1>1, <1>9
<1>11. Comparing(upTo, ls, i) BY <1>7, <1>9, Zenon DEF Comparing, Next1, V
<1> HIDE DEF n
<1> QED BY <1>8, <1>10, <1>11 DEF V, n

(* So does comparing all of them.                                          *)
LEMMA DedupRelabels ==
  ASSUME NEW ls \in Seq(Entry)
  PROVE  /\ Relabelled(L!Dedup(ls), ls)
         /\ \E u : Deduping(u, ls) /\ L!Dedup(ls) = u[Len(ls)]
<1> DEFINE n == Len(ls)
           V == {a \in Seq(Entry) : Relabelled(a, ls)}
           Next1(a, i) == IF L!Active(a[i]) THEN L!Compared(a, i) ELSE a
           Is(f) == f = [i \in 0 .. n |-> IF i = 0 THEN ls ELSE LET a == f[i - 1] IN
                                            IF L!Active(a[i]) THEN L!Compared(a, i) ELSE a]
           upTo == CHOOSE f : Is(f)
           step == [i \in 1 .. n |-> [a \in V |-> Next1(a, i)]]
<1>1. n \in Nat /\ ls \in V BY Relabels
<1>2. ASSUME NEW a \in V, NEW i \in 1 .. n PROVE Next1(a, i) \in V
  <2>1. a \in Seq(Entry) /\ Len(a) = n /\ Relabelled(a, ls) BY DEF Relabelled
  <2>2. Relabelled(L!Compared(a, i), a) BY <2>1, ComparedRelabels
  <2>3. Relabelled(L!Compared(a, i), ls) BY <2>1, <2>2, Relabels
  <2>4. L!Compared(a, i) \in V BY <2>3 DEF Relabelled
  <2> QED BY <2>4
<1> HIDE DEF Next1, V
<1>3. step \in [1 .. n -> [V -> V]] BY <1>2
<1>4. PICK h : Iterated(h, n, V, ls, step)
  <2> HIDE DEF step, n
  <2> QED BY <1>1, <1>3, Iterates, Zenon
<1>5. Is(h)
  <2>1. ASSUME NEW i \in 0 .. n
        PROVE  h[i] = IF i = 0 THEN ls ELSE Next1(h[i - 1], i)
    <3>1. /\ h[i] = IF i = 0 THEN ls ELSE step[i][h[i - 1]]
          /\ h \in [0 .. n -> V]
      BY <1>4, Zenon DEF Iterated
    <3>2. CASE i = 0 BY <3>1, <3>2
    <3>3. CASE i # 0
      <4>1. i \in 1 .. n /\ i - 1 \in 0 .. n BY <1>1, <3>3
      <4>2. h[i - 1] \in V BY <3>1, <4>1
      <4>3. step[i][h[i - 1]] = Next1(h[i - 1], i) BY <4>1, <4>2
      <4> HIDE DEF step
      <4> QED BY <3>1, <3>3, <4>3
    <3> QED BY <3>2, <3>3
  <2>2. h = [i \in 0 .. n |-> h[i]] BY <1>4, Zenon DEF Iterated
  <2> HIDE DEF n
  <2>3. h = [i \in 0 .. n |-> IF i = 0 THEN ls ELSE Next1(h[i - 1], i)] BY <2>1, <2>2, Zenon
  <2> QED BY <2>3, Zenon DEF Next1
<1>6. Is(upTo) BY <1>5, Zenon
<1>7. \A i \in 0 .. n : upTo[i] = IF i = 0 THEN ls ELSE Next1(upTo[i - 1], i)
  BY <1>6, Zenon DEF Next1
<1>8. L!Dedup(ls) = upTo[n] BY Zenon DEF L!Dedup
<1> HIDE DEF upTo
<1>9. \A i \in 0 .. n : upTo[i] \in V
  <2> DEFINE VV == [i \in 0 .. n |-> V]
  <2>1. upTo[0] \in VV[0] /\ 0 \in 0 .. n BY <1>1, <1>7
  <2>2. ASSUME NEW i \in 1 .. n, upTo[i - 1] \in VV[i - 1] PROVE upTo[i] \in VV[i]
    <3>1. i \in 0 .. n /\ i - 1 \in 0 .. n /\ i # 0 BY <1>1
    <3>2. upTo[i - 1] \in V BY <2>2, <3>1
    <3>3. Next1(upTo[i - 1], i) \in V BY <1>2, <3>2
    <3> QED BY <1>7, <3>1, <3>3
  <2> HIDE DEF VV
  <2>3. \A i \in 0 .. n : upTo[i] \in VV[i] BY <1>1, <2>1, <2>2, UpTo
  <2> QED BY <2>3 DEF VV
<1>10. upTo[n] \in V BY <1>1, <1>9
<1>11. Deduping(upTo, ls) BY <1>7, <1>9, Zenon DEF Deduping, Next1, V
<1> HIDE DEF n
<1> QED BY <1>8, <1>10, <1>11 DEF V, n

(* Whoever collects, collects what is at least as old as what expires, as  *)
(* every caller of Maintain and GarbageCollect does, with 90 days for both. *)
SameAge == Expiry \in Nat /\ MaxAge \in Nat /\ MaxAge <= Expiry /\ NoProc \notin Procs

(* What is known of a learning in a file.                                  *)
LEMMA Entries ==
  ASSUME NEW ls, FileOK(ls), NEW i \in 1 .. Len(ls)
  PROVE  /\ ls[i] \in Entry /\ EntryOK(ls[i])
         /\ ls[i].id \in Ids /\ ls[i].id \in added
         /\ ls[i].attach \in Nat /\ ls[i].created \in Nat /\ ls[i].last \in Nat
         /\ ls[i].created <= ls[i].last /\ ls[i].last <= now /\ ~ls[i].expired
         /\ ~Alike(ls[i].id) => ls[i].by = L!None
<1>1. EntryOK(ls[i]) BY DEF FileOK
<1>2. ls[i] \in Entry BY <1>1 DEF EntryOK
<1>3. ls[i].id \in Ids /\ ls[i].attach \in Nat /\ ls[i].created \in Nat /\ ls[i].last \in Nat
  BY <1>2 DEF Entry
<1> QED BY <1>1, <1>2, <1>3 DEF EntryOK

(* The times at which outcomes of a learning were acknowledged.            *)
LEMMA Ackeds ==
  ASSUME LearnTypes, NEW id \in Ids
  PROVE  /\ acked[id] \in Seq(Nat) /\ Len(acked[id]) \in Nat
         /\ acked[id] # <<>> => acked[id][Len(acked[id])] \in Nat
<1>1. acked[id] \in Seq(Nat) BY DEF LearnTypes
<1>2. Len(acked[id]) \in Nat /\ (acked[id] # <<>> => Len(acked[id]) \in 1 .. Len(acked[id]))
  BY <1>1, EmptySeq
<1> QED BY <1>1, <1>2, ElementOfSeq

(* The view is what is in the local file, and of the shared what is not.   *)
ViewOf(v) ==
  /\ v \in Seq(Entry)
  /\ \A i \in 1 .. Len(v) : \/ \E j \in 1 .. Len(local) : v[i] = local[j]
                            \/ \E j \in 1 .. Len(shared) : v[i] = shared[j]
  /\ \A j \in 1 .. Len(local) : \E i \in 1 .. Len(v) : v[i] = local[j]

(* mergeLearnings takes each learning from one of the two files.           *)
LEMMA ViewParts ==
  ASSUME local \in Seq(Entry), shared \in Seq(Entry)
  PROVE  ViewOf(L!View)
<1> DEFINE keep == {i \in DOMAIN shared : shared[i].id \notin L!IdsIn(local)}
           s == L!Select(shared, keep)
           v == local \o s
<1>1. L!View = v BY DEF L!View, L!Merge
<1>2. s \in Seq(Entry) /\ Selection(s, shared, keep)
  <2> HIDE DEF keep
  <2> QED BY Selected
<1> HIDE DEF keep, s
<1>3. /\ v \in Seq(Entry) /\ Len(v) = Len(local) + Len(s)
      /\ Len(local) \in Nat /\ Len(s) \in Nat
      /\ \A i \in 1 .. Len(local) + Len(s) :
           v[i] = IF i <= Len(local) THEN local[i] ELSE s[i - Len(local)]
  BY <1>2, ConcatProperties
<1> HIDE DEF v
<1>4. \A i \in 1 .. Len(v) : \/ \E j \in 1 .. Len(local) : v[i] = local[j]
                             \/ \E j \in 1 .. Len(shared) : v[i] = shared[j]
  <2> TAKE i \in 1 .. Len(v)
  <2>1. CASE i <= Len(local)
    <3>1. i \in 1 .. Len(local) /\ v[i] = local[i] BY <1>3, <2>1
    <3> QED BY <3>1
  <2>2. CASE ~(i <= Len(local))
    <3>1. i - Len(local) \in 1 .. Len(s) /\ v[i] = s[i - Len(local)] BY <1>3, <2>2
    <3> QED BY <1>2, <3>1 DEF Selection
  <2> QED BY <2>1, <2>2
<1>5. \A j \in 1 .. Len(local) : \E i \in 1 .. Len(v) : v[i] = local[j]
  <2> TAKE j \in 1 .. Len(local)
  <2>1. j \in 1 .. Len(v) /\ v[j] = local[j] BY <1>3
  <2> QED BY <2>1
<1> QED BY <1>1, <1>3, <1>4, <1>5 DEF ViewOf

(* What a command reads: local entries win. *)
LEMMA Viewed ==
  ASSUME LearnTypes
  PROVE  /\ FileOK(L!View) /\ L!IdsIn(L!View) \subseteq added
         /\ Counted(local) /\ Counted(shared) => Counted(L!View)
         /\ Fresh(local) => Fresh(L!View)
<1>1. PICK v : v = L!View OBVIOUS
<1>2. FileOK(local) /\ FileOK(shared) /\ local \in Seq(Entry) /\ shared \in Seq(Entry)
  BY DEF LearnTypes, FileOK
<1>3. ViewOf(v) BY <1>1, <1>2, ViewParts
<1>4. v \in Seq(Entry) BY <1>3 DEF ViewOf
<1>5. \A i \in 1 .. Len(v) : \/ \E j \in 1 .. Len(local) : v[i] = local[j]
                             \/ \E j \in 1 .. Len(shared) : v[i] = shared[j]
  BY <1>3 DEF ViewOf
<1>6. \A j \in 1 .. Len(local) : \E i \in 1 .. Len(v) : v[i] = local[j]
  BY <1>3 DEF ViewOf
<1>7. FileOK(v) BY <1>2, <1>4, <1>5 DEF FileOK
<1>8. L!IdsIn(v) \subseteq added
  <2>1. DOMAIN v = 1 .. Len(v) BY <1>4
  <2> QED BY <1>7, <2>1, Entries DEF L!IdsIn
<1>9. ASSUME Counted(local), Counted(shared) PROVE Counted(v)
  BY <1>5, <1>9 DEF Counted
<1>10. ASSUME Fresh(local) PROVE Fresh(v)
  BY <1>6, <1>10 DEF Fresh
<1> QED BY <1>1, <1>7, <1>8, <1>9, <1>10

(* Maintenance keeps outcomes, and what was used within the expiry.        *)
LEMMA Maintains ==
  ASSUME SameAge, LearnTypes, NEW ls, FileOK(ls)
  PROVE  /\ FileOK(L!Maintained(ls))
         /\ Counted(ls) => Counted(L!Maintained(ls))
         /\ Fresh(ls) => Fresh(L!Maintained(ls))
<1> DEFINE d == L!Dedup(ls)
           old(i) == d[i].by = L!None /\ now - d[i].last > Expiry
           E(i) == [d[i] EXCEPT !.expired = d[i].expired \/ old(i)]
           e == L!Expire(d)
           keep == {i \in DOMAIN e : L!Active(e[i]) \/ now - e[i].created <= MaxAge}
           m == L!Select(e, keep)
<1>1. ls \in Seq(Entry) /\ Relabelled(d, ls) BY DedupRelabels DEF FileOK
<1> HIDE DEF d
<1>2. d \in Seq(Entry) /\ Len(d) = Len(ls) /\ DOMAIN d = 1 .. Len(ls)
  BY <1>1 DEF Relabelled
<1>3. ASSUME NEW i \in 1 .. Len(ls)
      PROVE  /\ E(i) \in Entry /\ E(i).id = ls[i].id /\ E(i).created = ls[i].created
             /\ E(i).attach = ls[i].attach /\ E(i).last = ls[i].last
             /\ E(i).by = ls[i].by \/ Alike(ls[i].id)
             /\ E(i).expired <=> E(i).by = L!None /\ now - E(i).last > Expiry
  <2>1. /\ d[i] \in Entry /\ d[i].id = ls[i].id /\ d[i].created = ls[i].created
        /\ d[i].attach = ls[i].attach /\ d[i].last = ls[i].last
        /\ d[i].by = ls[i].by \/ Alike(ls[i].id)
        /\ d[i].expired = ls[i].expired
    BY <1>1, <1>2 DEF Relabelled
  <2>2. ~d[i].expired BY <2>1, Entries
  <2> HIDE DEF old
  <2>3. E(i) = [d[i] EXCEPT !.expired = old(i)] \/ old(i) \notin BOOLEAN BY <2>1, <2>2 DEF Entry
  <2>4. old(i) \in BOOLEAN BY DEF old
  <2>5. /\ E(i) \in Entry /\ E(i).id = d[i].id /\ E(i).created = d[i].created
        /\ E(i).attach = d[i].attach /\ E(i).last = d[i].last /\ E(i).by = d[i].by
        /\ E(i).expired = old(i)
    BY <2>1, <2>3, <2>4 DEF Entry
  <2> HIDE DEF E
  <2> QED BY <2>1, <2>5 DEF old
<1>4. e = [i \in 1 .. Len(ls) |-> E(i)] BY <1>2 DEF L!Expire
<1> HIDE DEF E
<1>5. /\ e \in Seq(Entry) /\ Len(e) = Len(ls) /\ DOMAIN e = 1 .. Len(ls)
      /\ \A i \in 1 .. Len(ls) : e[i] = E(i)
  <2>1. Len(ls) \in Nat BY <1>1
  <2>2. e = [i \in 1 .. Len(ls) |-> E(i)] /\ \A i \in 1 .. Len(ls) : E(i) \in Entry BY <1>3, <1>4
  <2> HIDE DEF e
  <2> QED BY <2>1, <2>2
<1>6. m = L!Maintained(ls) BY DEF L!Maintained, L!Collect, d
<1>7. m \in Seq(Entry) /\ Selection(m, e, keep)
  <2> HIDE DEF e, keep
  <2> QED BY <1>5, Selected
<1> HIDE DEF e, m
<1>8. ASSUME NEW i \in 1 .. Len(ls), i \in keep
      PROVE  EntryOK(e[i])
  <2>1. e[i] = E(i) BY <1>5
  <2>2. /\ ls[i].id \in added /\ ls[i].created \in Nat /\ ls[i].last \in Nat /\ now \in Nat
        /\ ls[i].created <= ls[i].last /\ ls[i].last <= now
        /\ ~Alike(ls[i].id) => ls[i].by = L!None
    BY Entries DEF LearnTypes
  <2>3. ~e[i].expired
    <3>1. CASE L!Active(e[i]) BY <3>1 DEF L!Active
    <3>2. CASE now - e[i].created <= MaxAge
      <4>1. now - ls[i].created <= MaxAge BY <1>3, <2>1, <3>2
      <4>2. ~(now - ls[i].last > Expiry) BY <2>2, <4>1 DEF SameAge
      <4> QED BY <1>3, <2>1, <4>2
    <3> QED BY <1>8, <3>1, <3>2
  <2> QED BY <1>3, <2>1, <2>2, <2>3 DEF EntryOK
<1>9. \A i \in 1 .. Len(m) : \E j \in 1 .. Len(ls) : j \in keep /\ m[i] = e[j]
  BY <1>5, <1>7 DEF Selection
<1>10. FileOK(m) BY <1>7, <1>8, <1>9 DEF FileOK
<1>11. ASSUME Counted(ls) PROVE Counted(m)
  <2>1. \A j \in 1 .. Len(ls) : e[j].attach >= Len(acked[e[j].id])
    BY <1>3, <1>5, <1>11 DEF Counted
  <2> HIDE DEF keep
  <2> QED BY <1>9, <2>1 DEF Counted
<1>12. ASSUME Fresh(ls) PROVE Fresh(m)
  <2> SUFFICES ASSUME NEW id \in Ids, ~Alike(id), acked[id] # <<>>,
                      now - acked[id][Len(acked[id])] <= Expiry
               PROVE  \E i \in 1 .. Len(m) : m[i].id = id /\ m[i].last >= acked[id][Len(acked[id])]
    BY DEF Fresh
  <2>1. PICK j \in 1 .. Len(ls) : ls[j].id = id /\ ls[j].last >= acked[id][Len(acked[id])]
    BY <1>12 DEF Fresh
  <2>2. acked[id][Len(acked[id])] \in Nat /\ ls[j].last \in Nat /\ now \in Nat
    BY Ackeds, Entries DEF LearnTypes
  <2>3. now - ls[j].last <= Expiry BY <2>1, <2>2 DEF SameAge
  <2>4. e[j].id = id /\ e[j].by = L!None /\ e[j].last = ls[j].last BY <1>3, <1>5, <2>1, Entries
  <2>5. ~(now - ls[j].last > Expiry) BY <2>2, <2>3 DEF SameAge
  <2>6. ~e[j].expired BY <1>3, <1>5, <2>4, <2>5
  <2>7. j \in keep BY <1>5, <2>4, <2>6 DEF L!Active
  <2> HIDE DEF keep
  <2>8. PICK i \in 1 .. Len(m) : m[i] = e[j] BY <1>5, <1>7, <2>7 DEF Selection
  <2> QED BY <2>1, <2>4, <2>8
<1> QED BY <1>6, <1>10, <1>11, <1>12

(* An outcome is added to what is there. *)
Adds(new, ls, ids) ==
  /\ FileOK(new)
  /\ Fresh(ls) => Fresh(new)
  /\ Counted(ls) => \A i \in 1 .. Len(new) :
       new[i].attach >= Len(acked[new[i].id]) + (IF new[i].id \in ids THEN 1 ELSE 0)
  /\ \A id \in ids : \E i \in 1 .. Len(new) : new[i].id = id /\ new[i].last >= now

(* RecordOutcome counts one more for each of ids, at this time.            *)
LEMMA Outcomes ==
  ASSUME LearnTypes, NEW ls, FileOK(ls), NEW ids \in SUBSET L!IdsIn(ls), NEW passed \in BOOLEAN
  PROVE  Adds(L!WithOutcome(ls, ids, passed), ls, ids)
<1> SUFFICES ASSUME NEW new, new = L!WithOutcome(ls, ids, passed) PROVE Adds(new, ls, ids) OBVIOUS
<1> DEFINE E(i) == IF ls[i].id \notin ids THEN ls[i]
                   ELSE [ls[i] EXCEPT !.attach = ls[i].attach + 1,
                           !.success = IF passed THEN ls[i].success + 1 ELSE ls[i].success,
                           !.last = now]
<1>1. ls \in Seq(Entry) /\ DOMAIN ls = 1 .. Len(ls) /\ Len(ls) \in Nat /\ now \in Nat
  BY DEF FileOK, LearnTypes
<1>2. ASSUME NEW i \in 1 .. Len(ls)
      PROVE  /\ EntryOK(E(i)) /\ E(i) \in Entry
             /\ E(i).id = ls[i].id /\ ls[i].id \in Ids /\ E(i).last >= ls[i].last
             /\ ls[i].attach \in Nat
             /\ E(i).attach = ls[i].attach + (IF ls[i].id \in ids THEN 1 ELSE 0)
             /\ ls[i].id \in ids => E(i).last = now
  <2>1. /\ ls[i] \in Entry /\ ls[i].id \in added
        /\ ls[i].attach \in Nat /\ ls[i].created \in Nat /\ ls[i].last \in Nat
        /\ ls[i].created <= ls[i].last /\ ls[i].last <= now /\ ~ls[i].expired
        /\ ~Alike(ls[i].id) => ls[i].by = L!None
        /\ EntryOK(ls[i])
    BY Entries
  <2>2. ls[i].success \in Nat /\ ls[i].id \in Ids BY <2>1 DEF Entry
  <2>3. CASE ls[i].id \notin ids BY <2>1, <2>2, <2>3
  <2>4. CASE ls[i].id \in ids
    <3> DEFINE s == IF passed THEN ls[i].success + 1 ELSE ls[i].success
               e == [ls[i] EXCEPT !.attach = ls[i].attach + 1, !.success = s, !.last = now]
    <3>1. s \in Nat /\ ls[i].attach + 1 \in Nat BY <2>1, <2>2
    <3> HIDE DEF s
    <3>2. /\ e \in Entry /\ e.id = ls[i].id /\ e.created = ls[i].created
          /\ e.attach = ls[i].attach + 1 /\ e.last = now /\ e.expired = ls[i].expired
          /\ e.by = ls[i].by
      BY <1>1, <2>1, <3>1 DEF Entry
    <3>3. E(i) = e BY <2>4 DEF s
    <3> HIDE DEF e, E
    <3>4. e.created <= e.last BY <1>1, <2>1, <3>2
    <3> QED BY <1>1, <2>1, <2>2, <2>4, <3>2, <3>3, <3>4 DEF EntryOK
  <2> QED BY <2>3, <2>4
<1>3. new = [i \in 1 .. Len(ls) |-> E(i)] BY <1>1 DEF L!WithOutcome
<1> HIDE DEF E
<1>4. /\ new \in Seq(Entry) /\ Len(new) = Len(ls)
      /\ \A i \in 1 .. Len(ls) : new[i] = E(i)
  <2>1. \A i \in 1 .. Len(ls) : E(i) \in Entry BY <1>2
  <2> QED BY <1>1, <1>3, <2>1
<1>5. FileOK(new) BY <1>2, <1>4 DEF FileOK
<1>6. ASSUME Fresh(ls) PROVE Fresh(new)
  <2> SUFFICES ASSUME NEW id \in Ids, ~Alike(id), acked[id] # <<>>,
                      now - acked[id][Len(acked[id])] <= Expiry
               PROVE  \E i \in 1 .. Len(new) :
                        new[i].id = id /\ new[i].last >= acked[id][Len(acked[id])]
    BY DEF Fresh
  <2>1. PICK j \in 1 .. Len(ls) : ls[j].id = id /\ ls[j].last >= acked[id][Len(acked[id])]
    BY <1>6 DEF Fresh
  <2>2. acked[id][Len(acked[id])] \in Nat /\ ls[j].last \in Nat BY Ackeds, Entries
  <2>3. new[j].id = id /\ new[j].last >= ls[j].last /\ new[j] \in Entry BY <1>2, <1>4, <2>1
  <2>4. new[j].last \in Nat BY <2>3 DEF Entry
  <2>5. new[j].last >= acked[id][Len(acked[id])] BY <2>1, <2>2, <2>3, <2>4
  <2> QED BY <1>4, <2>3, <2>5
<1>7. ASSUME Counted(ls), NEW i \in 1 .. Len(new)
      PROVE  new[i].attach >= Len(acked[new[i].id]) + (IF new[i].id \in ids THEN 1 ELSE 0)
  <2>1. /\ new[i].id = ls[i].id /\ ls[i].id \in Ids /\ ls[i].attach \in Nat
        /\ new[i].attach = ls[i].attach + (IF ls[i].id \in ids THEN 1 ELSE 0)
    BY <1>2, <1>4
  <2>2. Len(acked[ls[i].id]) \in Nat BY <2>1, Ackeds
  <2>3. ls[i].attach >= Len(acked[ls[i].id]) BY <1>4, <1>7 DEF Counted
  <2>4. CASE ls[i].id \in ids BY <2>1, <2>2, <2>3, <2>4
  <2>5. CASE ls[i].id \notin ids BY <2>1, <2>2, <2>3, <2>5
  <2> QED BY <2>4, <2>5
<1>8. ASSUME NEW id \in ids PROVE \E i \in 1 .. Len(new) : new[i].id = id /\ new[i].last >= now
  <2>1. PICK i \in 1 .. Len(ls) : ls[i].id = id BY <1>1 DEF L!IdsIn
  <2>2. new[i].id = id /\ new[i].last = now BY <1>2, <1>4, <2>1
  <2> QED BY <1>1, <1>4, <2>2
<1> QED BY <1>5, <1>6, <1>7, <1>8 DEF Adds

(* The view with a learning that was not there. *)
LEMMA Appends ==
  ASSUME LearnTypes, NEW ls, FileOK(ls), NEW id \in Ids, id \notin added,
         added' = added \cup {id}, UNCHANGED <<now, acked>>
  PROVE  \A new : new = Append(ls, L!New(id)) =>
           /\ FileOK(new)'
           /\ Fresh(ls) => Fresh(new)
           /\ Counted(ls) => Counted(new)
<1> SUFFICES ASSUME NEW new, new = Append(ls, L!New(id))
             PROVE  FileOK(new)' /\ (Fresh(ls) => Fresh(new)) /\ (Counted(ls) => Counted(new))
  OBVIOUS
<1>1. ls \in Seq(Entry) /\ now \in Nat BY DEF FileOK, LearnTypes
<1>2. PICK e \in Entry : /\ e = L!New(id) /\ e.id = id /\ e.created = now /\ e.last = now
                         /\ e.attach = 0 /\ ~e.expired /\ e.by = L!None
  <2> DEFINE e == L!New(id)
  <2>1. /\ e \in Entry /\ e.id = id /\ e.created = now /\ e.last = now
        /\ e.attach = 0 /\ ~e.expired /\ e.by = L!None
    BY <1>1 DEF L!New, Entry
  <2> HIDE DEF e
  <2>2. e = L!New(id) BY DEF e
  <2> QED BY <2>1, <2>2
<1>3. /\ new \in Seq(Entry) /\ Len(new) = Len(ls) + 1 /\ Len(ls) \in Nat
      /\ \A i \in 1 .. Len(ls) : new[i] = ls[i]
      /\ new[Len(ls) + 1] = e
  BY <1>1, <1>2
<1>4. \A i \in 1 .. Len(new) : i = Len(ls) + 1 \/ i \in 1 .. Len(ls) BY <1>3
<1>6. EntryOK(e)' BY <1>1, <1>2 DEF EntryOK
<1>7. \A i \in 1 .. Len(ls) : EntryOK(ls[i])' BY DEF FileOK, EntryOK
<1>8. FileOK(new)'
  <2>1. \A i \in 1 .. Len(new) : EntryOK(new[i])' BY <1>3, <1>4, <1>6, <1>7
  <2> QED BY <1>3, <2>1 DEF FileOK
<1>9. ASSUME Fresh(ls) PROVE Fresh(new)
  <2>1. \A j \in 1 .. Len(ls) : j \in 1 .. Len(new) BY <1>3
  <2> QED BY <1>3, <1>9, <2>1 DEF Fresh
<1>10. ASSUME Counted(ls) PROVE Counted(new)
  <2>1. acked[id] = <<>> BY DEF LearnTypes
  <2>2. e.attach >= Len(acked[e.id]) BY <1>2, <2>1
  <2> QED BY <1>3, <1>4, <1>10, <2>2 DEF Counted
<1> QED BY <1>8, <1>9, <1>10

(* Time and new learnings. *)
LEMMA FilesAge ==
  ASSUME LearnTypes, added \subseteq added', now' \in Nat, now <= now'
  PROVE  \A ls : FileOK(ls) => FileOK(ls)'
<1> SUFFICES ASSUME NEW ls, FileOK(ls) PROVE FileOK(ls)' OBVIOUS
<1>1. ASSUME NEW i \in 1 .. Len(ls) PROVE EntryOK(ls[i])'
  <2>1. /\ ls[i] \in Entry /\ ls[i].id \in added /\ ls[i].last \in Nat /\ now \in Nat
        /\ ls[i].created <= ls[i].last /\ ls[i].last <= now /\ ~ls[i].expired
        /\ ~Alike(ls[i].id) => ls[i].by = L!None
    BY Entries DEF LearnTypes
  <2> QED BY <2>1 DEF EntryOK
<1> QED BY <1>1 DEF FileOK

(* What is fresh stays so: later, no more is within the expiry.            *)
LEMMA FreshAges ==
  ASSUME LearnTypes, SameAge, UNCHANGED acked, now' \in Nat, now <= now'
  PROVE  \A ls : Fresh(ls) => Fresh(ls)'
<1> SUFFICES ASSUME NEW ls, Fresh(ls), NEW id \in Ids, ~Alike(id), acked[id] # <<>>,
                    now' - acked[id][Len(acked[id])] <= Expiry
             PROVE  \E i \in 1 .. Len(ls) : ls[i].id = id /\ ls[i].last >= acked[id][Len(acked[id])]
  BY DEF Fresh
<1>1. acked[id][Len(acked[id])] \in Nat /\ now \in Nat BY Ackeds DEF LearnTypes
<1>2. now - acked[id][Len(acked[id])] <= Expiry BY <1>1 DEF SameAge
<1> QED BY <1>2 DEF Fresh

(* The others have no lock, and are idle. *)
LEMMA OthersIdle ==
  ASSUME LearnInv, NEW p \in Procs, lock = p \/ lock = NoProc, SameAge
  PROVE  \A q \in Procs \ {p} : job[q] = L!Idle
BY DEF LearnInv, JobOK, SameAge

(* A step of p, who has the lock or takes it, leaves the others idle.      *)
LEMMA LearnStep ==
  ASSUME SameAge, LearnInv, NEW p \in Procs, lock = p \/ lock = NoProc, LearnTypes',
         \A q \in Procs \ {p} : job'[q] = job[q] /\ lock' # q,
         JobOK(p)',
         ~localFailed' => Counted(local)' /\ Counted(shared)' /\ Fresh(local)' /\ Noted(p)'
  PROVE  LearnInv'
<1>1. ASSUME NEW q \in Procs \ {p} PROVE JobOK(q)' /\ Noted(q)'
  <2>1. job'[q] = L!Idle /\ lock' # q BY OthersIdle
  <2>2. L!Idle.pc = "idle" /\ L!Idle.op = "none" /\ L!Idle.at = 0 BY DEF L!Idle
  <2>3. 0 <= now' BY DEF LearnTypes
  <2>4. JobOK(q)' BY <2>1, <2>2, <2>3 DEF JobOK, Recording, Writing
  <2>5. Noted(q)' BY <2>1, <2>2 DEF Noted, Writing
  <2> QED BY <2>4, <2>5
<1> QED BY <1>1 DEF LearnInv

(* A command decides what it will write. *)
LEMMA BeginsInv ==
  ASSUME SameAge, LearnInv, NEW p \in Procs, NEW op \in {"add", "outcome", "maintain", "repair"},
         NEW ids \in SUBSET Ids, NEW new, L!Begin(p, op, ids, new),
         added \subseteq added', added' \subseteq Ids, FileOK(new)', op = "outcome" => ids \subseteq added,
         Counted(local) /\ Counted(shared) /\ Fresh(local) =>
           /\ \A i \in 1 .. Len(new) :
                new[i].attach >= Len(acked[new[i].id]) +
                  (IF op = "outcome" /\ new[i].id \in ids THEN 1 ELSE 0)
           /\ Fresh(new)
           /\ op = "outcome" =>
                \A id \in ids : \E i \in 1 .. Len(new) : new[i].id = id /\ new[i].last >= now
  PROVE  LearnInv'
<1> DEFINE j == [pc |-> "local", op |-> op, ids |-> ids, at |-> now, new |-> new]
<1>1. /\ LearnTypes /\ lock = NoProc /\ lock' = p /\ job' = [job EXCEPT ![p] = j]
      /\ UNCHANGED <<local, shared, now, acked, localFailed>> /\ now \in Nat
  BY DEF LearnInv, LearnTypes, L!Begin
<1>2. /\ j \in Updating /\ j.pc = "local" /\ j.op = op /\ j.ids = ids /\ j.at = now /\ j.new = new
      /\ j # L!Idle
  BY <1>1 DEF Updating, FileOK, L!Idle
<1> HIDE DEF j
<1>3. job' \in [Procs -> Updating] /\ job'[p] = j /\ \A q \in Procs \ {p} : job'[q] = job[q]
  BY <1>1, <1>2 DEF LearnTypes
<1>4. now <= now' /\ now' \in Nat BY <1>1
<1>5. LearnTypes'
  <2>1. FileOK(local)' /\ FileOK(shared)' BY <1>1, <1>4, FilesAge DEF LearnTypes
  <2>2. \A id \in Ids : acked'[id] # <<>> => id \in added' BY <1>1 DEF LearnTypes
  <2> QED BY <1>1, <1>3, <2>1, <2>2 DEF LearnTypes
<1>6. JobOK(p)' BY <1>1, <1>2, <1>3, <1>4 DEF JobOK, Recording, Writing
<1>7. ~localFailed' => Counted(local)' /\ Counted(shared)' /\ Fresh(local)' /\ Noted(p)'
  <2> SUFFICES ASSUME ~localFailed PROVE Counted(local)' /\ Counted(shared)' /\ Fresh(local)' /\ Noted(p)'
    BY <1>1
  <2>1. Counted(local) /\ Counted(shared) /\ Fresh(local) BY DEF LearnInv
  <2>2. Counted(local)' /\ Counted(shared)' /\ Fresh(local)' BY <1>1, <2>1 DEF Counted, Fresh
  <2>3. Fresh(new)' BY <1>1, <2>1 DEF Fresh
  <2>4. /\ job'[p].new = new /\ job'[p].ids = ids /\ job'[p].at = now /\ job'[p].pc = "local"
        /\ Recording(p)' <=> op = "outcome"
    BY <1>2, <1>3 DEF Recording
  <2>5. \A i \in 1 .. Len(new) :
          new[i].attach >= Len(acked'[new[i].id]) +
            (IF Recording(p)' /\ new[i].id \in ids THEN 1 ELSE 0)
    <3>1. \A i \in 1 .. Len(new) : new[i].attach >= Len(acked[new[i].id]) +
            (IF op = "outcome" /\ new[i].id \in ids THEN 1 ELSE 0)
      BY <2>1
    <3>2. acked' = acked BY <1>1
    <3> QED BY <2>4, <3>1, <3>2, Zenon
  <2>6. Recording(p)' => \A id \in ids : \E i \in 1 .. Len(new) : new[i].id = id /\ new[i].last >= now
    BY <2>1, <2>4
  <2>7. Fresh(job[p].new)' BY <2>3, <2>4 DEF Fresh
  <2>8. Noted(p)'
    <3>1. \A i \in 1 .. Len(job'[p].new) :
            job'[p].new[i].attach >= Len(acked'[job'[p].new[i].id]) +
              (IF Recording(p)' /\ job'[p].new[i].id \in job'[p].ids THEN 1 ELSE 0)
      BY <2>4, <2>5, Zenon
    <3>2. Recording(p)' => \A id \in job'[p].ids : \E i \in 1 .. Len(job'[p].new) :
                              job'[p].new[i].id = id /\ job'[p].new[i].last >= job'[p].at
      BY <2>4, <2>6
    <3>3. job'[p].pc # "shared" BY <2>4
    <3> QED BY <2>7, <3>1, <3>2, <3>3, Zenon DEF Noted
  <2> QED BY <2>2, <2>8
<1>8. \A q \in Procs \ {p} : job'[q] = job[q] /\ lock' # q BY <1>1, <1>3
<1> QED BY <1>1, <1>5, <1>6, <1>7, <1>8, LearnStep

(* Each command that begins, with what it read.                            *)
LEMMA BeginInv ==
  ASSUME SameAge, LearnInv, NEW p \in Procs,
         \/ L!Add(p) \/ L!Maintain(p) \/ L!Repair(p)
         \/ \E ids \in SUBSET L!IdsIn(L!View), passed \in BOOLEAN : L!RecordOutcome(p, ids, passed)
  PROVE  LearnInv'
<1>1. LearnTypes BY DEF LearnInv
<1>2. /\ FileOK(L!View) /\ L!IdsIn(L!View) \subseteq added
      /\ Counted(local) /\ Counted(shared) => Counted(L!View)
      /\ Fresh(local) => Fresh(L!View)
  BY <1>1, Viewed
<1>3. added \subseteq Ids /\ now \in Nat BY <1>1 DEF LearnTypes
<1>4. CASE L!Add(p)
  <2>1. PICK id \in Ids \ added : /\ added' = added \cup {id}
                                  /\ L!Begin(p, "add", {id}, Append(L!View, L!New(id)))
    BY <1>4 DEF L!Add
  <2>2. UNCHANGED <<now, acked>> BY <2>1 DEF L!Begin
  <2>3. PICK new : new = Append(L!View, L!New(id)) OBVIOUS
  <2>4. PICK v : v = L!View OBVIOUS
  <2>5. FileOK(new)' /\ (Fresh(v) => Fresh(new)) /\ (Counted(v) => Counted(new))
    BY <1>1, <1>2, <2>1, <2>2, <2>3, <2>4, Appends
  <2>6. Counted(new) => \A i \in 1 .. Len(new) : new[i].attach >= Len(acked[new[i].id]) + 0
    <3>1. ASSUME Counted(new), NEW i \in 1 .. Len(new)
          PROVE  new[i].attach >= Len(acked[new[i].id]) + 0
      <4>1. FileOK(new)' /\ acked' = acked BY <2>2, <2>5
      <4>2. new[i] \in Entry BY <4>1 DEF FileOK
      <4>3. new[i].id \in Ids BY <4>2 DEF Entry
      <4>4. Len(acked[new[i].id]) \in Nat BY <1>1, <4>3, Ackeds
      <4>5. Len(acked[new[i].id]) + 0 = Len(acked[new[i].id]) BY <4>4
      <4> QED BY <3>1, <4>5 DEF Counted
    <3> QED BY <3>1
  <2>7. "add" # "outcome" OBVIOUS
  <2>8. L!Begin(p, "add", {id}, new) /\ {id} \in SUBSET Ids BY <2>1, <2>3
  <2>9. Counted(local) /\ Counted(shared) /\ Fresh(local) =>
          /\ \A i \in 1 .. Len(new) : new[i].attach >= Len(acked[new[i].id]) +
                  (IF "add" = "outcome" /\ new[i].id \in {id} THEN 1 ELSE 0)
          /\ Fresh(new)
    BY <1>2, <2>4, <2>5, <2>6, <2>7
  <2> QED BY <1>3, <2>1, <2>5, <2>7, <2>8, <2>9, BeginsInv
<1>5. ASSUME NEW op \in {"maintain", "repair"}, NEW new, L!Begin(p, op, {}, new), added' = added,
             FileOK(new), Counted(L!View) => Counted(new), Fresh(L!View) => Fresh(new)
      PROVE  LearnInv'
  <2>1. FileOK(new)' BY <1>3, <1>5 DEF FileOK, EntryOK, L!Begin
  <2>2. ASSUME Counted(new), NEW i \in 1 .. Len(new)
        PROVE  new[i].attach >= Len(acked[new[i].id]) +
                 (IF op = "outcome" /\ new[i].id \in {} THEN 1 ELSE 0)
    <3>1. new[i].id \in Ids BY <1>5, Entries
    <3>2. Len(acked[new[i].id]) \in Nat BY <1>1, <3>1, Ackeds
    <3>3. Len(acked[new[i].id]) + 0 = Len(acked[new[i].id]) BY <3>2
    <3> QED BY <2>2, <3>3 DEF Counted
  <2>3. {} \in SUBSET Ids /\ op # "outcome" OBVIOUS
  <2>4. Counted(local) /\ Counted(shared) /\ Fresh(local) =>
          /\ \A i \in 1 .. Len(new) : new[i].attach >= Len(acked[new[i].id]) +
                  (IF op = "outcome" /\ new[i].id \in {} THEN 1 ELSE 0)
          /\ Fresh(new)
    BY <1>2, <1>5, <2>2
  <2> QED BY <1>3, <1>5, <2>1, <2>3, <2>4, BeginsInv
<1>6. CASE L!Maintain(p)
  <2>1. PICK new : new = L!Maintained(L!View) OBVIOUS
  <2>2. PICK v : v = L!View OBVIOUS
  <2>3. FileOK(new) /\ (Counted(v) => Counted(new)) /\ (Fresh(v) => Fresh(new))
    BY <1>1, <1>2, <2>1, <2>2, Maintains
  <2>4. L!Begin(p, "maintain", {}, new) /\ added' = added BY <1>6, <2>1 DEF L!Maintain
  <2> QED BY <1>5, <2>2, <2>3, <2>4
<1>7. CASE L!Repair(p)
  <2>1. PICK new : new = L!View OBVIOUS
  <2>2. L!Begin(p, "repair", {}, new) /\ added' = added BY <1>7, <2>1 DEF L!Repair
  <2> QED BY <1>2, <1>5, <2>1, <2>2
<1>8. ASSUME NEW ids \in SUBSET L!IdsIn(L!View), NEW passed \in BOOLEAN, L!RecordOutcome(p, ids, passed)
      PROVE  LearnInv'
  <2>1. PICK v : v = L!View OBVIOUS
  <2>2. PICK new : new = L!WithOutcome(v, ids, passed) OBVIOUS
  <2>3. /\ FileOK(new) /\ (Fresh(v) => Fresh(new))
        /\ Counted(v) => \A i \in 1 .. Len(new) :
             new[i].attach >= Len(acked[new[i].id]) + (IF new[i].id \in ids THEN 1 ELSE 0)
        /\ \A id \in ids : \E i \in 1 .. Len(new) : new[i].id = id /\ new[i].last >= now
    <3>1. FileOK(v) /\ ids \in SUBSET L!IdsIn(v) BY <1>2, <2>1
    <3>2. Adds(new, v, ids) BY <1>1, <2>2, <3>1, Outcomes
    <3> QED BY <3>2 DEF Adds
  <2>4. L!Begin(p, "outcome", ids, new) /\ added' = added
    BY <1>8, <2>1, <2>2 DEF L!RecordOutcome
  <2>5. FileOK(new)' BY <2>3, <2>4 DEF FileOK, EntryOK, L!Begin
  <2>6. ids \in SUBSET Ids /\ ids \subseteq added BY <1>2, <1>3
  <2>7. Counted(local) /\ Counted(shared) /\ Fresh(local) =>
          /\ \A i \in 1 .. Len(new) : new[i].attach >= Len(acked[new[i].id]) +
                  (IF "outcome" = "outcome" /\ new[i].id \in ids THEN 1 ELSE 0)
          /\ Fresh(new)
    BY <1>2, <2>1, <2>3
  <2> QED BY <1>3, <2>3, <2>4, <2>5, <2>6, <2>7, BeginsInv
<1> QED BY <1>4, <1>6, <1>7, <1>8

(* The local file is written first, or is not. *)
LEMMA WriteLocalInv ==
  ASSUME SameAge, LearnInv, NEW p \in Procs, L!WriteLocal(p) \/ L!LocalFails(p)
  PROVE  LearnInv'
<1> DEFINE j == [job[p] EXCEPT !.pc = "shared"]
           new == job[p].new
<1>1. /\ LearnTypes /\ JobOK(p) /\ job[p].pc = "local" /\ job' = [job EXCEPT ![p] = j]
      /\ UNCHANGED <<shared, lock, now, added, acked>> /\ now \in Nat /\ job[p] \in Updating
      /\ \/ local' = local /\ localFailed' = TRUE
         \/ local' = new /\ localFailed' = localFailed
  BY DEF LearnInv, LearnTypes, L!WriteLocal, L!LocalFails
<1>2. /\ j \in Updating /\ j.pc = "shared" /\ j.op = job[p].op /\ j.ids = job[p].ids
      /\ j.at = job[p].at /\ j.new = new /\ j # L!Idle /\ job[p] # L!Idle
  BY <1>1 DEF Updating, L!Idle
<1> HIDE DEF j
<1>3. job' \in [Procs -> Updating] /\ job'[p] = j /\ \A q \in Procs \ {p} : job'[q] = job[q]
  BY <1>1, <1>2 DEF LearnTypes
<1>4. lock = p BY <1>1, <1>2 DEF JobOK
<1>5. FileOK(new) BY <1>1 DEF JobOK, Writing
<1>6. \A ls : FileOK(ls) => FileOK(ls)' BY <1>1, FilesAge
<1>7. \A ls : Fresh(ls) => Fresh(ls)' BY <1>1 DEF Fresh
<1>8. PICK n : n = new OBVIOUS
<1>9. FileOK(n) /\ FileOK(n)' BY <1>5, <1>6, <1>8
<1>10. job'[p].new = n BY <1>2, <1>3, <1>8
<1> HIDE DEF new
<1>11. LearnTypes'
  <2>1. PICK l, s : l = local /\ s = shared OBVIOUS
  <2>2. FileOK(l)' /\ FileOK(s)' BY <1>1, <1>6, <2>1 DEF LearnTypes
  <2>3. shared' = s /\ (local' = l \/ local' = n) BY <1>1, <1>8, <2>1
  <2>4. FileOK(local)' /\ FileOK(shared)' BY <1>9, <2>2, <2>3 DEF FileOK
  <2> QED BY <1>1, <1>3, <2>4 DEF LearnTypes
<1>12. JobOK(p)'
  <2>1. FileOK(job[p].new)' BY <1>9, <1>10 DEF FileOK
  <2> QED BY <1>1, <1>2, <1>3, <1>4, <2>1 DEF JobOK, Recording, Writing
<1>13. ASSUME ~localFailed'
       PROVE  Counted(local)' /\ Counted(shared)' /\ Fresh(local)' /\ Noted(p)'
  <2>1. local' = n /\ ~localFailed BY <1>1, <1>8, <1>13
  <2>2. Noted(p) /\ Counted(shared) BY <2>1 DEF LearnInv
  <2>3. /\ Recording(p)' <=> Recording(p)
        /\ job'[p].ids = job[p].ids /\ job'[p].at = job[p].at /\ job[p].new = n
    BY <1>2, <1>3, <1>8 DEF Recording, new
  <2>4. Writing(p) BY <1>1 DEF Writing
  <2>5. /\ \A i \in 1 .. Len(n) : n[i].attach >= Len(acked[n[i].id]) +
               (IF Recording(p) /\ n[i].id \in job[p].ids THEN 1 ELSE 0)
        /\ Fresh(n)
        /\ Recording(p) => \A id \in job[p].ids : ~Alike(id) =>
             \E i \in 1 .. Len(n) : n[i].id = id /\ n[i].last >= job[p].at
    BY <2>2, <2>3, <2>4, Zenon DEF Noted
  <2>6. Fresh(n)' BY <1>7, <2>5
  <2>7. Fresh(local)' BY <2>1, <2>6 DEF Fresh
  <2>8. Counted(local)'
    <3>1. ASSUME NEW i \in 1 .. Len(n) PROVE n[i].attach >= Len(acked[n[i].id])
      <4>1. n[i].id \in Ids /\ n[i].attach \in Nat BY <1>9, Entries
      <4>2. Len(acked[n[i].id]) \in Nat BY <1>1, <4>1, Ackeds
      <4>3. n[i].attach >= Len(acked[n[i].id]) + 1 \/ n[i].attach >= Len(acked[n[i].id]) + 0
        BY <2>5
      <4> QED BY <4>1, <4>2, <4>3
    <3> QED BY <1>1, <2>1, <3>1 DEF Counted
  <2>9. Counted(shared)' BY <1>1, <2>2 DEF Counted
  <2>10. Noted(p)'
    <3>1. \A i \in 1 .. Len(job'[p].new) :
            job'[p].new[i].attach >= Len(acked'[job'[p].new[i].id]) +
              (IF Recording(p)' /\ job'[p].new[i].id \in job'[p].ids THEN 1 ELSE 0)
      <4>1. acked' = acked BY <1>1
      <4> QED BY <1>10, <2>3, <2>5, <4>1, Zenon
    <3>2. Recording(p)' => \A id \in job'[p].ids : ~Alike(id) => \E i \in 1 .. Len(job'[p].new) :
                              job'[p].new[i].id = id /\ job'[p].new[i].last >= job'[p].at
      BY <1>10, <2>3, <2>5
    <3>3. Fresh(job[p].new)' BY <1>10, <2>6 DEF Fresh
    <3>4. local' = job'[p].new BY <1>10, <2>1
    <3> QED BY <3>1, <3>2, <3>3, <3>4, Zenon DEF Noted, Alike
  <2> QED BY <2>7, <2>8, <2>9, <2>10
<1>14. \A q \in Procs \ {p} : job'[q] = job[q] /\ lock' # q BY <1>1, <1>3, <1>4
<1> QED BY <1>4, <1>11, <1>12, <1>13, <1>14, LearnStep

(* Then the shared file, and RecordOutcome has recorded. *)
LEMMA WriteSharedInv ==
  ASSUME SameAge, LearnInv, NEW p \in Procs, L!WriteShared(p)
  PROVE  LearnInv'
<1> DEFINE ends == job[p].op = "outcome"
           j == IF ends THEN L!Idle ELSE [job[p] EXCEPT !.pc = "index"]
           at == job[p].at
           ids == job[p].ids
<1>1. /\ LearnTypes /\ JobOK(p) /\ job[p].pc = "shared" /\ job' = [job EXCEPT ![p] = j]
      /\ lock' = (IF ends THEN NoProc ELSE lock)
      /\ UNCHANGED <<local, now, added, localFailed>> /\ now \in Nat /\ job[p] \in Updating
      /\ shared' = job[p].new
      /\ acked' = [id \in Ids |-> IF ends /\ id \in ids THEN Append(acked[id], at) ELSE acked[id]]
  BY DEF LearnInv, LearnTypes, L!WriteShared
<1>2. job[p] # L!Idle /\ at \in Nat /\ at <= now /\ ids \subseteq Ids /\ (ends => ids \subseteq added)
      /\ lock = p /\ FileOK(job[p].new)
  BY <1>1 DEF JobOK, L!Idle, Updating, Recording, Writing
<1>3. PICK n : n = job[p].new OBVIOUS
<1>4. \A ls : FileOK(ls) => FileOK(ls)' BY <1>1, FilesAge
<1>5. FileOK(n) /\ FileOK(n)' BY <1>2, <1>3, <1>4
<1>6. j \in Updating /\ j.pc \in {"idle", "index"} /\ (j.pc = "idle" <=> j = L!Idle)
      /\ (j = L!Idle <=> ends) /\ j.at \in {at, 0} /\ (j.op = "outcome" => FALSE)
  <2>1. CASE ends
    <3>1. L!Idle \in Updating
      <4>1. <<>> \in Seq(Entry) OBVIOUS
      <4> QED BY <4>1 DEF L!Idle, Updating
    <3> QED BY <2>1, <3>1 DEF L!Idle
  <2>2. CASE ~ends
    <3>1. /\ [job[p] EXCEPT !.pc = "index"] \in Updating
          /\ [job[p] EXCEPT !.pc = "index"].pc = "index"
          /\ [job[p] EXCEPT !.pc = "index"].at = at
          /\ [job[p] EXCEPT !.pc = "index"].op = job[p].op
      BY <1>1 DEF Updating
    <3>2. L!Idle.pc # "index" BY DEF L!Idle
    <3> QED BY <2>2, <3>1, <3>2
  <2> QED BY <2>1, <2>2
<1> HIDE DEF j
<1>7. job' \in [Procs -> Updating] /\ job'[p] = j /\ \A q \in Procs \ {p} : job'[q] = job[q]
  BY <1>1, <1>6 DEF LearnTypes
<1>8. PICK e \in BOOLEAN : e = ends OBVIOUS
<1>9. PICK t : t = at OBVIOUS
<1>10. PICK I : I = ids OBVIOUS
<1> HIDE DEF ends, at, ids
<1>11. ASSUME NEW id \in Ids
       PROVE  /\ acked'[id] = IF e /\ id \in I THEN Append(acked[id], t) ELSE acked[id]
              /\ acked[id] \in Seq(Nat) /\ acked'[id] \in Seq(Nat)
              /\ Len(acked[id]) \in Nat
              /\ e /\ id \in I => /\ Len(acked'[id]) = Len(acked[id]) + 1
                                  /\ acked'[id][Len(acked'[id])] = t
  <2>1. acked'[id] = IF e /\ id \in I THEN Append(acked[id], t) ELSE acked[id]
    BY <1>1, <1>8, <1>9, <1>10
  <2>2. acked[id] \in Seq(Nat) /\ t \in Nat BY <1>2, <1>9 DEF LearnTypes, LearnInv
  <2>3. /\ Append(acked[id], t) \in Seq(Nat) /\ Len(Append(acked[id], t)) = Len(acked[id]) + 1
        /\ Append(acked[id], t)[Len(acked[id]) + 1] = t /\ Len(acked[id]) \in Nat
    BY <2>2
  <2> QED BY <2>1, <2>2, <2>3
<1>12. LearnTypes'
  <2>1. PICK l : l = local OBVIOUS
  <2>2. FileOK(l)' BY <1>1, <1>4, <2>1 DEF LearnTypes
  <2>3. local' = l /\ shared' = n BY <1>1, <1>3, <2>1
  <2>4. FileOK(local)' /\ FileOK(shared)' BY <1>5, <2>2, <2>3 DEF FileOK
  <2>5. acked' \in [Ids -> Seq(Nat)] BY <1>1, <1>11
  <2>6. ASSUME NEW id \in Ids, acked'[id] # <<>> PROVE id \in added'
    <3>1. acked[id] # <<>> \/ (e /\ id \in I) BY <1>11, <2>6
    <3> QED BY <1>1, <1>2, <1>8, <1>10, <3>1 DEF LearnTypes
  <2>7. lock' \in Procs \cup {NoProc} BY <1>1, <1>2
  <2> QED BY <1>1, <1>7, <2>4, <2>5, <2>6, <2>7 DEF LearnTypes
<1>13. JobOK(p)'
  <2>1. j.at <= now' BY <1>1, <1>2, <1>6
  <2>2. (j # L!Idle) <=> lock' = p BY <1>1, <1>2, <1>6 DEF SameAge
  <2> QED BY <1>6, <1>7, <2>1, <2>2 DEF JobOK, Recording, Writing
<1>14. ASSUME ~localFailed'
       PROVE  Counted(local)' /\ Counted(shared)' /\ Fresh(local)' /\ Noted(p)'
  <2>1. ~localFailed BY <1>1, <1>14
  <2>2. Noted(p) /\ Fresh(local) BY <2>1 DEF LearnInv
  <2>3. Writing(p) /\ (Recording(p) <=> e) BY <1>1, <1>8 DEF Writing, Recording, ends
  <2>4. /\ \A i \in 1 .. Len(n) : n[i].attach >= Len(acked[n[i].id]) +
               (IF e /\ n[i].id \in I THEN 1 ELSE 0)
        /\ local = n
        /\ e => \A id \in I : ~Alike(id) =>
             \E i \in 1 .. Len(n) : n[i].id = id /\ n[i].last >= t
    <3>1. job[p].pc = "shared" /\ job[p].at = t /\ job[p].ids = I /\ job[p].new = n
      BY <1>1, <1>3, <1>9, <1>10 DEF at, ids
    <3> QED BY <2>2, <2>3, <3>1, Zenon DEF Noted
  <2>5. local' = n /\ shared' = n BY <1>1, <1>3, <2>4
  <2>6. Counted(n)'
    <3>1. ASSUME NEW i \in 1 .. Len(n) PROVE n[i].attach >= Len(acked'[n[i].id])
      <4>1. n[i].id \in Ids /\ n[i].attach \in Nat BY <1>5, Entries
      <4>2. CASE e /\ n[i].id \in I
        <5>1. n[i].attach >= Len(acked[n[i].id]) + 1 BY <2>4, <4>2
        <5> QED BY <1>11, <4>1, <4>2, <5>1
      <4>3. CASE ~(e /\ n[i].id \in I)
        <5>1. n[i].attach >= Len(acked[n[i].id]) + 0 BY <2>4, <4>3
        <5>2. acked'[n[i].id] = acked[n[i].id] BY <1>11, <4>1, <4>3
        <5>3. Len(acked[n[i].id]) \in Nat BY <1>11, <4>1
        <5>4. n[i].attach >= Len(acked[n[i].id]) BY <4>1, <5>1, <5>3
        <5> QED BY <5>2, <5>4
      <4> QED BY <4>2, <4>3
    <3> QED BY <3>1 DEF Counted
  <2>7. Fresh(n)'
    <3> SUFFICES ASSUME NEW id \in Ids, ~Alike(id), acked'[id] # <<>>,
                        now - acked'[id][Len(acked'[id])] <= Expiry
                 PROVE  \E i \in 1 .. Len(n) : n[i].id = id /\ n[i].last >= acked'[id][Len(acked'[id])]
      BY <1>1 DEF Fresh, Alike
    <3>1. CASE e /\ id \in I BY <1>11, <2>4, <3>1
    <3>2. CASE ~(e /\ id \in I)
      <4>1. acked'[id] = acked[id] BY <1>11, <3>2
      <4> QED BY <2>2, <2>4, <4>1 DEF Fresh
    <3> QED BY <3>1, <3>2
  <2>8. Noted(p)' BY <1>6, <1>7 DEF Noted, Writing
  <2>9. Counted(local)' /\ Counted(shared)' /\ Fresh(local)'
    BY <2>5, <2>6, <2>7 DEF Counted, Fresh
  <2> QED BY <2>8, <2>9
<1>15. \A q \in Procs \ {p} : job'[q] = job[q] /\ lock' # q BY <1>1, <1>2, <1>7 DEF SameAge
<1> QED BY <1>2, <1>12, <1>13, <1>14, <1>15, LearnStep

(* Neither learnings nor what is known of them changes.                    *)
LEMMA RestInv ==
  ASSUME SameAge, LearnInv, NEW p \in Procs, L!Index(p) \/ L!Prevent(p) \/ L!Crash(p)
  PROVE  LearnInv'
<1>1. /\ LearnTypes /\ JobOK(p) /\ job[p] \in Updating /\ lock = p /\ now \in Nat
      /\ UNCHANGED <<local, shared, now, added, acked, localFailed>>
  BY DEF LearnInv, LearnTypes, JobOK, L!Index, L!Prevent, L!Crash, L!Idle
<1>2. PICK j \in Updating : /\ job' = [job EXCEPT ![p] = j]
                            /\ \/ j = L!Idle /\ lock' = NoProc
                               \/ j.pc = "prevent" /\ j.at = job[p].at /\ lock' = lock
                                  /\ j.op # "outcome" /\ j # L!Idle
  <2>1. L!Idle \in Updating
    <3>1. <<>> \in Seq(Entry) OBVIOUS
    <3> QED BY <3>1 DEF L!Idle, Updating
  <2>2. CASE L!Crash(p) BY <2>1, <2>2 DEF L!Crash
  <2>3. CASE L!Prevent(p) BY <2>1, <2>3 DEF L!Prevent
  <2>4. CASE L!Index(p) /\ job[p].op # "maintain" BY <2>1, <2>4 DEF L!Index
  <2>5. CASE L!Index(p) /\ job[p].op = "maintain"
    <3> DEFINE j == [job[p] EXCEPT !.pc = "prevent"]
    <3>1. j \in Updating /\ j.pc = "prevent" /\ j.at = job[p].at /\ j.op # "outcome"
      BY <1>1, <2>5 DEF Updating
    <3>2. j # L!Idle BY <3>1 DEF L!Idle
    <3>3. job' = [job EXCEPT ![p] = j] /\ lock' = lock BY <2>5 DEF L!Index
    <3> HIDE DEF j
    <3> QED BY <3>1, <3>2, <3>3
  <2> QED BY <2>2, <2>3, <2>4, <2>5
<1>3. job' \in [Procs -> Updating] /\ job'[p] = j /\ \A q \in Procs \ {p} : job'[q] = job[q]
  BY <1>1, <1>2 DEF LearnTypes
<1>4. LearnTypes'
  <2>1. lock' \in Procs \cup {NoProc} BY <1>1, <1>2
  <2> QED BY <1>1, <1>3, <2>1 DEF LearnTypes, FileOK, EntryOK
<1>5. j.pc \in {"idle", "prevent"} /\ (j.pc = "idle" => j = L!Idle) /\ j.op # "outcome"
      /\ j.at <= now
  <2>1. L!Idle.pc = "idle" /\ L!Idle.op = "none" /\ L!Idle.at = 0 /\ 0 <= now BY <1>1 DEF L!Idle
  <2> QED BY <1>1, <1>2, <2>1 DEF JobOK
<1>6. JobOK(p)'
  <2>1. (j # L!Idle) <=> lock' = p BY <1>1, <1>2 DEF SameAge
  <2> QED BY <1>1, <1>3, <1>5, <2>1 DEF JobOK, Recording, Writing
<1>7. ~localFailed' => Counted(local)' /\ Counted(shared)' /\ Fresh(local)' /\ Noted(p)'
  <2>1. Noted(p)' BY <1>3, <1>5 DEF Noted, Writing
  <2> QED BY <1>1, <2>1 DEF LearnInv, Counted, Fresh
<1>8. \A q \in Procs \ {p} : job'[q] = job[q] /\ lock' # q BY <1>1, <1>2, <1>3 DEF SameAge
<1> QED BY <1>1, <1>4, <1>6, <1>7, <1>8, LearnStep

(* Time passes.                                                            *)
LEMMA TickInv ==
  ASSUME SameAge, LearnInv, L!Tick
  PROVE  LearnInv'
<1>1. /\ LearnTypes /\ now \in Nat /\ now' = now + 1
      /\ UNCHANGED <<local, shared, lock, job, added, acked, localFailed>>
  BY DEF LearnInv, LearnTypes, L!Tick
<1>2. now' \in Nat /\ now <= now' BY <1>1
<1>3. \A ls : FileOK(ls) => FileOK(ls)' BY <1>1, <1>2, FilesAge
<1>4. \A ls : Fresh(ls) => Fresh(ls)' BY <1>1, <1>2, FreshAges
<1>5. PICK l, s : l = local /\ s = shared OBVIOUS
<1>6. LearnTypes'
  <2>1. FileOK(l)' /\ FileOK(s)' BY <1>1, <1>3, <1>5 DEF LearnTypes
  <2>2. FileOK(local)' /\ FileOK(shared)' BY <1>1, <1>5, <2>1 DEF FileOK
  <2> QED BY <1>1, <1>2, <2>2 DEF LearnTypes
<1>7. ASSUME NEW p \in Procs PROVE JobOK(p)'
  <2>1. JobOK(p) /\ job[p] \in Updating BY <1>1 DEF LearnInv, LearnTypes
  <2>2. job[p].at \in Nat BY <2>1 DEF Updating
  <2>3. job[p].at <= now' BY <1>1, <2>1, <2>2 DEF JobOK
  <2>4. PICK n : n = job[p].new OBVIOUS
  <2>5. Writing(p) => FileOK(n)' BY <1>3, <2>1, <2>4 DEF JobOK
  <2>6. Writing(p)' => FileOK(job[p].new)' BY <1>1, <2>4, <2>5 DEF FileOK, Writing
  <2> QED BY <1>1, <2>1, <2>3, <2>6 DEF JobOK, Recording
<1>8. ASSUME ~localFailed', NEW p \in Procs PROVE Noted(p)'
  <2>1. Noted(p) BY <1>1, <1>8 DEF LearnInv
  <2>2. PICK n : n = job[p].new OBVIOUS
  <2>3. Fresh(n) => Fresh(n)' BY <1>4
  <2>4. Fresh(job[p].new) => Fresh(job[p].new)' BY <1>1, <2>2, <2>3 DEF Fresh
  <2> QED BY <1>1, <2>1, <2>4 DEF Noted, Writing, Recording
<1>9. ~localFailed' => Counted(local)' /\ Counted(shared)' /\ Fresh(local)'
  <2>1. Fresh(l) => Fresh(l)' BY <1>4
  <2> QED BY <1>1, <1>5, <2>1 DEF LearnInv, Counted, Fresh
<1> QED BY <1>6, <1>7, <1>8, <1>9 DEF LearnInv

(* A line of the shared file is lost while nobody has the lock.            *)
LEMMA BadMergeInv ==
  ASSUME SameAge, LearnInv, L!BadMerge
  PROVE  LearnInv'
<1>1. /\ LearnTypes /\ lock = NoProc
      /\ UNCHANGED <<local, lock, job, now, added, acked, localFailed>>
      /\ shared \in Seq(Entry) /\ FileOK(shared)
  BY DEF LearnInv, LearnTypes, FileOK, L!BadMerge
<1>2. PICK k \in DOMAIN shared : shared' = L!RemoveAt(shared, k) BY DEF L!BadMerge
<1>3. k \in 1 .. Len(shared) /\ Len(shared) \in Nat BY <1>1, <1>2
<1> DEFINE a == SubSeq(shared, 1, k - 1)
           b == SubSeq(shared, k + 1, Len(shared))
<1>4. /\ a \in Seq(Entry) /\ \A i \in 1 .. Len(a) : \E j \in 1 .. Len(shared) : a[i] = shared[j]
      /\ b \in Seq(Entry) /\ \A i \in 1 .. Len(b) : \E j \in 1 .. Len(shared) : b[i] = shared[j]
  <2>1. ASSUME NEW m \in 1 .. Len(shared) + 1, NEW n \in 0 .. Len(shared)
        PROVE  /\ SubSeq(shared, m, n) \in Seq(Entry)
               /\ \A i \in 1 .. Len(SubSeq(shared, m, n)) : \E j \in 1 .. Len(shared) :
                    SubSeq(shared, m, n)[i] = shared[j]
    <3> DEFINE c == SubSeq(shared, m, n)
    <3>1. c \in Seq(Entry) BY <1>1, SubSeqProperties
    <3>2. /\ Len(c) = (IF m <= n THEN n - m + 1 ELSE 0)
          /\ \A i \in 1 .. n - m + 1 : c[i] = shared[m + i - 1]
      BY <1>1, SubSeqProperties
    <3> HIDE DEF c
    <3>3. ASSUME NEW i \in 1 .. Len(c) PROVE \E j \in 1 .. Len(shared) : c[i] = shared[j]
      <4>1. m <= n /\ i \in 1 .. n - m + 1 BY <1>3, <3>2
      <4>2. m + i - 1 \in 1 .. Len(shared) BY <1>3, <4>1
      <4> QED BY <3>2, <4>1, <4>2
    <3> QED BY <3>1, <3>3 DEF c
  <2>2. /\ 1 \in 1 .. Len(shared) + 1 /\ k - 1 \in 0 .. Len(shared)
        /\ k + 1 \in 1 .. Len(shared) + 1 /\ Len(shared) \in 0 .. Len(shared)
    BY <1>3
  <2> QED BY <2>1, <2>2
<1>5. shared' = a \o b BY <1>2 DEF L!RemoveAt
<1> HIDE DEF a, b
<1>6. PICK n : n = a \o b OBVIOUS
<1>7. n \in Seq(Entry) /\ \A i \in 1 .. Len(n) : \E j \in 1 .. Len(shared) : n[i] = shared[j]
  <2>1. /\ n \in Seq(Entry) /\ Len(n) = Len(a) + Len(b) /\ Len(a) \in Nat /\ Len(b) \in Nat
        /\ \A i \in 1 .. Len(a) + Len(b) : n[i] = IF i <= Len(a) THEN a[i] ELSE b[i - Len(a)]
    BY <1>4, <1>6, ConcatProperties
  <2>2. ASSUME NEW i \in 1 .. Len(n) PROVE \E j \in 1 .. Len(shared) : n[i] = shared[j]
    <3>1. CASE i <= Len(a)
      <4>1. i \in 1 .. Len(a) /\ n[i] = a[i] BY <2>1, <3>1
      <4> QED BY <1>4, <4>1
    <3>2. CASE ~(i <= Len(a))
      <4>1. i - Len(a) \in 1 .. Len(b) /\ n[i] = b[i - Len(a)] BY <2>1, <3>2
      <4> QED BY <1>4, <4>1
    <3> QED BY <3>1, <3>2
  <2> QED BY <2>1, <2>2
<1>8. shared' = n BY <1>5, <1>6
<1>9. LearnTypes'
  <2>1. FileOK(n) BY <1>1, <1>7 DEF FileOK
  <2>2. FileOK(shared)' BY <1>1, <1>8, <2>1 DEF FileOK, EntryOK
  <2>3. FileOK(local)' BY <1>1 DEF FileOK, EntryOK, LearnTypes
  <2> QED BY <1>1, <2>2, <2>3 DEF LearnTypes
<1>10. ASSUME NEW p \in Procs PROVE JobOK(p)' /\ Noted(p)'
  <2>1. job'[p] = L!Idle /\ lock' # p /\ now' \in Nat
    BY <1>1 DEF LearnInv, JobOK, SameAge, LearnTypes
  <2>2. L!Idle.pc = "idle" /\ L!Idle.op = "none" /\ L!Idle.at = 0 /\ 0 <= now' BY <2>1 DEF L!Idle
  <2> QED BY <2>1, <2>2 DEF JobOK, Noted, Recording, Writing
<1>11. ~localFailed' => Counted(local)' /\ Counted(shared)' /\ Fresh(local)'
  <2>1. Counted(shared) => Counted(n)'
    BY <1>1, <1>7 DEF Counted
  <2>2. Counted(n)' => Counted(shared)' BY <1>8 DEF Counted
  <2> QED BY <1>1, <2>1, <2>2 DEF LearnInv, Counted, Fresh
<1> QED BY <1>9, <1>10, <1>11 DEF LearnInv

(* The store begins empty, and all steps keep the invariant.               *)
LEMMA LearnInit ==
  ASSUME SameAge, L!Init
  PROVE  LearnInv
<1>1. <<>> \in Seq(Entry) /\ <<>> \in Seq(Nat) /\ Len(<<>>) = 0 OBVIOUS
<1>2. L!Idle \in Updating /\ L!Idle.pc = "idle" /\ L!Idle.op = "none" /\ L!Idle.at = 0
  BY <1>1 DEF L!Idle, Updating
<1>3. FileOK(local) /\ FileOK(shared) BY <1>1 DEF L!Init, FileOK
<1>4. LearnTypes BY <1>1, <1>2, <1>3 DEF L!Init, LearnTypes
<1>5. \A p \in Procs : job[p] = L!Idle /\ lock # p BY DEF L!Init, SameAge
<1>6. ASSUME NEW p \in Procs PROVE JobOK(p) /\ Noted(p)
  <2>1. 0 <= now BY DEF L!Init
  <2>2. JobOK(p) BY <1>2, <1>5, <2>1 DEF JobOK, Recording, Writing
  <2>3. Noted(p) BY <1>2, <1>5 DEF Noted, Writing
  <2> QED BY <2>2, <2>3
<1>7. Counted(local) /\ Counted(shared) /\ Fresh(local) BY <1>1 DEF L!Init, Counted, Fresh
<1> QED BY <1>4, <1>6, <1>7 DEF LearnInv

(* No step of the learning store disturbs LearnInv.                        *)
LEMMA LearnNext ==
  ASSUME SameAge, LearnInv, [L!Next]_(L!storeVars)
  PROVE  LearnInv'
<1>1. CASE UNCHANGED L!storeVars
  <2>1. UNCHANGED <<local, shared, lock, job, now, added, acked, localFailed>>
    BY <1>1 DEF L!storeVars
  <2>2. LearnTypes' BY <2>1 DEF LearnInv, LearnTypes, FileOK, EntryOK
  <2>3. ASSUME NEW p \in Procs PROVE JobOK(p)'
    <3>1. JobOK(p) BY DEF LearnInv
    <3> QED BY <2>1, <3>1 DEF JobOK, Recording, Writing, FileOK, EntryOK
  <2>4. ASSUME ~localFailed' PROVE Counted(local)' /\ Counted(shared)' /\ Fresh(local)'
    BY <2>1, <2>4 DEF LearnInv, Counted, Fresh
  <2>5. ASSUME ~localFailed', NEW p \in Procs PROVE Noted(p)'
    <3>1. Noted(p) BY <2>1, <2>5 DEF LearnInv
    <3>2. Fresh(job[p].new) => Fresh(job[p].new)' BY <2>1 DEF Fresh
    <3> QED BY <2>1, <3>1, <3>2 DEF Noted, Recording, Writing
  <2> QED BY <2>2, <2>3, <2>4, <2>5 DEF LearnInv
<1>2. ASSUME NEW p \in Procs, L!Step(p) PROVE LearnInv'
  <2>1. (SUBSET L!IdsIn(L!View)) \ {{}} \subseteq SUBSET L!IdsIn(L!View) OBVIOUS
  <2> QED BY <1>2, <2>1, BeginInv, WriteLocalInv, WriteSharedInv, RestInv DEF L!Step
<1> QED BY <1>1, <1>2, TickInv, BadMergeInv DEF L!Next

(* What is in the files shows in the view.                                 *)
LEMMA Kept ==
  ASSUME SameAge, LearnInv
  PROVE  L!OutcomesAreKept /\ L!UsedIsActive
<1>1. LearnTypes BY DEF LearnInv
<1>2. /\ FileOK(L!View) /\ L!IdsIn(L!View) \subseteq added
      /\ Counted(local) /\ Counted(shared) => Counted(L!View)
      /\ Fresh(local) => Fresh(L!View)
  BY <1>1, Viewed
<1> SUFFICES ASSUME ~localFailed
             PROVE  L!OutcomesAreKept /\ L!UsedIsActive
  BY DEF L!OutcomesAreKept, L!UsedIsActive
<1>3. Counted(L!View) /\ Fresh(L!View) BY <1>2 DEF LearnInv
<1>4. DOMAIN L!View = 1 .. Len(L!View)
  <2>1. L!View \in Seq(Entry) BY <1>2 DEF FileOK
  <2> HIDE DEF L!View
  <2> QED BY <2>1
<1>5. L!OutcomesAreKept BY <1>3, <1>4 DEF L!OutcomesAreKept, Counted
<1>6. L!UsedIsActive
  <2> SUFFICES ASSUME NEW id \in Ids, acked[id] # <<>>,
                      now - acked[id][Len(acked[id])] <= Expiry, ~Alike(id)
               PROVE  \E i \in DOMAIN L!View : L!View[i].id = id /\ L!Active(L!View[i])
    BY Zenon DEF L!UsedIsActive, Alike, L!Last
  <2>1. PICK i \in 1 .. Len(L!View) : L!View[i].id = id BY <1>3 DEF Fresh
  <2>2. ~L!View[i].expired /\ L!View[i].by = L!None BY <1>2, <2>1, Entries
  <2> QED BY <1>4, <2>1, <2>2 DEF L!Active
<1> QED BY <1>5, <1>6

(* Outcomes recorded under the lock are not lost, whatever maintenance     *)
(* runs between them and whoever crashes half-way (RecordOutcome,          *)
(* writeBothLocked): each learning still in the store was attached at      *)
(* least as often as outcomes of it were acknowledged.                     *)
THEOREM OutcomesKept ==
  ASSUME SameAge
  PROVE  Spec => []OutcomesAreKept
<1> DEFINE I == part = "learning" => LearnInv
<1>1. Init => I BY PartInit, LearnInit
<1>2. I /\ [Next]_<<NotPlan, planVars>> => I' BY PartStep, LearnNext
<1>3. I => OutcomesAreKept BY Kept DEF OutcomesAreKept
<1> QED BY <1>1, <1>2, <1>3, PTL DEF Spec

(* A learning that duplicates no other stays active for as long as an      *)
(* outcome of it is within the expiry, through maintenance, crashes and    *)
(* bad merges of the shared file (applyAutoExpiry, GarbageCollect).        *)
THEOREM UsedStaysActive ==
  ASSUME SameAge
  PROVE  Spec => []UsedIsActive
<1> DEFINE I == part = "learning" => LearnInv
<1>1. Init => I BY PartInit, LearnInit
<1>2. I /\ [Next]_<<NotPlan, planVars>> => I' BY PartStep, LearnNext
<1>3. I => UsedIsActive BY Kept DEF UsedIsActive
<1> QED BY <1>1, <1>2, <1>3, PTL DEF Spec

-----------------------------------------------------------------------------
(***************************************************************************)
(* Who supersedes whom.  The id of no learning is the one that stands for  *)
(* no learning, the empty superseded_by.                                   *)
(***************************************************************************)
NoneIsNoId == L!None \notin Ids

By(ls) == {e \in Ids \X Ids : \E i \in 1 .. Len(ls) : ls[i].id = e[1] /\ ls[i].by = e[2]}

Sink(x, R) == \A y \in Ids : <<x, y>> \notin R

(* Who follows R from one to the next arrives at an end. *)
Ends(R) == \A X \in SUBSET Ids : X # {} => \E x \in X : \A y \in X : <<x, y>> \notin R

(* Fewer arrows have ends as well. *)
LEMMA FewerEnd ==
  ASSUME NEW R, NEW r, Ends(R), \A x \in Ids, y \in Ids : <<x, y>> \in r => <<x, y>> \in R
  PROVE  Ends(r)
BY DEF Ends

(* And one more, from where none leaves to where at most one step is left. *)
LEMMA OneMoreEnds ==
  ASSUME NEW R, NEW r, Ends(R), NEW x \in Ids, NEW y \in Ids, x # y, Sink(x, R),
         \A m \in Ids : <<y, m>> \in R => m # x /\ Sink(m, R),
         \A a \in Ids, b \in Ids : <<a, b>> \in r => <<a, b>> \in R \/ (a = x /\ b = y)
  PROVE  Ends(r)
<1> SUFFICES ASSUME NEW X \in SUBSET Ids, X # {} PROVE \E a \in X : \A b \in X : <<a, b>> \notin r
  BY DEF Ends
<1>1. CASE x \notin X
  <2>1. PICK a \in X : \A b \in X : <<a, b>> \notin R BY DEF Ends
  <2> QED BY <1>1, <2>1
<1>2. CASE x \in X /\ y \notin X BY <1>2 DEF Sink
<1>3. CASE x \in X /\ y \in X
  <2>1. CASE \A b \in X : <<y, b>> \notin R BY <1>3, <2>1
  <2>2. ASSUME NEW m \in X, <<y, m>> \in R PROVE \A b \in X : <<m, b>> \notin r
    BY <1>3, <2>2 DEF Sink
  <2> QED BY <2>1, <2>2
<1> QED BY <1>1, <1>2, <1>3

(* What is not superseded in ls has no arrow in G either.                  *)
Loose(ls, G) == \A k \in 1 .. Len(ls) : ls[k].by = L!None => Sink(ls[k].id, G)

Wise(ls, G) == ls \in Seq(Entry) /\ Distinct(ls) /\ Loose(ls, G) /\ Ends(By(ls) \cup G)

(* The i-th was superseded by none so far, or by one that is not.          *)
Toward(a, i, j) ==
  \/ a[i].by = L!None
  \/ \E m \in 1 .. Len(a) : /\ m <= j /\ m # i /\ a[m].by = L!None /\ a[i].by = a[m].id

(* Nobody is superseded by another than before.                            *)
Keeps(a, ls) == \A k \in 1 .. Len(ls) : ls[k].by # L!None => a[k].by = ls[k].by

(* Who has an id, has one arrow or none.                                   *)
LEMMA Arrows ==
  ASSUME NEW ls \in Seq(Entry), Distinct(ls), NEW k \in 1 .. Len(ls)
  PROVE  /\ ls[k] \in Entry /\ ls[k].id \in Ids /\ ls[k].by \in Ids \cup {L!None}
         /\ \A y \in Ids : <<ls[k].id, y>> \in By(ls) <=> ls[k].by = y
<1>1. ls[k] \in Entry OBVIOUS
<1>2. ls[k].id \in Ids /\ ls[k].by \in Ids \cup {L!None} BY <1>1 DEF Entry
<1>3. ASSUME NEW y \in Ids PROVE <<ls[k].id, y>> \in By(ls) <=> ls[k].by = y
  <2>1. <<ls[k].id, y>> \in By(ls) <=> \E i \in 1 .. Len(ls) : ls[i].id = ls[k].id /\ ls[i].by = y
    BY <1>2 DEF By
  <2> QED BY <2>1 DEF Distinct
<1> QED BY <1>1, <1>2, <1>3

(* What becomes of learnings, if nobody is superseded twice.               *)
LEMMA Stays ==
  ASSUME NEW ls, NEW a, Relabelled(a, ls), Keeps(a, ls), NEW G
  PROVE  /\ Distinct(ls) => Distinct(a)
         /\ Loose(ls, G) => Loose(a, G)
<1>1. Len(a) = Len(ls) /\ \A i \in 1 .. Len(ls) : a[i].id = ls[i].id BY DEF Relabelled
<1>2. Distinct(ls) => Distinct(a) BY <1>1 DEF Distinct
<1>3. Loose(ls, G) => Loose(a, G) BY <1>1 DEF Loose, Keeps
<1> QED BY <1>2, <1>3

(* To be superseded is to point to who is not, or to who points to one who *)
(* is not.                                                                 *)
LEMMA PointingEnds ==
  ASSUME NoneIsNoId, NEW a \in Seq(Entry), Distinct(a), NEW G, Loose(a, G), Ends(By(a) \cup G),
         NEW i \in 1 .. Len(a), NEW j \in 1 .. Len(a), i # j,
         Sink(a[i].id, G), a[j].by = L!None, Toward(a, i, j - 1)
  PROVE  /\ Ends(By([a EXCEPT ![j].by = a[i].id]) \cup G)
         /\ Toward([a EXCEPT ![j].by = a[i].id], i, j)
         /\ Ends(By([a EXCEPT ![i].by = a[j].id]) \cup G)
         /\ Toward([a EXCEPT ![i].by = a[j].id], i, j)
<1> PICK I, J : I = a[i].id /\ J = a[j].id OBVIOUS
<1>6. PICK before : before = By(a) \cup G OBVIOUS
<1> DEFINE Set(b, k, id) ==
             /\ Len(b) = Len(a) /\ b[k].id = a[k].id /\ b[k].by = id
             /\ \A m \in 1 .. Len(a) : m # k => b[m] = a[m]
             /\ \A x \in Ids, y \in Ids : <<x, y>> \in By(b) =>
                  (<<x, y>> \in By(a) /\ x # a[k].id) \/ (x = a[k].id /\ y = id)
<1>1. I \in Ids /\ J \in Ids /\ J # I
  <2>1. I \in Ids /\ J \in Ids BY Arrows
  <2> QED BY <2>1 DEF Distinct
<1>2. ASSUME NEW k \in 1 .. Len(a), a[k].by = L!None PROVE Sink(a[k].id, before)
  <2>1. Sink(a[k].id, G) BY <1>2 DEF Loose
  <2>2. Sink(a[k].id, By(a)) BY <1>2, Arrows DEF Sink, NoneIsNoId
  <2> QED BY <1>6, <2>1, <2>2 DEF Sink
<1>3. ASSUME NEW k \in 1 .. Len(a), NEW id \in Ids
      PROVE  Set([a EXCEPT ![k].by = id], k, id)
  <2> DEFINE e == [a[k] EXCEPT !.by = id]
             b == [a EXCEPT ![k] = e]
  <2>1. a[k] \in Entry OBVIOUS
  <2>2. e \in Entry /\ e.id = a[k].id /\ e.by = id BY <2>1 DEF Entry
  <2> HIDE DEF e
  <2>3. b \in Seq(Entry) /\ Len(b) = Len(a) /\ b[k] = e /\ \A m \in 1 .. Len(a) : m # k => b[m] = a[m]
    BY <2>2
  <2> HIDE DEF b
  <2>4. ASSUME NEW x \in Ids, NEW y \in Ids, <<x, y>> \in By(b)
        PROVE  (<<x, y>> \in By(a) /\ x # a[k].id) \/ (x = a[k].id /\ y = id)
    <3>1. PICK m \in 1 .. Len(a) : b[m].id = x /\ b[m].by = y BY <2>3, <2>4 DEF By
    <3>2. CASE m = k BY <2>2, <2>3, <3>1, <3>2
    <3>3. CASE m # k
      <4>1. a[m].id = x /\ a[m].by = y BY <2>3, <3>1, <3>3
      <4>2. <<x, y>> \in By(a) BY <4>1 DEF By
      <4>3. x # a[k].id BY <3>3, <4>1 DEF Distinct
      <4> QED BY <4>2, <4>3
    <3> QED BY <3>2, <3>3
  <2>5. Set(b, k, id) BY <2>2, <2>3, <2>4
  <2> QED BY <2>5 DEF b, e
<1> HIDE DEF Set
<1>4. ASSUME NEW b, b = [a EXCEPT ![j].by = I]
      PROVE  Ends(By(b) \cup G) /\ Toward(b, i, j)
  <2>1. /\ Len(b) = Len(a) /\ \A m \in 1 .. Len(a) : m # j => b[m] = a[m]
        /\ \A x \in Ids, y \in Ids : <<x, y>> \in By(b) =>
             (<<x, y>> \in By(a) /\ x # J) \/ (x = J /\ y = I)
    <3>1. Set([a EXCEPT ![j].by = I], j, I) BY <1>1, <1>3
    <3>2. Set(b, j, I) BY <1>4, <3>1
    <3> QED BY <3>2 DEF Set
  <2>2. Sink(J, before) BY <1>2
  <2>3. \A m \in Ids : <<I, m>> \in before => m # J /\ Sink(m, before)
    <3> SUFFICES ASSUME NEW m \in Ids, <<I, m>> \in before PROVE m # J /\ Sink(m, before) OBVIOUS
    <3>1. a[i].by = m
      <4>1. <<I, m>> \in By(a) BY <1>6 DEF Sink
      <4> QED BY <4>1, Arrows
    <3>2. PICK k \in 1 .. Len(a) : k <= j - 1 /\ a[k].by = L!None /\ m = a[k].id
      BY <3>1 DEF Toward, NoneIsNoId
    <3>3. k # j BY <3>2
    <3>4. m # J BY <3>2, <3>3 DEF Distinct
    <3> QED BY <1>2, <3>2, <3>4
  <2>4. PICK r : r = By(b) \cup G OBVIOUS
  <2>5. \A x \in Ids, y \in Ids : <<x, y>> \in r => <<x, y>> \in before \/ (x = J /\ y = I)
    <3> SUFFICES ASSUME NEW x \in Ids, NEW y \in Ids, <<x, y>> \in r
                 PROVE  <<x, y>> \in before \/ (x = J /\ y = I)
      OBVIOUS
    <3>1. <<x, y>> \in By(b) \/ <<x, y>> \in G BY <2>4
    <3>2. <<x, y>> \in By(b) => <<x, y>> \in By(a) \/ (x = J /\ y = I) BY <2>1
    <3> QED BY <1>6, <3>1, <3>2
  <2>6. Ends(before) BY <1>6, Zenon
  <2>8. Ends(r) BY <1>1, <2>2, <2>3, <2>5, <2>6, OneMoreEnds
  <2>7. Toward(b, i, j)
    <3>1. CASE a[i].by = L!None BY <2>1, <3>1 DEF Toward
    <3>2. ASSUME NEW m \in 1 .. Len(a), m <= j - 1, m # i, a[m].by = L!None, a[i].by = a[m].id
          PROVE  Toward(b, i, j)
      <4>1. b[m] = a[m] /\ b[i] = a[i] /\ m <= j BY <2>1, <3>2
      <4> QED BY <2>1, <3>2, <4>1 DEF Toward
    <3> QED BY <3>1, <3>2 DEF Toward
  <2> QED BY <2>4, <2>7, <2>8
<1>5. ASSUME NEW b, b = [a EXCEPT ![i].by = J]
      PROVE  Ends(By(b) \cup G) /\ Toward(b, i, j)
  <2>1. /\ Len(b) = Len(a) /\ \A m \in 1 .. Len(a) : m # i => b[m] = a[m]
        /\ b[i].by = J
        /\ \A x \in Ids, y \in Ids : <<x, y>> \in By(b) =>
             (<<x, y>> \in By(a) /\ x # I) \/ (x = I /\ y = J)
    <3>1. Set([a EXCEPT ![i].by = J], i, J) BY <1>1, <1>3
    <3>2. Set(b, i, J) BY <1>5, <3>1
    <3> QED BY <3>2 DEF Set
  <2>2. PICK q : q = {e \in Ids \X Ids : e \in before /\ e[1] # I} OBVIOUS
  <2>3. \A x \in Ids, y \in Ids : <<x, y>> \in q <=> <<x, y>> \in before /\ x # I BY <2>2
  <2>4. Ends(q)
    <3>1. Ends(before) BY <1>6, Zenon
    <3> QED BY <2>3, <3>1, FewerEnd
  <2>5. Sink(I, q) BY <1>1, <2>3 DEF Sink
  <2>6. \A m \in Ids : <<J, m>> \in q => m # I /\ Sink(m, q)
    <3>1. \A m \in Ids : <<J, m>> \notin q BY <1>1, <1>2, <2>3 DEF Sink
    <3> QED BY <3>1
  <2>7. PICK r : r = By(b) \cup G OBVIOUS
  <2>8. \A x \in Ids, y \in Ids : <<x, y>> \in r => <<x, y>> \in q \/ (x = I /\ y = J)
    BY <1>6, <2>1, <2>3, <2>7 DEF Sink
  <2>9. Ends(r) BY <1>1, <2>4, <2>5, <2>6, <2>8, OneMoreEnds
  <2>10. Toward(b, i, j)
    <3>1. b[j] = a[j] /\ j <= j BY <2>1
    <3> QED BY <2>1, <3>1 DEF Toward
  <2> QED BY <2>7, <2>9, <2>10
<1> QED BY <1>4, <1>5

(* What applyDedup makes of learnings none of which hide each other.       *)
Supersedes(a, ls, G) == Wise(a, G) /\ Relabelled(a, ls) /\ Keeps(a, ls)

(* One learning is compared with those behind it.                          *)
LEMMA ComparedEnds ==
  ASSUME NoneIsNoId, NEW ls, NEW G, Wise(ls, G), NEW i \in 1 .. Len(ls), ls[i].by = L!None
  PROVE  Supersedes(L!Compared(ls, i), ls, G)
<1> DEFINE n == Len(ls)
           Fit(a, j) == Keeps(a, ls) /\ Ends(By(a) \cup G) /\ Toward(a, i, j)
           V == [j \in 0 .. n |-> {a \in Seq(Entry) : Fit(a, j)}]
<1>1. ls \in Seq(Entry) /\ n \in Nat /\ Distinct(ls) /\ Loose(ls, G) /\ Ends(By(ls) \cup G)
  BY DEF Wise
<1>2. PICK u : Comparing(u, ls, i) /\ L!Compared(ls, i) = u[n] BY <1>1, ComparedRelabels
<1>3. ASSUME NEW j \in 0 .. n
      PROVE  /\ Relabelled(u[j], ls) /\ u[j] \in Seq(Entry) /\ Len(u[j]) = n
             /\ u[j] = IF j <= i THEN ls
                       ELSE IF L!Active(u[j - 1][j]) THEN L!MergePair(u[j - 1], i, j) ELSE u[j - 1]
  BY <1>2 DEF Comparing, Relabelled
<1>4. ASSUME NEW j \in 0 .. n, j <= i PROVE Fit(u[j], j)
  <2>1. u[j] = ls BY <1>3, <1>4
  <2>2. Keeps(ls, ls) /\ Toward(ls, i, j) BY DEF Keeps, Toward
  <2> QED BY <1>1, <2>1, <2>2
<1>5. ASSUME NEW j \in 1 .. n, Fit(u[j - 1], j - 1) PROVE Fit(u[j], j)
  <2>1. CASE j <= i
    <3>1. j \in 0 .. n BY <1>1
    <3> HIDE DEF Fit, n
    <3> QED BY <1>4, <2>1, <3>1
  <2>2. CASE ~(j <= i)
    <3>1. j - 1 \in 0 .. n /\ j \in 0 .. n /\ i # j BY <1>1, <2>2
    <3>2. PICK a, b : a = u[j - 1] /\ b = u[j] OBVIOUS
    <3>3. /\ a \in Seq(Entry) /\ Len(a) = n /\ Relabelled(a, ls)
          /\ Keeps(a, ls) /\ Ends(By(a) \cup G) /\ Toward(a, i, j - 1)
          /\ b = IF L!Active(a[j]) THEN L!MergePair(a, i, j) ELSE a
      BY <1>3, <1>5, <2>2, <3>1, <3>2
    <3>4. Distinct(a) /\ Loose(a, G) BY <1>1, <3>3, Stays
    <3>5. Sink(a[i].id, G)
      <4>1. Sink(ls[i].id, G) BY <1>1 DEF Loose
      <4> QED BY <3>3, <4>1 DEF Relabelled
    <3>6. CASE ~L!Active(a[j]) \/ <<a[i].id, a[j].id>> \notin Similar
      <4>1. b = a BY <3>3, <3>6 DEF L!MergePair
      <4>2. Toward(a, i, j)
        <5>1. \A m \in 1 .. Len(a) : m <= j - 1 => m <= j BY <3>3
        <5> QED BY <3>3, <5>1 DEF Toward
      <4> QED BY <3>2, <3>3, <4>1, <4>2
    <3>7. CASE L!Active(a[j]) /\ <<a[i].id, a[j].id>> \in Similar
      <4>1. a[j].by = L!None /\ j \in 1 .. Len(a) /\ i \in 1 .. Len(a) BY <3>3, <3>7 DEF L!Active
      <4>2. /\ Ends(By([a EXCEPT ![j].by = a[i].id]) \cup G)
            /\ Toward([a EXCEPT ![j].by = a[i].id], i, j)
            /\ Ends(By([a EXCEPT ![i].by = a[j].id]) \cup G)
            /\ Toward([a EXCEPT ![i].by = a[j].id], i, j)
        BY <3>1, <3>3, <3>4, <3>5, <4>1, PointingEnds
      <4>3. b \in {[a EXCEPT ![j].by = a[i].id], [a EXCEPT ![i].by = a[j].id]}
        BY <3>3, <3>7, Zenon DEF L!MergePair
      <4>4. ls[j].by = L!None BY <3>3, <4>1 DEF Keeps
      <4>5. Keeps(b, ls)
        <5>1. \A k \in 1 .. Len(ls) : k # i /\ k # j => b[k] = a[k] BY <3>3, <4>3
        <5> QED BY <3>3, <4>4, <5>1 DEF Keeps
      <4>6. Ends(By(b) \cup G) /\ Toward(b, i, j) BY <4>2, <4>3
      <4> QED BY <3>2, <4>5, <4>6
    <3> QED BY <3>6, <3>7
  <2> QED BY <2>1, <2>2
<1>6. \A j \in 0 .. n : u[j] \in V[j]
  <2>1. 0 \in 0 .. n /\ 0 <= i BY <1>1
  <2> HIDE DEF Fit, n
  <2>2. u[0] \in V[0] BY <1>3, <1>4, <2>1
  <2>3. ASSUME NEW j \in 1 .. n, u[j - 1] \in V[j - 1] PROVE u[j] \in V[j]
    <3>1. j \in 0 .. n /\ j - 1 \in 0 .. n BY <1>1
    <3>2. Fit(u[j - 1], j - 1) BY <2>3, <3>1
    <3>3. Fit(u[j], j) BY <1>5, <3>2
    <3> QED BY <1>3, <3>1, <3>3
  <2> HIDE DEF V
  <2> QED BY <1>1, <2>2, <2>3, UpTo
<1>7. Fit(u[n], n)
  <2>1. n \in 0 .. n BY <1>1
  <2> HIDE DEF Fit, n
  <2> QED BY <1>6, <2>1
<1>8. Relabelled(u[n], ls) /\ u[n] \in Seq(Entry)
  <2>1. n \in 0 .. n BY <1>1
  <2> QED BY <1>3, <2>1
<1>9. Distinct(u[n]) /\ Loose(u[n], G) BY <1>1, <1>7, <1>8, Stays
<1> QED BY <1>2, <1>7, <1>8, <1>9 DEF Supersedes, Wise

(* And so is each that is not superseded yet.                              *)
LEMMA DedupEnds ==
  ASSUME NoneIsNoId, NEW ls, NEW G, Wise(ls, G)
  PROVE  Supersedes(L!Dedup(ls), ls, G)
<1> DEFINE n == Len(ls)
           V == [i \in 0 .. n |-> {a \in Seq(Entry) : Supersedes(a, ls, G)}]
<1>1. ls \in Seq(Entry) /\ n \in Nat BY DEF Wise
<1>2. PICK u : Deduping(u, ls) /\ L!Dedup(ls) = u[n] BY <1>1, DedupRelabels
<1>3. ASSUME NEW i \in 0 .. n
      PROVE  /\ u[i] \in Seq(Entry) /\ Len(u[i]) = n
             /\ u[i] = IF i = 0 THEN ls
                       ELSE IF L!Active(u[i - 1][i]) THEN L!Compared(u[i - 1], i) ELSE u[i - 1]
  BY <1>2 DEF Deduping, Relabelled
<1>4. Supersedes(u[0], ls, G)
  <2>1. 0 \in 0 .. n BY <1>1
  <2>2. u[0] = ls BY <1>3, <2>1
  <2>3. Relabelled(ls, ls) /\ Keeps(ls, ls) BY <1>1, Relabels DEF Keeps
  <2> QED BY <2>2, <2>3 DEF Supersedes
<1>5. ASSUME NEW i \in 1 .. n, Supersedes(u[i - 1], ls, G) PROVE Supersedes(u[i], ls, G)
  <2>1. i - 1 \in 0 .. n /\ i \in 0 .. n /\ i # 0 BY <1>1
  <2>2. PICK a, b : a = u[i - 1] /\ b = u[i] OBVIOUS
  <2>3. /\ Supersedes(a, ls, G) /\ Len(a) = n
        /\ b = IF L!Active(a[i]) THEN L!Compared(a, i) ELSE a
    BY <1>3, <1>5, <2>1, <2>2
  <2>4. CASE ~L!Active(a[i]) BY <2>2, <2>3, <2>4
  <2>5. CASE L!Active(a[i])
    <3>1. Supersedes(b, a, G) BY <2>3, <2>5, ComparedEnds DEF L!Active, Supersedes
    <3>2. Relabelled(b, ls) BY <2>3, <3>1, Relabels DEF Supersedes
    <3>3. Keeps(b, ls) BY <2>3, <3>1 DEF Supersedes, Keeps
    <3> QED BY <2>2, <3>1, <3>2, <3>3 DEF Supersedes
  <2> QED BY <2>4, <2>5
<1>6. \A i \in 0 .. n : u[i] \in V[i]
  <2>1. 0 \in 0 .. n BY <1>1
  <2> HIDE DEF n
  <2>2. u[0] \in V[0] BY <1>3, <1>4, <2>1
  <2>3. ASSUME NEW i \in 1 .. n, u[i - 1] \in V[i - 1] PROVE u[i] \in V[i]
    <3>1. i \in 0 .. n /\ i - 1 \in 0 .. n BY <1>1
    <3>2. Supersedes(u[i], ls, G) BY <1>5, <2>3, <3>1
    <3> QED BY <1>3, <3>1, <3>2
  <2> HIDE DEF V
  <2> QED BY <1>1, <2>2, <2>3, UpTo
<1>7. n \in 0 .. n BY <1>1
<1> QED BY <1>2, <1>6, <1>7

(* What old supersedes, new does in the same way.                          *)
Follows(new, old) ==
  \A i \in 1 .. Len(new), j \in 1 .. Len(old) :
    new[i].id = old[j].id /\ old[j].by # L!None => new[i].by = old[j].by

(* Whoever reads ls over s reads no circle, and for s alone neither.       *)
Free(ls, s) == Ends(By(ls) \cup By(s)) /\ Follows(ls, s)

(* Ids are unique, and neither what is in the files nor what is about to   *)
(* be written over the shared one has a circle.                            *)
HideInv ==
  /\ Distinct(local) /\ Distinct(shared)
  /\ \A p \in Procs : Writing(p) => Distinct(job[p].new)
  /\ ~localFailed => /\ Free(local, shared)
                     /\ \A p \in Procs : job[p].pc = "local" => Free(job[p].new, shared)

(* What a command reads, and what it has to keep of it.                    *)
Reads(v, s) ==
  /\ v \in Seq(Entry) /\ Distinct(v) /\ Loose(v, By(s)) /\ Free(v, s)

(* The view of local and shared learnings is as needed.                    *)
LEMMA ViewReads ==
  ASSUME NoneIsNoId, LearnTypes, HideInv
  PROVE  Distinct(L!View) /\ (~localFailed => Reads(L!View, shared))
<1> DEFINE keep == {i \in DOMAIN shared : shared[i].id \notin L!IdsIn(local)}
           t == L!Select(shared, keep)
           v == local \o t
<1>1. L!View = v BY DEF L!View, L!Merge
<1>2. /\ local \in Seq(Entry) /\ shared \in Seq(Entry)
      /\ DOMAIN local = 1 .. Len(local) /\ DOMAIN shared = 1 .. Len(shared)
      /\ Distinct(local) /\ Distinct(shared)
  BY DEF LearnTypes, FileOK, HideInv
<1>3. t \in Seq(Entry) /\ Selection(t, shared, keep) /\ Distinct(t)
  <2> HIDE DEF keep
  <2> QED BY <1>2, Selected
<1>4. \A i \in 1 .. Len(t) : \E j \in 1 .. Len(shared) :
        t[i] = shared[j] /\ \A k \in 1 .. Len(local) : local[k].id # shared[j].id
  <2> TAKE i \in 1 .. Len(t)
  <2>1. PICK j \in 1 .. Len(shared) : j \in keep /\ t[i] = shared[j] BY <1>3 DEF Selection
  <2> QED BY <1>2, <2>1 DEF L!IdsIn
<1> HIDE DEF keep, t
<1>5. /\ v \in Seq(Entry) /\ Len(v) = Len(local) + Len(t)
      /\ Len(local) \in Nat /\ Len(t) \in Nat
      /\ \A i \in 1 .. Len(local) + Len(t) :
           v[i] = IF i <= Len(local) THEN local[i] ELSE t[i - Len(local)]
  BY <1>2, <1>3, ConcatProperties
<1> HIDE DEF v
<1>6. ASSUME NEW i \in 1 .. Len(v)
      PROVE  \/ i \in 1 .. Len(local) /\ v[i] = local[i]
             \/ /\ i - Len(local) \in 1 .. Len(t) /\ v[i] = t[i - Len(local)]
                /\ \E j \in 1 .. Len(shared) :
                     v[i] = shared[j] /\ \A k \in 1 .. Len(local) : local[k].id # v[i].id
  <2>1. CASE i <= Len(local)
    <3>1. i \in 1 .. Len(local) /\ v[i] = local[i] BY <1>5, <2>1
    <3> QED BY <3>1
  <2>2. CASE ~(i <= Len(local))
    <3>1. i - Len(local) \in 1 .. Len(t) /\ v[i] = t[i - Len(local)] BY <1>5, <2>2
    <3> QED BY <1>4, <3>1
  <2> QED BY <2>1, <2>2
<1>7. Distinct(v)
  <2> SUFFICES ASSUME NEW i \in 1 .. Len(v), NEW j \in 1 .. Len(v), v[i].id = v[j].id
               PROVE  i = j
    BY DEF Distinct
  <2>1. CASE i \in 1 .. Len(local) /\ v[i] = local[i] /\ j \in 1 .. Len(local) /\ v[j] = local[j]
    BY <1>2, <2>1 DEF Distinct
  <2>2. CASE /\ i - Len(local) \in 1 .. Len(t) /\ v[i] = t[i - Len(local)]
             /\ j - Len(local) \in 1 .. Len(t) /\ v[j] = t[j - Len(local)]
    <3>1. i - Len(local) = j - Len(local) BY <1>3, <2>2 DEF Distinct
    <3> QED BY <1>5, <3>1
  <2> QED BY <1>6, <2>1, <2>2
<1>8. ASSUME ~localFailed PROVE Reads(v, shared)
  <2>1. Ends(By(local) \cup By(shared)) /\ Follows(local, shared) BY <1>8 DEF HideInv, Free
  <2>2. Follows(v, shared)
    <3> SUFFICES ASSUME NEW i \in 1 .. Len(v), NEW j \in 1 .. Len(shared),
                        v[i].id = shared[j].id, shared[j].by # L!None
                 PROVE  v[i].by = shared[j].by
      BY DEF Follows
    <3>1. CASE i \in 1 .. Len(local) /\ v[i] = local[i] BY <2>1, <3>1 DEF Follows
    <3>2. ASSUME NEW k \in 1 .. Len(shared), v[i] = shared[k] PROVE v[i].by = shared[j].by
      BY <1>2, <3>2 DEF Distinct
    <3> QED BY <1>6, <3>1, <3>2
  <2>3. Loose(v, By(shared))
    <3> SUFFICES ASSUME NEW i \in 1 .. Len(v), v[i].by = L!None, NEW y \in Ids,
                        <<v[i].id, y>> \in By(shared)
                 PROVE  FALSE
      BY DEF Loose, Sink
    <3>1. PICK j \in 1 .. Len(shared) : shared[j].id = v[i].id /\ shared[j].by = y BY DEF By
    <3> QED BY <2>2, <3>1 DEF Follows, NoneIsNoId
  <2>4. Ends(By(v) \cup By(shared))
    <3>1. ASSUME NEW x \in Ids, NEW y \in Ids, <<x, y>> \in By(v) \cup By(shared)
          PROVE  <<x, y>> \in By(local) \cup By(shared)
      <4>1. CASE <<x, y>> \in By(shared) BY <4>1
      <4>2. CASE <<x, y>> \in By(v)
        <5>1. PICK i \in 1 .. Len(v) : v[i].id = x /\ v[i].by = y BY <4>2 DEF By
        <5>2. CASE i \in 1 .. Len(local) /\ v[i] = local[i]
          <6>1. <<x, y>> \in By(local) BY <5>1, <5>2 DEF By
          <6> QED BY <6>1
        <5>3. ASSUME NEW j \in 1 .. Len(shared), v[i] = shared[j]
              PROVE  <<x, y>> \in By(local) \cup By(shared)
          <6>1. <<x, y>> \in By(shared) BY <5>1, <5>3 DEF By
          <6> QED BY <6>1
        <5> QED BY <1>6, <5>2, <5>3
      <4> QED BY <3>1, <4>1, <4>2
    <3> QED BY <2>1, <3>1, FewerEnd
  <2> QED BY <1>5, <1>7, <2>2, <2>3, <2>4 DEF Reads, Free
<1> QED BY <1>1, <1>7, <1>8

(* What of it is written without new arrows leaves none in a circle.       *)
LEMMA PartFree ==
  ASSUME NEW v, NEW s, Reads(v, s), NEW new,
         \A i \in 1 .. Len(new) :
           \/ new[i].by = L!None /\ \A j \in 1 .. Len(s) : s[j].id # new[i].id
           \/ \E j \in 1 .. Len(v) : new[i].id = v[j].id /\ new[i].by = v[j].by,
         NoneIsNoId
  PROVE  Free(new, s)
<1>1. ASSUME NEW x \in Ids, NEW y \in Ids, <<x, y>> \in By(new) \cup By(s)
      PROVE  <<x, y>> \in By(v) \cup By(s)
  <2>1. CASE <<x, y>> \in By(s) BY <2>1
  <2>2. CASE <<x, y>> \in By(new)
    <3>1. PICK i \in 1 .. Len(new) : new[i].id = x /\ new[i].by = y BY <2>2 DEF By
    <3>2. PICK j \in 1 .. Len(v) : v[j].id = x /\ v[j].by = y BY <3>1 DEF NoneIsNoId
    <3>3. <<x, y>> \in By(v) BY <3>2 DEF By
    <3> QED BY <3>3
  <2> QED BY <1>1, <2>1, <2>2
<1>2. Ends(By(v) \cup By(s)) BY DEF Reads, Free
<1>3. Ends(By(new) \cup By(s)) BY <1>1, <1>2, FewerEnd
<1>4. Follows(new, s) BY DEF Reads, Free, Follows
<1> QED BY <1>3, <1>4 DEF Free

(* Maintenance makes no circle.                                            *)
LEMMA MaintainedFree ==
  ASSUME NoneIsNoId, NEW v \in Seq(Entry), Distinct(v), NEW s
  PROVE  /\ Distinct(L!Maintained(v))
         /\ Reads(v, s) => Free(L!Maintained(v), s)
<1> DEFINE d == L!Dedup(v)
           E(i) == [d[i] EXCEPT !.expired = d[i].expired \/
                                  (d[i].by = L!None /\ now - d[i].last > Expiry)]
           e == L!Expire(d)
           keep == {i \in DOMAIN e : L!Active(e[i]) \/ now - e[i].created <= MaxAge}
           m == L!Select(e, keep)
<1>1. Relabelled(d, v) BY DedupRelabels
<1>2. m = L!Maintained(v) BY DEF L!Maintained, L!Collect
<1> HIDE DEF d
<1>3. d \in Seq(Entry) /\ Len(d) = Len(v) /\ DOMAIN d = 1 .. Len(v) /\ Len(v) \in Nat
      /\ \A i \in 1 .. Len(v) : d[i].id = v[i].id
  BY <1>1 DEF Relabelled
<1>4. ASSUME NEW i \in 1 .. Len(v)
      PROVE  E(i) \in Entry /\ E(i).id = d[i].id /\ E(i).by = d[i].by
  <2>1. d[i] \in Entry BY <1>3
  <2> DEFINE old == d[i].expired \/ (d[i].by = L!None /\ now - d[i].last > Expiry)
  <2>2. old \in BOOLEAN BY <2>1 DEF Entry
  <2> HIDE DEF old
  <2>3. [d[i] EXCEPT !.expired = old] \in Entry BY <2>1, <2>2 DEF Entry
  <2>4. /\ [d[i] EXCEPT !.expired = old].id = d[i].id
        /\ [d[i] EXCEPT !.expired = old].by = d[i].by
    BY <2>1 DEF Entry
  <2> QED BY <2>3, <2>4 DEF old
<1>5. e = [i \in 1 .. Len(v) |-> E(i)] BY <1>3 DEF L!Expire
<1> HIDE DEF E
<1>6. /\ e \in Seq(Entry) /\ Len(e) = Len(v) /\ \A i \in 1 .. Len(v) : e[i] = E(i)
  <2>1. \A i \in 1 .. Len(v) : E(i) \in Entry BY <1>4
  <2> HIDE DEF e
  <2> QED BY <1>3, <1>5, <2>1
<1>7. m \in Seq(Entry) /\ Selection(m, e, keep) /\ (Distinct(e) => Distinct(m))
  <2> HIDE DEF e, keep
  <2> QED BY <1>6, Selected
<1>8. Distinct(e) BY <1>3, <1>4, <1>6 DEF Distinct
<1>9. \A i \in 1 .. Len(m) : \E j \in 1 .. Len(d) : m[i].id = d[j].id /\ m[i].by = d[j].by
  <2> HIDE DEF e, keep, m
  <2> TAKE i \in 1 .. Len(m)
  <2>1. PICK j \in 1 .. Len(v) : m[i] = e[j] BY <1>6, <1>7 DEF Selection
  <2> QED BY <1>3, <1>4, <1>6, <2>1
<1> HIDE DEF m, e, keep
<1>10. ASSUME Reads(v, s) PROVE Free(m, s)
  <2>1. Wise(v, By(s)) BY <1>10 DEF Reads, Wise, Free
  <2>2. Supersedes(d, v, By(s)) BY <2>1, DedupEnds DEF d
  <2>3. Wise(d, By(s)) /\ Keeps(d, v) BY <2>2 DEF Supersedes
  <2>4. Follows(d, s)
    <3>1. Follows(v, s) BY <1>10 DEF Reads, Free
    <3> QED BY <1>3, <2>3, <3>1 DEF Follows, Keeps
  <2>5. Reads(d, s) BY <2>3, <2>4 DEF Reads, Wise, Free
  <2> QED BY <1>9, <2>5, PartFree
<1> QED BY <1>2, <1>7, <1>8, <1>10

(* What holds of the next values holds next.                               *)
LEMMA FreeNext ==
  /\ Free(local', shared') => Free(local, shared)'
  /\ \A q \in Procs : Free(job'[q].new, shared') => Free(job[q].new, shared)'
<1>1. Free(local', shared') => Free(local, shared)' BY DEF Free, Ends, By, Follows
<1>2. ASSUME NEW q \in Procs, Free(job'[q].new, shared') PROVE Free(job[q].new, shared)'
  BY <1>2 DEF Free, Ends, By, Follows
<1> QED BY <1>1, <1>2

(* A step of p, who has the lock or takes it.                              *)
LEMMA HideStep ==
  ASSUME SameAge, LearnInv, NEW p \in Procs, lock = p \/ lock = NoProc,
         \A q \in Procs \ {p} : job'[q] = job[q],
         Distinct(local'), Distinct(shared'),
         job'[p].pc \in {"local", "shared"} => Distinct(job'[p].new),
         ~localFailed' => /\ Free(local', shared')
                          /\ job'[p].pc = "local" => Free(job'[p].new, shared')
  PROVE  HideInv'
<1>1. ASSUME NEW q \in Procs \ {p} PROVE job'[q].pc = "idle"
  <2>1. job'[q] = L!Idle BY OthersIdle
  <2> QED BY <2>1 DEF L!Idle
<1>2. \A q \in Procs : job'[q].pc \in {"local", "shared"} => q = p BY <1>1
<1>3. \A q \in Procs : job'[q].pc \in {"local", "shared"} => Distinct(job'[q].new) BY <1>2
<1>4. ~localFailed' => \A q \in Procs : job'[q].pc = "local" => Free(job'[q].new, shared')
  BY <1>2
<1>5. Distinct(local)' /\ Distinct(shared)' BY DEF Distinct
<1>6. \A q \in Procs : Writing(q)' => Distinct(job[q].new)' BY <1>3 DEF Distinct, Writing
<1> QED BY <1>4, <1>5, <1>6, FreeNext DEF HideInv

(* What a command that begins has read.                                    *)
LEMMA HideBegin ==
  ASSUME SameAge, NoneIsNoId, LearnInv, HideInv, NEW p \in Procs,
         \/ L!Add(p) \/ L!Maintain(p) \/ L!Repair(p)
         \/ \E ids \in SUBSET L!IdsIn(L!View), passed \in BOOLEAN : L!RecordOutcome(p, ids, passed)
  PROVE  HideInv'
<1>1. LearnTypes BY DEF LearnInv
<1>2. PICK v, s : v = L!View /\ s = shared OBVIOUS
<1>3. /\ Distinct(v) /\ (~localFailed => Reads(v, s))
      /\ v \in Seq(Entry) /\ FileOK(v) /\ FileOK(s)
  BY <1>1, <1>2, ViewReads, Viewed DEF FileOK, LearnTypes
<1>4. ASSUME NEW op, NEW ids, NEW new, L!Begin(p, op, ids, new), Distinct(new),
             ~localFailed => Free(new, s)
      PROVE  HideInv'
  <2>1. /\ lock = NoProc /\ local' = local /\ shared' = s /\ localFailed' = localFailed
        /\ job' = [job EXCEPT ![p] = [pc |-> "local", op |-> op, ids |-> ids, at |-> now, new |-> new]]
    BY <1>2, <1>4 DEF L!Begin
  <2>2. job'[p].new = new /\ job'[p].pc = "local" /\ \A q \in Procs \ {p} : job'[q] = job[q]
    BY <1>1, <2>1 DEF LearnTypes
  <2>3. Distinct(local) /\ Distinct(s) /\ (~localFailed => Free(local, s)) BY <1>2 DEF HideInv
  <2> QED BY <1>4, <2>1, <2>2, <2>3, HideStep
<1>5. CASE L!Add(p)
  <2>1. PICK id \in Ids \ added : L!Begin(p, "add", {id}, Append(L!View, L!New(id)))
    BY <1>5 DEF L!Add
  <2>2. PICK e : e = L!New(id) OBVIOUS
  <2>3. e \in Entry /\ e.id = id /\ e.by = L!None
    <3>1. now \in Nat BY <1>1 DEF LearnTypes
    <3> QED BY <2>2, <3>1 DEF L!New, Entry
  <2>4. PICK new : new = Append(v, e) OBVIOUS
  <2>5. /\ Len(new) = Len(v) + 1 /\ Len(v) \in Nat /\ new[Len(v) + 1] = e
        /\ \A i \in 1 .. Len(v) : new[i] = v[i]
    BY <1>3, <2>3, <2>4
  <2>6. \A i \in 1 .. Len(new) : i = Len(v) + 1 \/ i \in 1 .. Len(v) BY <2>5
  <2>7. /\ \A i \in 1 .. Len(v) : v[i].id # id
        /\ \A i \in 1 .. Len(s) : s[i].id # id
    BY <1>3, Entries
  <2>8. Distinct(new) BY <1>3, <2>3, <2>5, <2>6, <2>7 DEF Distinct
  <2>9. ASSUME Reads(v, s) PROVE Free(new, s)
    <3>1. \A i \in 1 .. Len(new) :
            \/ new[i].by = L!None /\ \A j \in 1 .. Len(s) : s[j].id # new[i].id
            \/ \E j \in 1 .. Len(v) : new[i].id = v[j].id /\ new[i].by = v[j].by
      BY <2>3, <2>5, <2>6, <2>7
    <3> QED BY <2>9, <3>1, PartFree
  <2> QED BY <1>2, <1>3, <1>4, <2>1, <2>2, <2>4, <2>8, <2>9
<1>6. CASE L!Maintain(p)
  <2>1. PICK new : new = L!Maintained(v) OBVIOUS
  <2>2. Distinct(new) /\ (Reads(v, s) => Free(new, s)) BY <1>3, <2>1, MaintainedFree
  <2>3. L!Begin(p, "maintain", {}, new) BY <1>2, <1>6, <2>1 DEF L!Maintain
  <2> QED BY <1>3, <1>4, <2>2, <2>3
<1>7. CASE L!Repair(p)
  <2>1. L!Begin(p, "repair", {}, v) BY <1>2, <1>7 DEF L!Repair
  <2>2. Reads(v, s) => Free(v, s) BY DEF Reads
  <2> QED BY <1>3, <1>4, <2>1, <2>2
<1>8. ASSUME NEW ids \in SUBSET L!IdsIn(L!View), NEW passed \in BOOLEAN, L!RecordOutcome(p, ids, passed)
      PROVE  HideInv'
  <2>1. PICK new : new = L!WithOutcome(v, ids, passed) OBVIOUS
  <2>2. Len(new) = Len(v) /\ \A i \in 1 .. Len(v) : new[i].id = v[i].id /\ new[i].by = v[i].by
    <3> DEFINE E(i) == IF v[i].id \notin ids THEN v[i]
                       ELSE [v[i] EXCEPT !.attach = v[i].attach + 1,
                               !.success = IF passed THEN v[i].success + 1 ELSE v[i].success,
                               !.last = now]
    <3>1. DOMAIN v = 1 .. Len(v) /\ Len(v) \in Nat BY <1>3
    <3>2. new = [i \in 1 .. Len(v) |-> E(i)] BY <2>1, <3>1 DEF L!WithOutcome
    <3>3. ASSUME NEW i \in 1 .. Len(v) PROVE E(i).id = v[i].id /\ E(i).by = v[i].by
      <4>1. v[i] \in Entry BY <1>3
      <4> QED BY <4>1 DEF Entry
    <3> HIDE DEF E
    <3>4. Len(new) = Len(v) BY <3>1, <3>2
    <3> QED BY <3>2, <3>3, <3>4
  <2>3. Distinct(new) BY <1>3, <2>2 DEF Distinct
  <2>4. Reads(v, s) => Free(new, s) BY <2>2, PartFree
  <2>5. L!Begin(p, "outcome", ids, new) BY <1>2, <1>8, <2>1 DEF L!RecordOutcome
  <2> QED BY <1>3, <1>4, <2>3, <2>4, <2>5
<1> QED BY <1>5, <1>6, <1>7, <1>8

(* Writing what was decided, and what comes after.                         *)
LEMMA HideWrites ==
  ASSUME SameAge, LearnInv, HideInv, NEW p \in Procs,
         \/ L!WriteLocal(p) \/ L!LocalFails(p) \/ L!WriteShared(p)
         \/ L!Index(p) \/ L!Prevent(p) \/ L!Crash(p)
  PROVE  HideInv'
<1>1. LearnTypes /\ JobOK(p) /\ job \in [Procs -> Updating] /\ job[p] \in Updating
  BY DEF LearnInv, LearnTypes
<1>2. PICK n, s, l : n = job[p].new /\ s = shared /\ l = local OBVIOUS
<1>3. /\ Distinct(l) /\ Distinct(s) /\ (Writing(p) => Distinct(n))
      /\ ~localFailed => Free(l, s) /\ (job[p].pc = "local" => Free(n, s))
  BY <1>2 DEF HideInv
<1>4. lock = p
  <2>1. job[p] # L!Idle
    BY DEF L!WriteLocal, L!LocalFails, L!WriteShared, L!Index, L!Prevent, L!Crash, L!Idle
  <2> QED BY <1>1, <2>1 DEF JobOK
<1>5. CASE L!WriteLocal(p) \/ L!LocalFails(p)
  <2> DEFINE j == [job[p] EXCEPT !.pc = "shared"]
  <2>1. j.pc = "shared" /\ j.new = n BY <1>1, <1>2 DEF Updating
  <2>2. /\ job' = [job EXCEPT ![p] = j] /\ shared' = s /\ job[p].pc = "local"
        /\ \/ local' = n /\ localFailed' = localFailed
           \/ local' = l /\ localFailed' = TRUE
    BY <1>2, <1>5 DEF L!WriteLocal, L!LocalFails
  <2> HIDE DEF j
  <2>3. job'[p] = j /\ \A q \in Procs \ {p} : job'[q] = job[q] BY <1>1, <2>2
  <2>4. Distinct(n) BY <1>3, <2>2 DEF Writing
  <2> QED BY <1>3, <1>4, <2>1, <2>2, <2>3, <2>4, HideStep
<1>6. CASE L!WriteShared(p)
  <2> DEFINE j == IF job[p].op = "outcome" THEN L!Idle ELSE [job[p] EXCEPT !.pc = "index"]
  <2>1. j.pc \in {"idle", "index"} BY <1>1 DEF Updating, L!Idle
  <2>2. /\ job' = [job EXCEPT ![p] = j] /\ shared' = n /\ local' = l /\ job[p].pc = "shared"
        /\ localFailed' = localFailed
    BY <1>2, <1>6 DEF L!WriteShared
  <2> HIDE DEF j
  <2>3. job'[p] = j /\ \A q \in Procs \ {p} : job'[q] = job[q] BY <1>1, <2>2
  <2>4. Distinct(n) BY <1>3, <2>2 DEF Writing
  <2>5. ASSUME ~localFailed PROVE Free(l, n)
    <3>1. l = n BY <1>2, <2>2, <2>5 DEF LearnInv, Noted, Writing
    <3>2. Ends(By(l) \cup By(s)) BY <1>3, <2>5 DEF Free
    <3>3. Ends(By(l) \cup By(n)) BY <3>1, <3>2, FewerEnd
    <3>4. Follows(l, n) BY <2>4, <3>1 DEF Follows, Distinct
    <3> QED BY <3>3, <3>4 DEF Free
  <2> QED BY <1>3, <1>4, <2>1, <2>2, <2>3, <2>4, <2>5, HideStep
<1>7. CASE L!Index(p) \/ L!Prevent(p) \/ L!Crash(p)
  <2>1. PICK j : job' = [job EXCEPT ![p] = j] /\ j.pc \in {"idle", "prevent"}
    <3>1. L!Idle.pc = "idle" BY DEF L!Idle
    <3>2. [job[p] EXCEPT !.pc = "prevent"].pc = "prevent" BY <1>1 DEF Updating
    <3>3. \E j \in {L!Idle, [job[p] EXCEPT !.pc = "prevent"]} : job' = [job EXCEPT ![p] = j]
      BY <1>7 DEF L!Index, L!Prevent, L!Crash
    <3> QED BY <3>1, <3>2, <3>3
  <2>2. local' = l /\ shared' = s /\ localFailed' = localFailed
    BY <1>2, <1>7 DEF L!Index, L!Prevent, L!Crash
  <2>3. job'[p] = j /\ \A q \in Procs \ {p} : job'[q] = job[q] BY <1>1, <2>1
  <2> QED BY <1>3, <1>4, <2>1, <2>2, <2>3, HideStep
<1> QED BY <1>5, <1>6, <1>7

(* Arithmetic of a list that starts one later.                             *)
LEMMA OneMore == \A x, y \in Nat : (x + 1) + y - 1 = x + y
  OBVIOUS

(* A list without its k-th.                                                *)
LEMMA Removed ==
  ASSUME NEW ls \in Seq(Entry), NEW k \in 1 .. Len(ls)
  PROVE  \A n : n = L!RemoveAt(ls, k) =>
           /\ Len(n) = Len(ls) - 1 /\ Len(ls) \in Nat
           /\ \A i \in 1 .. Len(n) : n[i] = ls[IF i < k THEN i ELSE i + 1]
<1> DEFINE a == SubSeq(ls, 1, k - 1)
           b == SubSeq(ls, k + 1, Len(ls))
<1>1. Len(ls) \in Nat /\ 1 <= k /\ k <= Len(ls) /\ k \in Nat OBVIOUS
<1>2. /\ a \in Seq(Entry) /\ Len(a) = k - 1 /\ \A i \in 1 .. k - 1 : a[i] = ls[i]
  <2>1. 1 \in 1 .. Len(ls) + 1 /\ k - 1 \in 0 .. Len(ls) BY <1>1
  <2>2. /\ a \in Seq(Entry) /\ Len(a) = (IF 1 <= k - 1 THEN k - 1 - 1 + 1 ELSE 0)
        /\ \A i \in 1 .. k - 1 - 1 + 1 : a[i] = ls[1 + i - 1]
    BY <2>1, SubSeqProperties
  <2> HIDE DEF a
  <2>3. k - 1 - 1 + 1 = k - 1 /\ \A i \in 1 .. k - 1 : 1 + i - 1 = i BY <1>1
  <2> QED BY <1>1, <2>2, <2>3
<1>3. /\ b \in Seq(Entry) /\ Len(b) = Len(ls) - k
      /\ \A i \in 1 .. Len(ls) - k : b[i] = ls[k + i]
  <2>1. k + 1 \in 1 .. Len(ls) + 1 /\ Len(ls) \in 0 .. Len(ls) BY <1>1
  <2>2. /\ b \in Seq(Entry) /\ Len(b) = (IF k + 1 <= Len(ls) THEN Len(ls) - (k + 1) + 1 ELSE 0)
        /\ \A i \in 1 .. Len(ls) - (k + 1) + 1 : b[i] = ls[(k + 1) + i - 1]
    BY <2>1, SubSeqProperties
  <2> HIDE DEF b
  <2>3. Len(ls) - (k + 1) + 1 = Len(ls) - k BY <1>1
  <2>4. Len(b) = Len(ls) - k BY <1>1, <2>2
  <2>5. ASSUME NEW i \in 1 .. Len(ls) - k PROVE b[i] = ls[k + i]
    <3>0. k \in Nat /\ i \in Nat
      <4>1. \A m \in Int : \A h \in 1 .. m : h \in Nat OBVIOUS
      <4>2. Len(ls) - k \in Int BY <1>1
      <4> QED BY <1>1, <4>1, <4>2, Zenon
    <3>1. (k + 1) + i - 1 = k + i
      <4>1. PICK x \in Nat, y \in Nat : x = k /\ y = i BY <3>0, Zenon
      <4>2. (x + 1) + y - 1 = x + y BY OneMore
      <4> QED BY <4>1, <4>2, Zenon
    <3>2. b[i] = ls[(k + 1) + i - 1] BY <2>2, <2>3, Zenon
    <3> QED BY <3>1, <3>2
  <2> QED BY <2>2, <2>4, <2>5
<1>4. L!RemoveAt(ls, k) = a \o b BY DEF L!RemoveAt
<1> HIDE DEF a, b
<1> SUFFICES ASSUME NEW n, n = a \o b
             PROVE  /\ Len(n) = Len(ls) - 1 /\ Len(ls) \in Nat
                    /\ \A i \in 1 .. Len(n) : n[i] = ls[IF i < k THEN i ELSE i + 1]
  BY <1>4
<1>5. /\ Len(n) = Len(a) + Len(b)
      /\ \A i \in 1 .. Len(a) + Len(b) : n[i] = IF i <= Len(a) THEN a[i] ELSE b[i - Len(a)]
  BY <1>2, <1>3, ConcatProperties
<1>6. Len(n) = Len(ls) - 1 BY <1>1, <1>2, <1>3, <1>5
<1>7. ASSUME NEW i \in 1 .. Len(n) PROVE n[i] = ls[IF i < k THEN i ELSE i + 1]
  <2>1. CASE i < k
    <3>1. i \in 1 .. k - 1 /\ i <= Len(a) BY <1>1, <1>2, <1>6, <2>1
    <3>2. i \in 1 .. Len(a) + Len(b) BY <1>5
    <3> QED BY <1>2, <1>5, <2>1, <3>1, <3>2
  <2>2. CASE ~(i < k)
    <3>1. i - Len(a) \in 1 .. Len(ls) - k /\ ~(i <= Len(a)) /\ k + (i - Len(a)) = i + 1
      BY <1>1, <1>2, <1>6, <2>2
    <3>2. i \in 1 .. Len(a) + Len(b) BY <1>5
    <3>3. n[i] = b[i - Len(a)] BY <1>5, <3>1, <3>2
    <3>4. b[i - Len(a)] = ls[k + (i - Len(a))] BY <1>3, <3>1
    <3> QED BY <2>2, <3>1, <3>3, <3>4
  <2> QED BY <2>1, <2>2
<1> QED BY <1>1, <1>6, <1>7

(* All steps keep the invariant, which holds of empty files.               *)
LEMMA HideNext ==
  ASSUME SameAge, NoneIsNoId, LearnInv, HideInv, [L!Next]_(L!storeVars)
  PROVE  HideInv'
<1>1. CASE UNCHANGED <<local, shared, job, localFailed>>
  <2>1. Distinct(local)' /\ Distinct(shared)' BY <1>1 DEF HideInv, Distinct
  <2>2. \A q \in Procs : Writing(q)' => Distinct(job[q].new)'
    BY <1>1 DEF HideInv, Writing, Distinct
  <2>3. /\ Free(local, shared) => Free(local', shared')
        /\ \A q \in Procs : Free(job[q].new, shared) => Free(job'[q].new, shared')
    BY <1>1
  <2>4. /\ Free(local, shared) => Free(local, shared)'
        /\ \A q \in Procs : Free(job[q].new, shared) => Free(job[q].new, shared)'
    BY <2>3, FreeNext
  <2> QED BY <1>1, <2>1, <2>2, <2>4 DEF HideInv
<1>2. CASE UNCHANGED L!storeVars \/ L!Tick BY <1>1, <1>2 DEF L!storeVars, L!Tick
<1>3. CASE L!BadMerge
  <2>1. PICK s, n : s = shared /\ n = shared' OBVIOUS
  <2>2. /\ LearnTypes /\ lock = NoProc /\ s \in Seq(Entry)
        /\ UNCHANGED <<local, job, localFailed>>
    BY <1>3, <2>1 DEF LearnInv, LearnTypes, FileOK, L!BadMerge
  <2>3. PICK k \in 1 .. Len(s) : n = L!RemoveAt(s, k)
    <3>1. DOMAIN s = 1 .. Len(s) BY <2>2
    <3> QED BY <1>3, <2>1, <3>1 DEF L!BadMerge
  <2>4. /\ Len(n) = Len(s) - 1 /\ Len(s) \in Nat
        /\ \A i \in 1 .. Len(n) : n[i] = s[IF i < k THEN i ELSE i + 1]
    BY <2>2, <2>3, Removed
  <2>5. \A i \in 1 .. Len(n) : (IF i < k THEN i ELSE i + 1) \in 1 .. Len(s) BY <2>4
  <2>6. Distinct(n)
    <3> SUFFICES ASSUME NEW i \in 1 .. Len(n), NEW j \in 1 .. Len(n), n[i].id = n[j].id
                 PROVE  i = j
      BY DEF Distinct
    <3>1. Distinct(s) BY <2>1 DEF HideInv
    <3>2. (IF i < k THEN i ELSE i + 1) = (IF j < k THEN j ELSE j + 1)
      BY <2>4, <2>5, <3>1, Zenon DEF Distinct
    <3> QED BY <2>4, <3>2
  <2>7. \A i \in 1 .. Len(n) : \E m \in 1 .. Len(s) : n[i] = s[m] BY <2>4, <2>5
  <2>8. PICK l : l = local OBVIOUS
  <2>9. Distinct(l) /\ (~localFailed => Free(l, s)) BY <2>1, <2>8 DEF HideInv
  <2>10. ASSUME Free(l, s) PROVE Free(l, n)
    <3>1. Follows(l, n)
      <4> SUFFICES ASSUME NEW i \in 1 .. Len(l), NEW j \in 1 .. Len(n),
                          l[i].id = n[j].id, n[j].by # L!None
                   PROVE  l[i].by = n[j].by
        BY DEF Follows
      <4>1. PICK m \in 1 .. Len(s) : n[j] = s[m] BY <2>7
      <4>2. Follows(l, s) BY <2>10 DEF Free
      <4> QED BY <4>1, <4>2 DEF Follows
    <3>2. \A x \in Ids, y \in Ids : <<x, y>> \in By(l) \cup By(n) => <<x, y>> \in By(l) \cup By(s)
      <4>1. \A x \in Ids, y \in Ids : <<x, y>> \in By(n) => <<x, y>> \in By(s) BY <2>7 DEF By
      <4> QED BY <4>1
    <3>3. Ends(By(l) \cup By(s)) BY <2>10 DEF Free
    <3>4. Ends(By(l) \cup By(n)) BY <3>2, <3>3, FewerEnd
    <3> QED BY <3>1, <3>4 DEF Free
  <2>11. ASSUME NEW p \in Procs PROVE HideInv'
    <3>1. job[p] = L!Idle BY <2>2 DEF LearnInv, JobOK, SameAge
    <3>2. job'[p].pc = "idle" BY <2>2, <3>1 DEF L!Idle
    <3> QED BY <2>1, <2>2, <2>6, <2>8, <2>9, <2>10, <3>2, HideStep
  <2>12. Distinct(local)' /\ Distinct(shared)' BY <2>1, <2>2, <2>6, <2>8, <2>9 DEF Distinct
  <2>13. ~localFailed' => Free(local, shared)'
    <3>1. ~localFailed => Free(l, n) BY <2>9, <2>10
    <3>2. Free(l, n) => Free(local', shared') BY <2>1, <2>2, <2>8
    <3> QED BY <2>2, <3>1, <3>2, FreeNext
  <2> QED BY <2>11, <2>12, <2>13 DEF HideInv
<1>4. ASSUME NEW p \in Procs, L!Step(p) PROVE HideInv'
  <2>1. (SUBSET L!IdsIn(L!View)) \ {{}} \subseteq SUBSET L!IdsIn(L!View) OBVIOUS
  <2> QED BY <1>4, <2>1, HideBegin, HideWrites DEF L!Step
<1> QED BY <1>2, <1>3, <1>4 DEF L!Next

(* Empty files hide nothing.                                               *)
LEMMA HideInit ==
  ASSUME L!Init
  PROVE  HideInv
<1>1. Len(<<>>) = 0 OBVIOUS
<1>2. local = <<>> /\ shared = <<>> /\ \A p \in Procs : job[p].pc = "idle"
  BY DEF L!Init, L!Idle
<1>3. Ends(By(local) \cup By(shared)) BY <1>1, <1>2 DEF Ends, By
<1>4. Free(local, shared) BY <1>1, <1>2, <1>3 DEF Free, Follows
<1> QED BY <1>1, <1>2, <1>4 DEF HideInv, Distinct, Writing

(* The set X in which all are superseded by another of X has no end.       *)
LEMMA Hides ==
  ASSUME NoneIsNoId, LearnInv, HideInv
  PROVE  L!SupersessionEnds
<1> SUFFICES ASSUME ~localFailed, NEW X \in SUBSET L!IdsIn(L!View), X # {}
             PROVE  \E i \in DOMAIN L!View : L!View[i].id \in X /\ L!View[i].by \notin X
  BY DEF L!SupersessionEnds
<1>1. PICK v, s : v = L!View /\ s = shared OBVIOUS
<1>2. Reads(v, s) /\ L!IdsIn(v) \subseteq Ids
  BY <1>1, ViewReads, Viewed DEF LearnInv, LearnTypes
<1>3. v \in Seq(Entry) /\ DOMAIN v = 1 .. Len(v) /\ Distinct(v) /\ Ends(By(v) \cup By(s))
  BY <1>2 DEF Reads, Free
<1>4. X \subseteq Ids BY <1>1, <1>2
<1>5. PICK x \in X : \A y \in X : <<x, y>> \notin By(v) \cup By(s) BY <1>3, <1>4 DEF Ends
<1>6. PICK i \in 1 .. Len(v) : v[i].id = x BY <1>1, <1>3 DEF L!IdsIn
<1>7. v[i].by \notin X
  <2> SUFFICES ASSUME v[i].by \in X PROVE FALSE OBVIOUS
  <2>1. <<x, v[i].by>> \in By(v) BY <1>3, <1>4, <1>6, Arrows
  <2> QED BY <1>5, <2>1
<1> QED BY <1>1, <1>3, <1>6, <1>7

(* Whoever follows superseded_by arrives at a learning that is not         *)
(* superseded, or at one that was collected, however often maintenance,    *)
(* new outcomes, crashes and bad merges take turns, unless a write of the  *)
(* local file failed (applyDedup, tryMergeDuplicate, writeBothLocked).     *)
THEOREM SupersededByTheEnd ==
  ASSUME SameAge, NoneIsNoId
  PROVE  Spec => []SupersessionEnds
<1> DEFINE I == part = "learning" => LearnInv /\ HideInv
<1>1. Init => I BY PartInit, LearnInit, HideInit
<1>2. I /\ [Next]_<<NotPlan, planVars>> => I' BY PartStep, LearnNext, HideNext
<1>3. I => SupersessionEnds BY Hides DEF SupersessionEnds
<1> QED BY <1>1, <1>2, <1>3, PTL DEF Spec

-----------------------------------------------------------------------------
(***************************************************************************)
(* Types of the learnings, and of all parts.  Time and outcomes are        *)
(* bounded, and what is counted of a learning is no more than was recorded.*)
(***************************************************************************)
LearnBounds == MaxTime \in Nat /\ MaxOutcomes \in Nat

(* No learning helped more often than it was attached, nor was attached    *)
(* more often than n.                                                      *)
Tally(ls, n) == \A i \in 1 .. Len(ls) : ls[i].success <= ls[i].attach /\ ls[i].attach <= n

TallyInv ==
  /\ now \in 0 .. MaxTime /\ outcomes \in 0 .. MaxOutcomes
  /\ Tally(local, outcomes) /\ Tally(shared, outcomes)
  /\ \A p \in Procs : Writing(p) => Tally(job[p].new, outcomes)
  /\ index \subseteq Ids /\ prevention \subseteq Ids

(* A learning counts as it did, and more may be recorded.                  *)
LEMMA TallyPart ==
  ASSUME NEW ls, NEW n, Tally(ls, n)
  PROVE  \A s : (\A i \in 1 .. Len(s) : \E j \in 1 .. Len(ls) : s[i] = ls[j]) => Tally(s, n)
BY DEF Tally

(* What counts up to n counts up to more.                                  *)
LEMMA TallyMore ==
  ASSUME NEW ls \in Seq(Entry), NEW n \in Nat, NEW m \in Nat, n <= m, Tally(ls, n)
  PROVE  Tally(ls, m)
<1>1. ASSUME NEW i \in 1 .. Len(ls) PROVE ls[i].success <= ls[i].attach /\ ls[i].attach <= m
  <2>1. ls[i] \in Entry OBVIOUS
  <2>2. ls[i].attach \in Nat BY <2>1 DEF Entry
  <2> QED BY <2>2 DEF Tally
<1> QED BY <1>1 DEF Tally

(* What a command reads counts no more than the files.                     *)
LEMMA TallyView ==
  ASSUME LearnTypes, NEW n, Tally(local, n), Tally(shared, n)
  PROVE  Tally(L!View, n)
<1>1. PICK v : v = L!View OBVIOUS
<1>2. local \in Seq(Entry) /\ shared \in Seq(Entry) BY DEF LearnTypes, FileOK
<1>3. ViewOf(v) BY <1>1, <1>2, ViewParts
<1>4. ASSUME NEW i \in 1 .. Len(v) PROVE v[i].success <= v[i].attach /\ v[i].attach <= n
  BY <1>3 DEF ViewOf, Tally
<1> QED BY <1>1, <1>4 DEF Tally

(* Maintenance counts nothing.                                             *)
LEMMA TallyMaintained ==
  ASSUME NEW ls, FileOK(ls), NEW n, Tally(ls, n)
  PROVE  Tally(L!Maintained(ls), n)
<1> DEFINE d == L!Dedup(ls)
           E(i) == [d[i] EXCEPT !.expired = d[i].expired \/ (d[i].by = L!None /\ now - d[i].last > Expiry)]
           e == L!Expire(d)
           keep == {i \in DOMAIN e : L!Active(e[i]) \/ now - e[i].created <= MaxAge}
           m == L!Select(e, keep)
<1>1. ls \in Seq(Entry) /\ Relabelled(d, ls) BY DedupRelabels DEF FileOK
<1> HIDE DEF d
<1>2. d \in Seq(Entry) /\ Len(d) = Len(ls) /\ DOMAIN d = 1 .. Len(ls) /\ Len(ls) \in Nat
  BY <1>1 DEF Relabelled
<1>3. ASSUME NEW i \in 1 .. Len(ls)
      PROVE  E(i) \in Entry /\ E(i).success = ls[i].success /\ E(i).attach = ls[i].attach
  <2>1. d[i] \in Entry /\ d[i].success = ls[i].success /\ d[i].attach = ls[i].attach
    BY <1>1, <1>2 DEF Relabelled
  <2> DEFINE x == d[i].expired \/ (d[i].by = L!None /\ now - d[i].last > Expiry)
  <2>2. x \in BOOLEAN BY <2>1 DEF Entry
  <2> HIDE DEF x
  <2>3. /\ [d[i] EXCEPT !.expired = x] \in Entry
        /\ [d[i] EXCEPT !.expired = x].success = d[i].success
        /\ [d[i] EXCEPT !.expired = x].attach = d[i].attach
    BY <2>1, <2>2 DEF Entry
  <2> QED BY <2>1, <2>3 DEF x
<1>4. e = [i \in 1 .. Len(ls) |-> E(i)] BY <1>2 DEF L!Expire
<1> HIDE DEF E
<1>5. e \in Seq(Entry) /\ Len(e) = Len(ls) /\ \A i \in 1 .. Len(ls) : e[i] = E(i)
  <2>1. e = [i \in 1 .. Len(ls) |-> E(i)] /\ \A i \in 1 .. Len(ls) : E(i) \in Entry BY <1>3, <1>4
  <2> HIDE DEF e
  <2> QED BY <1>2, <2>1
<1>6. Selection(m, e, keep)
  <2> HIDE DEF e, keep
  <2> QED BY <1>5, Selected
<1>7. m = L!Maintained(ls) BY DEF L!Maintained, L!Collect, d
<1> HIDE DEF e, m, keep
<1>8. Tally(e, n) BY <1>3, <1>5 DEF Tally
<1>9. \A i \in 1 .. Len(m) : \E j \in 1 .. Len(e) : m[i] = e[j] BY <1>6 DEF Selection
<1> QED BY <1>7, <1>8, <1>9, TallyPart

(* An outcome counts once for each of its learnings.                       *)
LEMMA TallyOutcome ==
  ASSUME NEW ls \in Seq(Entry), NEW n \in Nat, Tally(ls, n), NEW ids, NEW passed \in BOOLEAN
  PROVE  Tally(L!WithOutcome(ls, ids, passed), n + 1)
<1> DEFINE E(i) == IF ls[i].id \notin ids THEN ls[i]
                   ELSE [ls[i] EXCEPT !.attach = ls[i].attach + 1,
                           !.success = IF passed THEN ls[i].success + 1 ELSE ls[i].success,
                           !.last = now]
           new == L!WithOutcome(ls, ids, passed)
<1>1. DOMAIN ls = 1 .. Len(ls) /\ Len(ls) \in Nat OBVIOUS
<1>2. ASSUME NEW i \in 1 .. Len(ls) PROVE E(i).success <= E(i).attach /\ E(i).attach <= n + 1
  <2>1. ls[i] \in Entry OBVIOUS
  <2>2. /\ ls[i].success \in Nat /\ ls[i].attach \in Nat
        /\ ls[i].success <= ls[i].attach /\ ls[i].attach <= n
    BY <2>1 DEF Entry, Tally
  <2>3. CASE ls[i].id \notin ids BY <2>2, <2>3
  <2>4. CASE ls[i].id \in ids
    <3> DEFINE s == IF passed THEN ls[i].success + 1 ELSE ls[i].success
               g == [ls[i] EXCEPT !.attach = ls[i].attach + 1, !.success = s, !.last = now]
    <3>1. s \in Nat /\ s <= ls[i].attach + 1 BY <2>2
    <3> HIDE DEF s
    <3>2. g.success = s /\ g.attach = ls[i].attach + 1 BY <2>1 DEF Entry
    <3>3. E(i) = g BY <2>4 DEF s
    <3> HIDE DEF g, E
    <3> QED BY <2>2, <3>1, <3>2, <3>3
  <2> QED BY <2>3, <2>4
<1>3. new = [i \in 1 .. Len(ls) |-> E(i)] BY <1>1 DEF L!WithOutcome
<1> HIDE DEF E, new
<1>4. Len(new) = Len(ls) /\ \A i \in 1 .. Len(ls) : new[i] = E(i) BY <1>1, <1>3
<1> QED BY <1>2, <1>4 DEF Tally, new

(* A new learning counts nothing yet.                                      *)
LEMMA TallyNew ==
  ASSUME NEW ls \in Seq(Entry), NEW n \in Nat, Tally(ls, n), NEW id
  PROVE  Tally(Append(ls, L!New(id)), n)
<1>1. L!New(id).success = 0 /\ L!New(id).attach = 0 BY DEF L!New
<1>2. PICK e : e = L!New(id) OBVIOUS
<1>3. PICK new : new = Append(ls, e) OBVIOUS
<1>4. /\ Len(new) = Len(ls) + 1 /\ Len(ls) \in Nat /\ new[Len(ls) + 1] = e
      /\ \A i \in 1 .. Len(ls) : new[i] = ls[i]
  BY <1>3
<1>5. ASSUME NEW i \in 1 .. Len(new) PROVE new[i].success <= new[i].attach /\ new[i].attach <= n
  <2>1. CASE i \in 1 .. Len(ls) BY <1>4, <2>1 DEF Tally
  <2>2. CASE i = Len(ls) + 1 BY <1>1, <1>2, <1>4, <2>2
  <2> QED BY <1>4, <2>1, <2>2
<1> QED BY <1>2, <1>3, <1>5 DEF Tally

(* A step of one command, at the same time.                                *)
LEMMA TallyStep ==
  ASSUME LearnTypes, TallyInv, NEW p \in Procs, NEW j, job' = [job EXCEPT ![p] = j],
         now' = now, outcomes' \in 0 .. MaxOutcomes, outcomes <= outcomes',
         Tally(local', outcomes'), Tally(shared', outcomes'),
         index' \subseteq Ids, prevention' \subseteq Ids,
         j.pc \in {"local", "shared"} => Tally(j.new, outcomes'),
         LearnInv
  PROVE  TallyInv'
<1>1. job'[p] = j /\ \A q \in Procs \ {p} : job'[q] = job[q] BY DEF LearnTypes
<1>2. outcomes \in Nat /\ outcomes' \in Nat BY DEF TallyInv
<1>3. ASSUME NEW q \in Procs, job'[q].pc \in {"local", "shared"}
      PROVE  Tally(job'[q].new, outcomes')
  <2>1. CASE q = p BY <1>1, <1>3, <2>1
  <2>2. CASE q # p
    <3>1. job'[q] = job[q] /\ Writing(q) BY <1>1, <1>3, <2>2 DEF Writing
    <3>2. job[q].new \in Seq(Entry) /\ Tally(job[q].new, outcomes)
      BY <3>1 DEF TallyInv, LearnTypes, Updating
    <3> QED BY <1>2, <3>1, <3>2, TallyMore
  <2> QED BY <2>1, <2>2
<1>4. /\ Tally(local, outcomes)' /\ Tally(shared, outcomes)'
      /\ \A q \in Procs : Writing(q)' => Tally(job[q].new, outcomes)'
  BY <1>3 DEF Tally, Writing
<1>5. now' \in 0 .. MaxTime BY DEF TallyInv
<1> QED BY <1>4, <1>5 DEF TallyInv

(* Index and prevention checks are of learnings that were written.         *)
LEMMA IdsOf ==
  ASSUME NEW ls \in Seq(Entry)
  PROVE  L!Indexed(ls) \subseteq Ids /\ L!Qualified(ls) \subseteq Ids
<1>1. L!IdsIn(ls) \subseteq Ids
  <2>1. ASSUME NEW i \in DOMAIN ls PROVE ls[i].id \in Ids
    <3>1. ls[i] \in Entry OBVIOUS
    <3> QED BY <3>1 DEF Entry
  <2> QED BY <2>1 DEF L!IdsIn
<1> QED BY <1>1 DEF L!Indexed, L!Qualified

(* What a command is about to write counts what it read, and the outcome   *)
(* it records.                                                             *)
LEMMA TallyBegin ==
  ASSUME LearnBounds, LearnInv, TallyInv, NEW p \in Procs,
         \/ L!Add(p) \/ L!Maintain(p) \/ L!Repair(p)
         \/ \E ids \in SUBSET L!IdsIn(L!View), passed \in BOOLEAN : L!RecordOutcome(p, ids, passed)
  PROVE  TallyInv'
<1>1. LearnTypes BY DEF LearnInv
<1>2. /\ outcomes \in Nat /\ Tally(local, outcomes) /\ Tally(shared, outcomes)
      /\ local \in Seq(Entry) /\ shared \in Seq(Entry)
  BY <1>1 DEF TallyInv, LearnTypes, FileOK
<1>3. PICK v : v = L!View OBVIOUS
<1>4. FileOK(v) /\ v \in Seq(Entry) BY <1>1, <1>3, Viewed DEF FileOK
<1>5. Tally(v, outcomes) BY <1>1, <1>2, <1>3, TallyView
<1>6. ASSUME NEW op, NEW ids, NEW new, L!Begin(p, op, ids, new), Tally(new, outcomes'),
             outcomes' \in 0 .. MaxOutcomes, outcomes <= outcomes'
      PROVE  TallyInv'
  <2> DEFINE j == [pc |-> "local", op |-> op, ids |-> ids, at |-> now, new |-> new]
  <2>1. /\ job' = [job EXCEPT ![p] = j]
        /\ UNCHANGED <<local, shared, index, prevention, now>>
    BY <1>6 DEF L!Begin
  <2>2. j.new = new OBVIOUS
  <2> HIDE DEF j
  <2>3. outcomes' \in Nat BY <1>6
  <2>4. Tally(local, outcomes') /\ Tally(shared, outcomes') BY <1>2, <1>6, <2>3, TallyMore
  <2>5. Tally(local', outcomes') /\ Tally(shared', outcomes') BY <2>1, <2>4
  <2>6. index' \subseteq Ids /\ prevention' \subseteq Ids /\ now' = now BY <2>1 DEF TallyInv
  <2> QED BY <1>1, <1>6, <2>1, <2>2, <2>5, <2>6, TallyStep
<1>7. outcomes \in 0 .. MaxOutcomes /\ outcomes <= outcomes BY DEF TallyInv
<1>8. CASE L!Add(p)
  <2>1. PICK id : L!Begin(p, "add", {id}, Append(v, L!New(id))) /\ outcomes' = outcomes
    BY <1>3, <1>8 DEF L!Add
  <2>2. Tally(Append(v, L!New(id)), outcomes) BY <1>2, <1>4, <1>5, TallyNew
  <2> QED BY <1>6, <1>7, <2>1, <2>2
<1>9. CASE L!Maintain(p)
  <2>1. L!Begin(p, "maintain", {}, L!Maintained(v)) /\ outcomes' = outcomes
    BY <1>3, <1>9 DEF L!Maintain
  <2>2. Tally(L!Maintained(v), outcomes) BY <1>4, <1>5, TallyMaintained
  <2> QED BY <1>6, <1>7, <2>1, <2>2
<1>10. CASE L!Repair(p)
  <2>1. L!Begin(p, "repair", {}, v) /\ outcomes' = outcomes BY <1>3, <1>10 DEF L!Repair
  <2> QED BY <1>5, <1>6, <1>7, <2>1
<1>11. ASSUME NEW ids \in SUBSET L!IdsIn(L!View), NEW passed \in BOOLEAN, L!RecordOutcome(p, ids, passed)
       PROVE  TallyInv'
  <2>1. /\ L!Begin(p, "outcome", ids, L!WithOutcome(v, ids, passed))
        /\ outcomes < MaxOutcomes /\ outcomes' = outcomes + 1
    BY <1>3, <1>11 DEF L!RecordOutcome
  <2>2. Tally(L!WithOutcome(v, ids, passed), outcomes') BY <1>2, <1>4, <1>5, <2>1, TallyOutcome
  <2>3. outcomes' \in 0 .. MaxOutcomes /\ outcomes <= outcomes'
    BY <1>2, <2>1 DEF LearnBounds
  <2> QED BY <1>6, <2>1, <2>2, <2>3
<1> QED BY <1>8, <1>9, <1>10, <1>11

(* What is written is what was about to be.                                *)
LEMMA TallyWrites ==
  ASSUME LearnInv, TallyInv, NEW p \in Procs,
         L!WriteLocal(p) \/ L!LocalFails(p) \/ L!WriteShared(p) \/ L!Index(p) \/ L!Prevent(p) \/ L!Crash(p)
  PROVE  TallyInv'
<1>1. /\ LearnTypes /\ job[p] \in Updating
      /\ outcomes \in 0 .. MaxOutcomes /\ outcomes <= outcomes
      /\ Tally(local, outcomes) /\ Tally(shared, outcomes)
      /\ index \subseteq Ids /\ prevention \subseteq Ids
  BY DEF LearnInv, LearnTypes, TallyInv
<1>2. job[p].new \in Seq(Entry) BY <1>1 DEF Updating
<1>3. L!Idle.pc = "idle" BY DEF L!Idle
<1>4. CASE L!WriteLocal(p) \/ L!LocalFails(p)
  <2> DEFINE j == [job[p] EXCEPT !.pc = "shared"]
  <2>1. /\ job' = [job EXCEPT ![p] = j] /\ now' = now /\ outcomes' = outcomes
        /\ local' \in {local, job[p].new} /\ UNCHANGED <<shared, index, prevention>>
        /\ job[p].pc = "local"
    BY <1>1, <1>4 DEF L!WriteLocal, L!LocalFails, LearnTypes
  <2>2. Tally(job[p].new, outcomes) BY <2>1 DEF TallyInv, Writing
  <2>3. j.new = job[p].new BY <1>1 DEF Updating
  <2> HIDE DEF j
  <2>4. Tally(local', outcomes') BY <1>1, <2>1, <2>2
  <2> QED BY <1>1, <2>1, <2>2, <2>3, <2>4, TallyStep
<1>5. CASE L!WriteShared(p)
  <2> DEFINE j == IF job[p].op = "outcome" THEN L!Idle ELSE [job[p] EXCEPT !.pc = "index"]
  <2>1. /\ job' = [job EXCEPT ![p] = j] /\ now' = now /\ outcomes' = outcomes
        /\ shared' = job[p].new /\ UNCHANGED <<local, index, prevention>>
        /\ job[p].pc = "shared"
    BY <1>1, <1>5 DEF L!WriteShared, LearnTypes
  <2>2. Tally(job[p].new, outcomes) BY <2>1 DEF TallyInv, Writing
  <2>3. j.pc \in {"idle", "index"} BY <1>1, <1>3 DEF Updating
  <2> HIDE DEF j
  <2> QED BY <1>1, <2>1, <2>2, <2>3, TallyStep
<1>6. CASE L!Index(p)
  <2> DEFINE j == IF job[p].op # "maintain" THEN L!Idle ELSE [job[p] EXCEPT !.pc = "prevent"]
  <2>1. /\ job' = [job EXCEPT ![p] = j] /\ now' = now /\ outcomes' = outcomes
        /\ index' = L!Indexed(job[p].new) /\ UNCHANGED <<local, shared, prevention>>
    BY <1>1, <1>6 DEF L!Index, LearnTypes
  <2>2. j.pc \in {"idle", "prevent"} BY <1>1, <1>3 DEF Updating
  <2> HIDE DEF j
  <2>3. index' \subseteq Ids BY <1>2, <2>1, IdsOf
  <2> QED BY <1>1, <2>1, <2>2, <2>3, TallyStep
<1>7. CASE L!Prevent(p)
  <2>1. /\ job' = [job EXCEPT ![p] = L!Idle] /\ now' = now /\ outcomes' = outcomes
        /\ prevention' = L!Qualified(job[p].new) /\ UNCHANGED <<local, shared, index>>
    BY <1>7 DEF L!Prevent
  <2>2. prevention' \subseteq Ids BY <1>2, <2>1, IdsOf
  <2> QED BY <1>1, <1>3, <2>1, <2>2, TallyStep
<1>8. CASE L!Crash(p)
  <2>1. /\ job' = [job EXCEPT ![p] = L!Idle] /\ now' = now /\ outcomes' = outcomes
        /\ UNCHANGED <<local, shared, index, prevention>>
    BY <1>8 DEF L!Crash
  <2> QED BY <1>1, <1>3, <2>1, TallyStep
<1> QED BY <1>4, <1>5, <1>6, <1>7, <1>8

(* Nothing that happens counts what was not recorded.                      *)
LEMMA TallyNext ==
  ASSUME LearnBounds, LearnInv, TallyInv, [L!Next]_(L!storeVars)
  PROVE  TallyInv'
<1>1. ASSUME UNCHANGED <<local, job, outcomes, index, prevention>>, now' \in 0 .. MaxTime,
             Tally(shared', outcomes)
      PROVE  TallyInv'
  BY <1>1 DEF TallyInv, Tally, Writing
<1>2. CASE UNCHANGED L!storeVars BY <1>1, <1>2 DEF L!storeVars, TallyInv
<1>3. CASE L!Tick
  <2>1. now' \in 0 .. MaxTime BY <1>3 DEF L!Tick, TallyInv, LearnBounds
  <2> QED BY <1>1, <1>3, <2>1 DEF L!Tick, TallyInv
<1>4. CASE L!BadMerge
  <2>1. shared \in Seq(Entry) /\ Tally(shared, outcomes)
    BY DEF LearnInv, LearnTypes, FileOK, TallyInv
  <2>2. PICK n : n = shared' OBVIOUS
  <2>3. PICK k \in 1 .. Len(shared) : n = L!RemoveAt(shared, k)
    <3>1. DOMAIN shared = 1 .. Len(shared) BY <2>1
    <3> QED BY <1>4, <2>2, <3>1 DEF L!BadMerge
  <2>4. /\ Len(n) = Len(shared) - 1 /\ Len(shared) \in Nat
        /\ \A i \in 1 .. Len(n) : n[i] = shared[IF i < k THEN i ELSE i + 1]
    BY <2>1, <2>3, Removed
  <2>5. \A i \in 1 .. Len(n) : \E j \in 1 .. Len(shared) : n[i] = shared[j]
    <3>1. \A i \in 1 .. Len(n) : (IF i < k THEN i ELSE i + 1) \in 1 .. Len(shared) BY <2>4
    <3> QED BY <2>4, <3>1
  <2>6. Tally(n, outcomes) BY <2>1, <2>5, TallyPart
  <2>7. UNCHANGED <<local, job, outcomes, index, prevention, now>> BY <1>4 DEF L!BadMerge
  <2> QED BY <1>1, <2>2, <2>6, <2>7 DEF TallyInv
<1>5. ASSUME NEW p \in Procs, L!Step(p) PROVE TallyInv'
  <2>1. (SUBSET L!IdsIn(L!View)) \ {{}} \subseteq SUBSET L!IdsIn(L!View) OBVIOUS
  <2> QED BY <1>5, <2>1, TallyBegin, TallyWrites DEF L!Step
<1> QED BY <1>2, <1>3, <1>4, <1>5 DEF L!Next

(* Empty files count nothing.                                              *)
LEMMA TallyInit ==
  ASSUME LearnBounds, L!Init
  PROVE  TallyInv
<1>1. Len(<<>>) = 0 OBVIOUS
<1>2. \A p \in Procs : job[p].pc = "idle" BY DEF L!Init, L!Idle
<1> QED BY <1>1, <1>2 DEF LearnBounds, L!Init, TallyInv, Tally, Writing

(* A file in which each learning is once has as many ids as learnings.     *)
LEMMA IdsCounted ==
  ASSUME NEW ls \in Seq(Entry), Distinct(ls)
  PROVE  L!Cardinality(L!IdsIn(ls)) = Len(ls)
<1> DEFINE n == Len(ls)
           S == L!IdsIn(ls)
           f == [i \in 1 .. n |-> ls[i].id]
<1>1. n \in Nat /\ DOMAIN ls = 1 .. n OBVIOUS
<1>2. S = {ls[i].id : i \in 1 .. n} BY <1>1 DEF L!IdsIn
<1>3. f \in [1 .. n -> S] /\ \A i \in 1 .. n : f[i] = ls[i].id BY <1>2
<1>4. \A i, j \in 1 .. n : f[i] = f[j] => i = j BY <1>3 DEF Distinct
<1>5. \A id \in S : \E i \in 1 .. n : f[i] = id BY <1>2, <1>3
<1> HIDE DEF f, S
<1>6. f \in Bijection(1 .. n, S)
  BY <1>3, <1>4, <1>5 DEF Bijection, Injection, Surjection, IsInjective
<1>7. Cardinality(S) = n
  <2>1. ExistsBijection(1 .. n, S) BY <1>6 DEF ExistsBijection
  <2> HIDE DEF n
  <2> QED BY <1>1, <2>1, FS_CountingElements
<1>8. L!Cardinality(S) = Cardinality(S) BY DEF L!Cardinality, Cardinality
<1> QED BY <1>7, <1>8 DEF S

(* A file is a sequence of learnings, each once.                           *)
LEMMA FileTyped ==
  ASSUME LearnBounds, NEW f, FileOK(f), Distinct(f), Tally(f, outcomes),
         now \in 0 .. MaxTime, outcomes \in 0 .. MaxOutcomes
  PROVE  /\ f \in Seq(L!Learning) /\ L!Cardinality(L!IdsIn(f)) = Len(f)
         /\ \A i \in DOMAIN f : f[i].success <= f[i].attach
<1>1. f \in Seq(Entry) /\ DOMAIN f = 1 .. Len(f) /\ Len(f) \in Nat BY DEF FileOK
<1>2. ASSUME NEW i \in 1 .. Len(f)
      PROVE  f[i] \in L!Learning /\ f[i].success <= f[i].attach
  <2>1. PICK l \in Entry : l = f[i] BY <1>1
  <2>2. l.created \in Nat /\ l.last \in Nat /\ l.success \in Nat /\ l.attach \in Nat
    BY DEF Entry
  <2>3. l.created <= l.last /\ l.last <= now BY <2>1, Entries
  <2>4. l.success <= l.attach /\ l.attach <= outcomes BY <2>1 DEF Tally
  <2>5. /\ l.created \in 0 .. MaxTime /\ l.last \in 0 .. MaxTime
        /\ l.success \in 0 .. MaxOutcomes /\ l.attach \in 0 .. MaxOutcomes
    BY <2>2, <2>3, <2>4 DEF LearnBounds
  <2>6. l \in L!Learning BY <2>5 DEF Entry, L!Learning
  <2> QED BY <2>1, <2>4, <2>6
<1>3. f \in Seq(L!Learning) BY <1>1, <1>2
<1> QED BY <1>1, <1>2, <1>3, IdsCounted

(* Types of the learnings: each is in a file once, and used no more often  *)
(* than it was recorded to be.                                             *)
LEMMA LearnTyped ==
  ASSUME LearnBounds, LearnInv, HideInv, TallyInv
  PROVE  L!TypeOK
<1>1. FileOK(local) /\ FileOK(shared) /\ lock \in Procs \cup {NoProc}
  BY DEF LearnInv, LearnTypes
<1>2. Distinct(local) /\ Distinct(shared) BY DEF HideInv
<1>3. /\ Tally(local, outcomes) /\ Tally(shared, outcomes)
      /\ now \in 0 .. MaxTime /\ outcomes \in 0 .. MaxOutcomes
      /\ index \subseteq Ids /\ prevention \subseteq Ids
  BY DEF TallyInv
<1>4. ASSUME NEW f \in {local, shared}
      PROVE  /\ f \in Seq(L!Learning) /\ L!Cardinality(L!IdsIn(f)) = Len(f)
             /\ \A i \in DOMAIN f : f[i].success <= f[i].attach
  BY <1>1, <1>2, <1>3, FileTyped
<1>5. \A p \in Procs : job[p] # L!Idle <=> lock = p BY DEF LearnInv, JobOK
<1> QED BY <1>1, <1>3, <1>4, <1>5 DEF L!TypeOK

(* What holds of each part, as long as the sum is at it.                   *)
PartInv ==
  /\ part \in {"plan", "cycles", "learning", "council", "links"}
  /\ part = "plan" => PlanInv /\ PlanTypes
  /\ part = "cycles" => SearchInv
  /\ part = "learning" => LearnInv /\ HideInv /\ TallyInv
  /\ part = "council" => ResumeInv /\ RoundsOK /\ CouncilOK
  /\ part = "links" => LinkInv /\ LinkCounts

(* Types of all parts of the planning: a plan's tasks depend on tasks, its *)
(* phases are those of compiler.Compile; the stack of the cycle search is  *)
(* of open tickets, and what a call still has to look at is what its       *)
(* ticket depends on (ticket/deps.go:155); a file of learnings names each  *)
(* learning once, helpful no more often than it was attached, and a        *)
(* command is under way iff it has the lock (learning/store.go:1106); a    *)
(* round of the council has at most one set of generated personas, one     *)
(* hash and one judgement, which decides on nothing it has not heard, and  *)
(* waits for and hears only those it asked (councilflow/runner.go:37);     *)
(* links and locks are of tickets and processes, within the bounds.        *)
THEOREM PlanningTypes ==
  ASSUME SomeRequirements, EditBound, SomeNodes, SomeRounds, SameAge, NoneIsNoId,
         LearnBounds, Numbered, LinkBounds
  PROVE  Spec => []TypeOK
<1>1. Init => PartInv
  <2> SUFFICES ASSUME Init PROVE PartInv OBVIOUS
  <2>1. part \in {"plan", "cycles", "learning", "council", "links"} BY DEF Init
  <2>2. ASSUME part = "plan" PROVE PlanInv /\ PlanTypes
    BY <2>2, PartInit, InitPlanInv, PlanTyped
  <2>3. ASSUME part = "learning" PROVE LearnInv /\ HideInv /\ TallyInv
    BY <2>3, PartInit, LearnInit, HideInit, TallyInit
  <2>4. ASSUME part = "council" PROVE ResumeInv /\ RoundsOK /\ CouncilOK
    BY <2>4, PartInit, InitResumeInv, CouncilTyped
  <2>5. ASSUME part = "links" PROVE LinkInv /\ LinkCounts
    BY <2>5, PartInit, LinkInit, LinkCounted
  <2>6. ASSUME part = "cycles" PROVE SearchInv BY <2>6, PartInit, InitSearchInv
  <2> QED BY <2>1, <2>2, <2>3, <2>4, <2>5, <2>6 DEF PartInv
<1>2. PartInv /\ [Next]_<<NotPlan, planVars>> => PartInv'
  <2> SUFFICES ASSUME PartInv, [Next]_<<NotPlan, planVars>> PROVE PartInv'
    OBVIOUS
  <2>1. part' = part /\ part \in {"plan", "cycles", "learning", "council", "links"}
    BY PartStep DEF PartInv
  <2>2. ASSUME part = "plan" PROVE PlanInv' /\ PlanTypes'
    <3>1. PlanInv /\ PlanTypes /\ [P!Next]_(P!vars) BY <2>2, PartStep DEF PartInv
    <3> QED BY <3>1, NextPlanInv, PlanTyped
  <2>3. ASSUME part = "learning" PROVE LearnInv' /\ HideInv' /\ TallyInv'
    <3>1. LearnInv /\ HideInv /\ TallyInv /\ [L!Next]_(L!storeVars)
      BY <2>3, PartStep DEF PartInv
    <3> QED BY <3>1, LearnNext, HideNext, TallyNext
  <2>4. ASSUME part = "council" PROVE ResumeInv' /\ RoundsOK' /\ CouncilOK'
    <3>1. ResumeInv /\ RoundsOK /\ CouncilOK /\ [T!Next]_(T!councilVars)
      BY <2>4, PartStep DEF PartInv
    <3>2. CouncilTypes BY <3>1 DEF ResumeInv
    <3> QED BY <3>1, <3>2, NextResumeInv, NextCouncilOK
  <2>5. ASSUME part = "links" PROVE LinkInv' /\ LinkCounts'
    <3>1. LinkInv /\ LinkCounts /\ [K!Next]_(K!linkVars) BY <2>5, PartStep DEF PartInv
    <3> QED BY <3>1, LinkNext, LinkCounted
  <2>6. ASSUME part = "cycles" PROVE SearchInv'
    <3>1. SearchInv /\ [C!Next]_(C!searchVars) BY <2>6, PartStep DEF PartInv
    <3> QED BY <3>1, NextSearchInv
  <2> QED BY <2>1, <2>2, <2>3, <2>4, <2>5, <2>6 DEF PartInv
<1>3. PartInv => TypeOK
  <2> SUFFICES ASSUME PartInv PROVE TypeOK OBVIOUS
  <2>1. part = "plan" => P!TypeOK BY PlanTyped DEF PartInv
  <2>2. part = "learning" => L!TypeOK BY LearnTyped DEF PartInv
  <2>3. part = "council" => T!TypeOK BY CouncilTyped DEF PartInv, ResumeInv
  <2>4. part = "links" => K!TypeOK BY LinkTyped DEF PartInv
  <2>5. part = "cycles" => C!TypeOK
    BY DEF PartInv, SearchInv, SearchTypes, TodoIsWaited, C!TypeOK
  <2> QED BY <2>1, <2>2, <2>3, <2>4, <2>5 DEF PartInv, TypeOK
<1> QED BY <1>1, <1>2, <1>3, PTL DEF Spec
=============================================================================
