----------------------------- MODULE PlanningProofs ----------------------------
(***************************************************************************)
(* What holds of the parts of MCPlanning for any number of requirements,   *)
(* paths, tickets and personas: waves respect dependencies whatever is     *)
(* moved, a drafted plan passes its review and orders what conflicts, the  *)
(* searches find cycles and only cycles, and a council that is run again   *)
(* asks nobody twice for the same text.  The proofs are about the parts,   *)
(* P, C and T, and the theorems about their sum, whose steps are steps of  *)
(* one part.  What their types need is proved with the parts.              *)
(***************************************************************************)
EXTENDS MCPlanning, Integers, Sequences, FiniteSetTheorems, WellFoundedInduction,
        SequenceTheorems, TLAPS

(* A behaviour of the sum is one of the part it starts with.               *)
LEMMA PartInit ==
  ASSUME Init
  PROVE  /\ part = "plan" => P!Init
         /\ part = "cycles" => C!Init
         /\ part = "learning" => L!Init
         /\ part = "council" => T!Init
         /\ part = "links" => K!Init
BY DEF Init

(* A step of the sum is one of the part at hand, or stutters.              *)
LEMMA PartStep ==
  ASSUME [Next]_<<NotPlan, planVars>>
  PROVE  /\ part' = part
         /\ part = "plan" => [P!Next]_(P!vars)
         /\ part = "cycles" => [C!Next]_(C!searchVars)
         /\ part = "learning" => [L!Next]_(L!storeVars)
         /\ part = "council" => [T!Next]_(T!councilVars)
         /\ part = "links" => [K!Next]_(K!linkVars)
<1>1. CASE UNCHANGED <<NotPlan, planVars>>
  BY <1>1 DEF NotPlan, planVars, searchVars, learningVars, councilVars, linkVars, P!vars,
     P!inputs, C!searchVars, L!storeVars, T!councilVars, K!linkVars
<1>2. CASE Next
  BY <1>2 DEF Next, NotPlan, NotSearch, NotLearning, NotCouncil, NotLinks
<1> QED BY <1>1, <1>2

-----------------------------------------------------------------------------
(* What the proofs use of naturals and sequences.                          *)
(* Inductive is induction for any set; it serves in place of the theorems  *)
(* of NaturalsInduction, whose parameter is an operator.                   *)

(* A nonempty set of naturals has a least element. *)
LEMMA Least ==
  ASSUME NEW W \in SUBSET Nat, W # {}
  PROVE  \E m \in W : \A k \in W : m <= k
<1> DEFINE R == OpToRel(<, Nat)
<1>1. IsWellFoundedOn(R, Nat) BY NatLessThanWellFounded
<1>2. \A x, y \in Nat : <<y, x>> \in R <=> y < x BY DEF OpToRel
<1> HIDE DEF R
<1>3. \E x \in W : \A y \in W : <<y, x>> \notin R BY <1>1, WFMin
<1>4. PICK m \in W : \A k \in W : ~(k < m) BY <1>2, <1>3
<1>5. \A a, b \in Nat : ~(a < b) => b <= a OBVIOUS
<1> QED BY <1>4, <1>5

(* Induction over a set. *)
LEMMA Inductive ==
  ASSUME NEW W, 0 \in W, \A n \in Nat : n \in W => n + 1 \in W
  PROVE  Nat \subseteq W
<1> SUFFICES ASSUME NEW x \in Nat, x \notin W PROVE FALSE OBVIOUS
<1>1. PICK m \in Nat \ W : \A k \in Nat \ W : m <= k BY Least
<1>2. m - 1 \in Nat /\ (m - 1) + 1 = m /\ ~(m <= m - 1) BY <1>1
<1> QED BY <1>1, <1>2

(* A nonempty set of naturals with a bound has a greatest element. *)
LEMMA Greatest ==
  ASSUME NEW n \in Nat, NEW W \in SUBSET (0 .. n), W # {}
  PROVE  \E m \in W : \A k \in W : k <= m
<1> DEFINE U == {n - t : t \in W}
<1>1. U \in SUBSET Nat /\ U # {}
  <2>1. PICK t \in W : TRUE OBVIOUS
  <2>2. n - t \in U BY <2>1
  <2>3. \A k \in W : n - k \in Nat OBVIOUS
  <2> QED BY <2>2, <2>3
<1>2. PICK u \in U : \A k \in U : u <= k BY <1>1, Least
<1>3. PICK m \in W : u = n - m BY <1>2
<1>4. \A k \in W : n - m <= n - k BY <1>2, <1>3
<1> QED BY <1>4

(* What the operators on sequences come to for one or two elements.        *)
LEMMA Tuples ==
  ASSUME NEW x, NEW y
  PROVE  /\ Head(<<x>>) = x /\ Tail(<<x>>) = <<>>
         /\ Head(<<x, y>>) = x /\ Tail(<<x, y>>) = <<y>>
         /\ Append(<<>>, x) = <<x>>
         /\ <<>> \o <<x>> = <<x>> /\ <<x>> \o <<>> = <<x>> /\ <<x>> \o <<y>> = <<x, y>>
         /\ <<x>> # <<>> /\ <<x, y>> # <<>> /\ <<x>> # <<x, y>>
         /\ Len(<<x>>) = 1 /\ Len(<<x, y>>) = 2 /\ Len(<<>>) = 0
         /\ <<x>>[1] = x
<1>1. Head(<<x>>) = x /\ <<x>>[1] = x OBVIOUS
<1>2. Tail(<<x>>) = <<>> OBVIOUS
<1>3. Head(<<x, y>>) = x /\ Tail(<<x, y>>) = <<y>> OBVIOUS
<1>4. Append(<<>>, x) = <<x>> OBVIOUS
<1>5. <<>> \o <<x>> = <<x>> OBVIOUS
<1>6. <<x>> \o <<>> = <<x>> OBVIOUS
<1>7. <<x>> \o <<y>> = <<x, y>>
  <2> DEFINE W == {x, y}
             c == <<x>> \o <<y>>
  <2>1. <<x>> \in Seq(W) /\ <<y>> \in Seq(W) /\ <<x, y>> \in Seq(W) OBVIOUS
  <2>2. /\ Len(<<x>>) = 1 /\ Len(<<y>>) = 1 /\ Len(<<x, y>>) = 2
        /\ <<x, y>>[1] = x /\ <<x, y>>[2] = y /\ <<x>>[1] = x /\ <<y>>[1] = y
    OBVIOUS
  <2>3. /\ c \in Seq(W) /\ Len(c) = Len(<<x>>) + Len(<<y>>)
        /\ \A i \in 1 .. Len(<<x>>) + Len(<<y>>) :
             c[i] = IF i <= Len(<<x>>) THEN <<x>>[i] ELSE <<y>>[i - Len(<<x>>)]
    BY <2>1, ConcatProperties
  <2>4. Len(c) = 2 /\ c[1] = x /\ c[2] = y BY <2>2, <2>3
  <2>5. \A i \in 1 .. 2 : i = 1 \/ i = 2 OBVIOUS
  <2> HIDE DEF c
  <2>6. \A i \in 1 .. Len(c) : c[i] = <<x, y>>[i] BY <2>2, <2>4, <2>5
  <2> HIDE DEF W
  <2>7. c = <<x, y>>
    <3>1. c \in Seq(W) /\ Len(c) = Len(<<x, y>>) BY <2>2, <2>3, <2>4
    <3> QED BY <3>1, <2>1, <2>6, SeqEqual
  <2> QED BY <2>7 DEF c
<1>8. <<x>> # <<>> /\ <<x, y>> # <<>> /\ <<x>> # <<x, y>> OBVIOUS
<1>9. Len(<<x>>) = 1 /\ Len(<<x, y>>) = 2 /\ Len(<<>>) = 0 OBVIOUS
<1> QED BY <1>1, <1>2, <1>3, <1>4, <1>5, <1>6, <1>7, <1>8, <1>9

(* The types of what is taken from a sequence.                             *)
LEMMA Seqs ==
  ASSUME NEW W, NEW x \in W, NEW y \in W
  PROVE  <<>> \in Seq(W) /\ <<x>> \in Seq(W) /\ <<x, y>> \in Seq(W)
OBVIOUS

(* A sequence of length one is not empty.                                  *)
LEMMA NotEmpty == \A s : Len(s) = 1 => s # <<>>
<1>1. Len(<<>>) = 0 /\ 0 # 1 OBVIOUS
<1> QED BY <1>1, Zenon

(* A sequence of one. *)
LEMMA Single ==
  ASSUME NEW W, NEW s \in Seq(W), Len(s) = 1
  PROVE  s = <<s[1]>> /\ s[1] \in W
<1>1. s[1] \in W BY ElementOfSeq
<1>2. <<s[1]>> \in Seq(W) /\ Len(<<s[1]>>) = 1 /\ <<s[1]>>[1] = s[1] BY <1>1
<1>3. \A i \in 1 .. Len(s) : i = 1 OBVIOUS
<1> QED BY <1>1, <1>2, <1>3, SeqEqual

(* Counting up to n. *)
LEMMA UpTo ==
  ASSUME NEW n \in Nat, NEW h, NEW V, h[0] \in V[0],
         \A k \in 1 .. n : h[k - 1] \in V[k - 1] => h[k] \in V[k]
  PROVE  \A k \in 0 .. n : h[k] \in V[k]
<1> DEFINE W == {k \in Nat : k \in 0 .. n => h[k] \in V[k]}
<1>1. 0 \in W OBVIOUS
<1>2. ASSUME NEW k \in Nat, k \in W PROVE k + 1 \in W
  <2> SUFFICES ASSUME k + 1 \in 0 .. n PROVE h[k + 1] \in V[k + 1] OBVIOUS
  <2>1. k + 1 \in 1 .. n /\ (k + 1) - 1 = k /\ k \in 0 .. n OBVIOUS
  <2>2. h[k] \in V[k] BY <1>2, <2>1
  <2> QED BY <2>1, <2>2
<1> HIDE DEF W
<1>3. Nat \subseteq W BY <1>1, <1>2, Inductive
<1>4. \A k \in 0 .. n : k \in Nat OBVIOUS
<1> QED BY <1>3, <1>4 DEF W

(* What is defined step by step exists. *)
Iterated(h, n, V, base, step) ==
  /\ h \in [0 .. n -> V]
  /\ h = [k \in 0 .. n |-> IF k = 0 THEN base ELSE step[k][h[k - 1]]]

(* The function that a recursive definition describes exists.              *)
LEMMA Iterates ==
  ASSUME NEW n, NEW V, NEW base, NEW step,
         n \in Nat, base \in V, step \in [1 .. n -> [V -> V]]
  PROVE  \E h : Iterated(h, n, V, base, step)
<1> DEFINE Is(h, m) == h = [k \in 0 .. m |-> IF k = 0 THEN base ELSE step[k][h[k - 1]]]
           W == {m \in Nat : m \in 0 .. n => \E h \in [0 .. m -> V] : Is(h, m)}
<1>1. 0 \in W
  <2> DEFINE h == [k \in 0 .. 0 |-> base]
  <2>1. \A k \in 0 .. 0 : k = 0 OBVIOUS
  <2>2. h \in [0 .. 0 -> V] OBVIOUS
  <2>3. [k \in 0 .. 0 |-> base] = [k \in 0 .. 0 |-> IF k = 0 THEN base ELSE step[k][h[k - 1]]]
    BY <2>1, Zenon
  <2>4. Is(h, 0) BY <2>3, Zenon
  <2> HIDE DEF h, Is
  <2> QED BY <2>2, <2>4
<1>2. ASSUME NEW m \in Nat, m \in W PROVE m + 1 \in W
  <2> SUFFICES ASSUME m + 1 \in 0 .. n PROVE \E h \in [0 .. m + 1 -> V] : Is(h, m + 1) OBVIOUS
  <2>1. m \in 0 .. n /\ m + 1 \in 1 .. n OBVIOUS
  <2>2. PICK f \in [0 .. m -> V] : Is(f, m) BY <1>2, <2>1
  <2> DEFINE g == [k \in 0 .. m + 1 |-> IF k = m + 1 THEN step[m + 1][f[m]] ELSE f[k]]
  <2>3. step[m + 1][f[m]] \in V
    <3>1. m \in 0 .. m /\ step[m + 1] \in [V -> V] BY <2>1
    <3> QED BY <2>2, <3>1
  <2>4. /\ \A k \in 0 .. m : k # m + 1 /\ k \in 0 .. m + 1
        /\ \A k \in 0 .. m + 1 : k = m + 1 \/ k \in 0 .. m
        /\ \A k \in 0 .. m : k # 0 => k - 1 \in 0 .. m
        /\ m + 1 # 0 /\ (m + 1) - 1 = m /\ m \in 0 .. m /\ m + 1 \in 0 .. m + 1
    OBVIOUS
  <2>5. g \in [0 .. m + 1 -> V] BY <2>2, <2>3, <2>4
  <2>6. /\ \A k \in 0 .. m : g[k] = f[k]
        /\ g[m + 1] = step[m + 1][f[m]]
    BY <2>4
  <2>7. \A k \in 0 .. m : f[k] = IF k = 0 THEN base ELSE step[k][f[k - 1]]
    BY <2>2, Zenon
  <2> HIDE DEF g
  <2>8. ASSUME NEW k \in 0 .. m + 1
        PROVE  g[k] = IF k = 0 THEN base ELSE step[k][g[k - 1]]
    <3>1. CASE k = m + 1
      <4>1. g[k - 1] = f[m] /\ k # 0 BY <2>4, <2>6, <3>1
      <4> QED BY <2>6, <3>1, <4>1
    <3>2. CASE k \in 0 .. m
      <4>1. k # 0 => g[k - 1] = f[k - 1] BY <2>4, <2>6, <3>2
      <4>2. g[k] = f[k] BY <2>6, <3>2
      <4>3. f[k] = IF k = 0 THEN base ELSE step[k][f[k - 1]] BY <2>7, <3>2, Zenon
      <4> QED BY <4>1, <4>2, <4>3
    <3> QED BY <2>4, <3>1, <3>2
  <2>9. Is(g, m + 1)
    <3>1. g = [k \in 0 .. m + 1 |-> g[k]] BY <2>5
    <3> QED BY <2>8, <3>1, Zenon
  <2> HIDE DEF Is
  <2> QED BY <2>5, <2>9
<1> HIDE DEF W
<1>3. n \in W BY <1>1, <1>2, Inductive
<1>4. n \in 0 .. n OBVIOUS
<1>5. PICK h \in [0 .. n -> V] : Is(h, n) BY <1>3, <1>4 DEF W
<1>6. Iterated(h, n, V, base, step) BY <1>5, Zenon DEF Iterated
<1> QED BY <1>6

-----------------------------------------------------------------------------
(* Waves.                                                                  *)

SomeRequirements == N \in Nat \ {0} /\ Lanes \in Nat

PlanShape ==
  /\ next \in P!Tasks
  /\ deps \in [P!Tasks -> SUBSET P!Tasks]
  /\ wave \in [P!Tasks -> Nat]
  /\ queue \in SUBSET P!Tasks
  /\ \A i \in P!Tasks : \A d \in deps[i] : d < i

(* While depths are computed: those of the tasks before next are right.    *)
Deepened ==
  /\ queue = {}
  /\ \A i \in P!Tasks : i < next => \A d \in deps[i] : wave[d] < wave[i]

(* While tasks move: M are those that have moved since waves respected the *)
(* dependencies, each by one.  A moved task has caught up with no more     *)
(* than what waits in the queue for its dependents to follow.              *)
Lagging(M) ==
  /\ queue \subseteq M
  /\ \A e \in P!Tasks : \A d \in deps[e] :
       /\ d \in M /\ e \notin M => wave[d] < wave[e] \/ (wave[d] = wave[e] /\ d \in queue)
       /\ (d \in M <=> e \in M) => wave[d] < wave[e]
       /\ d \notin M /\ e \in M => wave[d] + 1 < wave[e]

Early == phase \in {"prune", "depth"}

PlanInv ==
  /\ PlanShape
  /\ Early => Deepened
  /\ ~Early => \E M \in SUBSET P!Tasks : Lagging(M)

-----------------------------------------------------------------------------
(* Arithmetic of a depth that grows by one.                                *)
LEMMA Steps3 ==
  ASSUME NEW a \in Nat, NEW b \in Nat
  PROVE  /\ a + 1 \in Nat
         /\ a < b => a + 1 < b + 1 /\ a < b + 1 /\ (a + 1 < b \/ a + 1 = b)
         /\ a = b => a < b + 1
         /\ a + 1 < b => a < b
         /\ ~(a < a)
  OBVIOUS

(* Before the first phase PlanInv holds.                                   *)
LEMMA InitPlanInv ==
  ASSUME SomeRequirements, P!Init
  PROVE  PlanInv
<1>1. next \in P!Tasks
  BY DEF SomeRequirements, P!Init, P!Tasks
<1>2. \A i \in P!Tasks : \A d \in deps[i] : d < i
  BY DEF P!Init, P!Tasks
<1>3. deps \in [P!Tasks -> SUBSET P!Tasks] /\ wave \in [P!Tasks -> Nat] /\ queue \in SUBSET P!Tasks
  BY DEF P!Init
<1>4. Deepened
  BY DEF P!Init, Deepened, P!Tasks
<1> QED BY <1>1, <1>2, <1>3, <1>4 DEF P!Init, PlanInv, PlanShape, Early

(* A dependency less is none to respect.                                   *)
LEMMA PruneInv ==
  ASSUME PlanInv, P!Prune
  PROVE  PlanInv'
<1>1. /\ deps' \in [P!Tasks -> SUBSET P!Tasks]
      /\ \A i \in P!Tasks : deps'[i] \subseteq deps[i]
      /\ UNCHANGED <<next, wave, queue>> /\ Early /\ Early'
  BY DEF P!Prune, PlanInv, PlanShape, Early
<1> QED BY <1>1 DEF PlanInv, PlanShape, Deepened

(* The dependencies of a task come before it and have their depths.        *)
LEMMA DepthInv ==
  ASSUME SomeRequirements, PlanInv, P!Depth
  PROVE  PlanInv'
<1>1. PICK n \in 0 .. N : /\ \A d \in deps[next] : wave[d] < n
                          /\ wave' = [wave EXCEPT ![next] = n]
  BY DEF P!Depth
<1>2. /\ Early /\ PlanShape /\ Deepened /\ next \in P!Tasks /\ n \in Nat /\ N \in Nat
      /\ UNCHANGED <<deps, queue>>
      /\ next' = IF next < N THEN next + 1 ELSE next
      /\ phase' = IF next < N THEN "depth" ELSE "waves"
  BY DEF P!Depth, PlanInv, Early, PlanShape, SomeRequirements
<1>3. wave' \in [P!Tasks -> Nat] /\ next' \in P!Tasks
  BY <1>1, <1>2 DEF PlanShape, P!Tasks
<1>4. PlanShape'
  BY <1>2, <1>3 DEF PlanShape
<1>5. ASSUME NEW i \in P!Tasks, i < next \/ i = next, NEW d \in deps[i]
      PROVE  wave'[d] < wave'[i]
  <2>1. d \in P!Tasks /\ d < i BY <1>2 DEF PlanShape
  <2>2. d # next /\ wave'[d] = wave[d]
    BY <2>1, <1>1, <1>2, <1>5 DEF PlanShape, P!Tasks
  <2>3. CASE i = next BY <2>2, <2>3, <1>1, <1>2 DEF PlanShape
  <2>4. CASE i < next
    <3>1. i # next /\ wave'[i] = wave[i] BY <2>4, <1>1, <1>2 DEF PlanShape, P!Tasks
    <3> QED BY <3>1, <2>2, <2>4, <1>2 DEF Deepened
  <2> QED BY <2>3, <2>4, <1>5
<1>6. CASE next < N
  <2>1. \A i \in P!Tasks : i < next + 1 => i < next \/ i = next
    BY <1>2 DEF P!Tasks
  <2>2. Deepened' BY <2>1, <1>2, <1>5, <1>6 DEF Deepened
  <2> QED BY <2>2, <1>2, <1>4, <1>6 DEF PlanInv, Early
<1>7. CASE ~(next < N)
  <2>1. \A i \in P!Tasks : i < next \/ i = next
    BY <1>2, <1>7 DEF P!Tasks
  <2>2. Lagging({})' BY <2>1, <1>2, <1>5 DEF Lagging, Deepened
  <2> QED BY <2>2, <1>2, <1>4, <1>7 DEF PlanInv, Early
<1> QED BY <1>6, <1>7

(* With no one lagging, a task moves by one and catches up at most.        *)
LEMMA MoveInv ==
  ASSUME PlanInv, P!Move
  PROVE  PlanInv'
<1>1. PICK i \in P!Tasks : wave' = [wave EXCEPT ![i] = wave[i] + 1] /\ queue' = {i}
  <2>1. PICK w \in 0 .. N : \E i \in P!Tasks : wave' = [wave EXCEPT ![i] = @ + 1] /\ queue' = {i}
    BY DEF P!Move
  <2> QED BY <2>1 DEF PlanInv, PlanShape
<1>2. /\ ~Early /\ ~Early' /\ PlanShape /\ queue = {} /\ UNCHANGED <<next, deps>>
  BY DEF P!Move, PlanInv, Early
<1>3. PICK M \in SUBSET P!Tasks : Lagging(M)
  BY <1>2 DEF PlanInv
<1>4. \A e \in P!Tasks : \A d \in deps[e] : wave[d] < wave[e]
  <2> SUFFICES ASSUME NEW e \in P!Tasks, NEW d \in deps[e] PROVE wave[d] < wave[e]
    OBVIOUS
  <2>1. wave[d] \in Nat /\ wave[e] \in Nat BY <1>2 DEF PlanShape
  <2> QED BY <2>1, <1>2, <1>3, Steps3 DEF Lagging
<1>5. PlanShape'
  BY <1>1, <1>2 DEF PlanShape
<1>6. ASSUME NEW e \in P!Tasks, NEW d \in deps[e]
      PROVE  /\ d = i /\ e # i => wave'[d] < wave'[e] \/ wave'[d] = wave'[e]
             /\ (d = i <=> e = i) => wave'[d] < wave'[e]
             /\ d # i /\ e = i => wave'[d] + 1 < wave'[e]
  <2>1. d \in P!Tasks /\ wave[d] \in Nat /\ wave[e] \in Nat /\ wave[d] < wave[e]
    BY <1>2, <1>4 DEF PlanShape
  <2>2. d # e BY <2>1, Steps3
  <2>3. wave'[d] = (IF d = i THEN wave[d] + 1 ELSE wave[d])
        /\ wave'[e] = IF e = i THEN wave[e] + 1 ELSE wave[e]
    BY <2>1, <1>1, <1>2 DEF PlanShape
  <2> QED BY <2>1, <2>2, <2>3, Steps3
<1>7. Lagging({i})'
  BY <1>1, <1>2, <1>6 DEF Lagging
<1> QED BY <1>2, <1>5, <1>7 DEF PlanInv

(* Those a task has caught up with have not moved yet, move on by one, and *)
(* wait for their own dependents in turn.                                  *)
LEMMA CascadeInv ==
  ASSUME PlanInv, P!Cascade, ~Early, UNCHANGED phase
  PROVE  PlanInv'
<1>1. PICK t \in queue :
        /\ wave' = [e \in P!Tasks |-> IF e \in P!After(t) THEN wave[e] + 1 ELSE wave[e]]
        /\ queue' = (queue \ {t}) \cup P!After(t)
        /\ UNCHANGED <<next, deps>>
  BY DEF P!Cascade
<1>2. PlanShape /\ t \in P!Tasks /\ P!After(t) \subseteq P!Tasks
  BY DEF PlanInv, PlanShape, P!After
<1>3. PICK M \in SUBSET P!Tasks : Lagging(M)
  BY DEF PlanInv
<1>4. PlanShape'
  BY <1>1, <1>2 DEF PlanShape
<1>5. \A e \in P!After(t) : e \notin M
  <2> SUFFICES ASSUME NEW e \in P!After(t), e \in M PROVE FALSE
    OBVIOUS
  <2>1. e \in P!Tasks /\ t \in deps[e] /\ wave[e] = wave[t] /\ t \in M /\ wave[t] \in Nat
    BY <1>2, <1>3 DEF P!After, Lagging, PlanShape
  <2>2. wave[t] < wave[e] BY <2>1, <1>3 DEF Lagging
  <2> QED BY <2>1, <2>2, Steps3
<1>6. PICK A : A = P!After(t)
  OBVIOUS
<1>7. ASSUME NEW e \in P!Tasks, NEW d \in deps[e]
      PROVE  /\ d \in M \cup A /\ e \notin M \cup A =>
                  wave'[d] < wave'[e] \/ (wave'[d] = wave'[e] /\ d \in queue')
             /\ (d \in M \cup A <=> e \in M \cup A) => wave'[d] < wave'[e]
             /\ d \notin M \cup A /\ e \in M \cup A => wave'[d] + 1 < wave'[e]
  <2>1. d \in P!Tasks /\ wave[d] \in Nat /\ wave[e] \in Nat
    BY <1>2 DEF PlanShape
  <2>2. wave'[d] = (IF d \in A THEN wave[d] + 1 ELSE wave[d])
        /\ wave'[e] = IF e \in A THEN wave[e] + 1 ELSE wave[e]
    BY <2>1, <1>1, <1>6
  <2>3. /\ d \in M /\ e \notin M => wave[d] < wave[e] \/ (wave[d] = wave[e] /\ d \in queue)
        /\ (d \in M <=> e \in M) => wave[d] < wave[e]
        /\ d \notin M /\ e \in M => wave[d] + 1 < wave[e]
    BY <1>3 DEF Lagging
  <2>4. (d \in A => d \notin M /\ d \in queue') /\ (e \in A => e \notin M)
    BY <1>1, <1>5, <1>6
  <2>5. d = t /\ wave[d] = wave[e] => e \in A
    BY <1>6 DEF P!After
  <2>6. d \in queue /\ d # t => d \in queue'
    BY <1>1
  <2>7. CASE e \in A
    <3>1. CASE d \in A
      BY <3>1, <2>1, <2>2, <2>3, <2>4, <2>7, Steps3
    <3>2. CASE d \in M
      BY <3>2, <2>1, <2>2, <2>3, <2>4, <2>7, Steps3
    <3>3. CASE d \notin M \cup A
      BY <3>3, <2>1, <2>2, <2>3, <2>4, <2>7, Steps3
    <3> QED BY <3>1, <3>2, <3>3
  <2>8. CASE e \notin A
    <3>1. CASE d \in A
      BY <3>1, <2>1, <2>2, <2>3, <2>4, <2>8, Steps3
    <3>2. CASE d \notin A
      BY <3>2, <2>1, <2>2, <2>3, <2>5, <2>6, <2>8, Steps3
    <3> QED BY <3>1, <3>2
  <2> QED BY <2>7, <2>8
<1>8. queue' \subseteq M \cup A
  BY <1>1, <1>3, <1>6 DEF Lagging
<1>9. Lagging(M \cup A)'
  BY <1>1, <1>7, <1>8 DEF Lagging
<1>10. M \cup A \in SUBSET P!Tasks
  BY <1>2, <1>6
<1>11. UNCHANGED phase /\ ~Early
  OBVIOUS
<1> QED BY <1>4, <1>9, <1>10, <1>11 DEF PlanInv, Early

(* Nothing that comes after the waves changes them.                        *)
LEMMA LaterInv ==
  ASSUME PlanInv, UNCHANGED <<next, deps, wave, queue>>, ~Early, ~Early'
  PROVE  PlanInv'
BY DEF PlanInv, PlanShape, Lagging

(* A queue is only filled while waves are found.                           *)
LEMMA CascadeIsInWaves ==
  ASSUME PlanInv, P!Cascade
  PROVE  ~Early /\ UNCHANGED phase
BY DEF PlanInv, Deepened, P!Cascade

(* No phase of drafting or compiling disturbs PlanInv.                     *)
LEMMA NextPlanInv ==
  ASSUME SomeRequirements, PlanInv, [P!Next]_(P!vars)
  PROVE  PlanInv'
<1>1. CASE UNCHANGED P!vars
  BY <1>1 DEF P!vars, PlanInv, PlanShape, Early, Deepened, Lagging
<1>2. CASE P!Prune BY <1>2, PruneInv
<1>3. CASE P!Depth BY <1>3, DepthInv
<1>4. CASE P!Move BY <1>4, MoveInv
<1>5. CASE P!Cascade BY <1>5, CascadeInv, CascadeIsInWaves
<1>6. CASE P!Draft BY <1>6, LaterInv DEF P!Draft, Early
<1>7. CASE P!CompilePlan BY <1>7, LaterInv DEF P!CompilePlan, Early
<1>8. CASE P!EditPlan BY <1>8, LaterInv DEF P!EditPlan, P!Edit, Early
<1> QED BY <1>1, <1>2, <1>3, <1>4, <1>5, <1>6, <1>7, <1>8 DEF P!Next, P!Drafting

(* Whatever is moved out of the way of whatever, a task comes in a later   *)
(* wave than everything it depends on (compiler.go:202).                   *)
THEOREM WavesFollowDeps ==
  ASSUME SomeRequirements
  PROVE  Spec => []WavesRespectDeps
<1> DEFINE I == part = "plan" => PlanInv
<1>1. Init => I BY PartInit, InitPlanInv
<1>2. I /\ [Next]_<<NotPlan, planVars>> => I' BY PartStep, NextPlanInv
<1>3. PlanInv => P!WavesRespectDeps
  <2> SUFFICES ASSUME PlanInv, ~Early, queue = {}, NEW i \in P!Tasks, NEW d \in deps[i]
               PROVE  wave[d] < wave[i]
    BY DEF P!WavesRespectDeps, Early
  <2>1. PICK M \in SUBSET P!Tasks : Lagging(M) BY DEF PlanInv
  <2>2. wave[d] \in Nat /\ wave[i] \in Nat BY DEF PlanInv, PlanShape
  <2> QED BY <2>1, <2>2, Steps3 DEF Lagging
<1>4. I => WavesRespectDeps BY <1>3 DEF WavesRespectDeps
<1> QED BY <1>1, <1>2, <1>4, PTL DEF Spec

-----------------------------------------------------------------------------
(* The drafted plan.                                                       *)

(* scopeForGroup falls back to a default path (compiler.go:794).           *)
SomePaths == \A paths \in Owned : paths # {}

(* Every task of G above the first wave has one of G in the wave below.    *)
Grounded(G) == \A i \in G : wave[i] = 0 \/ \E j \in G : wave[j] + 1 = wave[i]

Later == phase \in {"plan", "compiled"}

(* The plan as Draft has written it.                                       *)
Drafted ==
  slices = [i \in P!Tasks |->
    [wave |-> wave[i], deps |-> deps[i], reqs |-> {i}, own |-> owned[i],
     files |-> IF P!Touched(i) # {} THEN P!Touched(i) ELSE owned[i]]]

(* What a drafted plan compiles to.                                        *)
Compiled ==
  tickets = [i \in P!Tasks |-> deps[i] \cup {j \in P!Tasks : wave[j] + 1 = wave[i]}]

(* No wave is left out, so there are no more waves than tasks, and Draft   *)
(* has looked at all of them.  A plan no user has edited is as drafted.    *)
DraftInv ==
  /\ PlanInv
  /\ owned \in [P!Tasks -> Owned] /\ edits \in Nat
  /\ Early => /\ Grounded({i \in P!Tasks : i < next})
              /\ \A i \in P!Tasks : i < next \/ wave[i] = 0
  /\ ~Early => Grounded(P!Tasks)
  /\ Later => queue = {}
  /\ Later /\ edits = 0 => Drafted /\ \A w \in 0 .. N : P!ConflictsIn(w) = {}
  /\ phase = "compiled" /\ edits = 0 => Compiled

(* Before the first phase DraftInv holds.                                  *)
LEMMA InitDraftInv ==
  ASSUME SomeRequirements, P!Init
  PROVE  DraftInv
<1>1. PlanInv BY InitPlanInv
<1>2. Early /\ ~Later BY DEF P!Init, Early, Later
<1>3. owned \in [P!Tasks -> Owned] /\ edits = 0 /\ next = 1 BY DEF P!Init
<1>4. \A i \in P!Tasks : wave[i] = 0 BY DEF P!Init
<1>5. Grounded({i \in P!Tasks : i < next}) BY <1>4 DEF Grounded
<1>6. phase # "compiled" BY DEF P!Init
<1> QED BY <1>1, <1>2, <1>3, <1>4, <1>5, <1>6 DEF DraftInv

(* The wave of a task is found above those of its dependencies.            *)
LEMMA DepthGrounds ==
  ASSUME SomeRequirements, DraftInv, P!Depth, PlanInv'
  PROVE  DraftInv'
<1>1. PICK n \in 0 .. N : /\ n = 0 \/ \E d \in deps[next] : wave[d] + 1 = n
                          /\ wave' = [wave EXCEPT ![next] = n]
  BY DEF P!Depth
<1>2. /\ Early /\ PlanShape /\ next \in P!Tasks /\ n \in Nat /\ N \in Nat
      /\ UNCHANGED <<deps, queue, owned, edits>>
      /\ next' = IF next < N THEN next + 1 ELSE next
      /\ phase' = IF next < N THEN "depth" ELSE "waves"
  BY DEF P!Depth, PlanInv, Early, PlanShape, SomeRequirements, DraftInv, P!inputs
<1> DEFINE G == {i \in P!Tasks : i < next}
<1>3. Grounded(G) /\ \A i \in P!Tasks : i < next \/ wave[i] = 0
  BY <1>2 DEF DraftInv
<1>4. wave'[next] = n /\ \A i \in P!Tasks : i # next => wave'[i] = wave[i]
  BY <1>1, <1>2 DEF PlanShape
<1>5. \A i \in G : i # next
  BY <1>2 DEF P!Tasks
<1>6. ASSUME NEW i \in G \cup {next}
      PROVE  wave'[i] = 0 \/ \E j \in G \cup {next} : wave'[j] + 1 = wave'[i]
  <2>1. CASE i \in G
    <3>1. wave'[i] = wave[i] BY <1>4, <1>5, <2>1
    <3>2. \A j \in G : wave'[j] = wave[j] BY <1>4, <1>5
    <3> QED BY <1>3, <2>1, <3>1, <3>2 DEF Grounded
  <2>2. CASE i = next
    <3>1. CASE n = 0 BY <1>4, <2>2, <3>1
    <3>2. CASE \E d \in deps[next] : wave[d] + 1 = n
      <4>1. PICK d \in deps[next] : wave[d] + 1 = n BY <3>2
      <4>2. d \in G BY <1>2 DEF PlanShape
      <4>3. wave'[d] = wave[d] BY <1>4, <1>5, <4>2
      <4> QED BY <1>4, <2>2, <4>1, <4>2, <4>3
    <3> QED BY <1>1, <3>1, <3>2
  <2> QED BY <1>6, <2>1, <2>2
<1>7. PICK H : H = G \cup {next}
  OBVIOUS
<1>10. \A i \in H : wave'[i] = 0 \/ \E j \in H : wave'[j] + 1 = wave'[i]
  BY <1>6, <1>7
<1>8. CASE next < N
  <2>1. next' = next + 1 /\ {i \in P!Tasks : i < next + 1} = G \cup {next}
    BY <1>2, <1>8 DEF P!Tasks
  <2>2. \A i \in P!Tasks : i < next + 1 \/ wave'[i] = 0
    <3>1. \A i \in P!Tasks : i < next + 1 \/ (~(i < next) /\ i # next)
      BY <1>2 DEF P!Tasks
    <3> QED BY <1>3, <1>4, <3>1
  <2>3. Grounded({i \in P!Tasks : i < next})'
    <3>1. {i \in P!Tasks : i < next'} = H BY <1>7, <2>1
    <3> QED BY <1>10, <3>1 DEF Grounded
  <2> QED BY <1>2, <1>8, <2>1, <2>2, <2>3 DEF DraftInv, Early, Later
<1>9. CASE ~(next < N)
  <2>1. H = P!Tasks
    BY <1>2, <1>7, <1>9 DEF P!Tasks
  <2>2. Grounded(P!Tasks)'
    BY <1>10, <2>1 DEF Grounded
  <2> QED BY <1>2, <1>9, <2>2 DEF DraftInv, Early, Later
<1> QED BY <1>8, <1>9

(* A task leaves a wave in which another remains.                          *)
LEMMA MoveGrounds ==
  ASSUME DraftInv, P!Move, PlanInv'
  PROVE  DraftInv'
<1>1. PICK w \in 0 .. N, i \in P!Tasks : i \in P!InConflict(w) /\ wave' = [wave EXCEPT ![i] = @ + 1]
  BY DEF P!Move
<1>2. wave \in [P!Tasks -> Nat] /\ phase = "waves" /\ UNCHANGED <<phase, owned, edits>>
  BY DEF DraftInv, PlanInv, PlanShape, P!Move, P!inputs
<1>3. PICK c \in P!ConflictsIn(w) : i \in {c[1], c[2]}
  BY <1>1 DEF P!InConflict
<1>4. PICK j \in P!Tasks : j # i /\ wave[j] = w /\ wave[i] = w
  <2>1. c[1] \in P!Tasks /\ c[2] \in P!Tasks /\ c[1] < c[2] /\ wave[c[1]] = w /\ wave[c[2]] = w
    BY <1>3 DEF P!ConflictsIn
  <2>2. c[1] # c[2] BY <2>1 DEF P!Tasks
  <2> QED BY <1>3, <2>1, <2>2
<1>5. Grounded(P!Tasks) BY <1>2 DEF DraftInv, Early
<1>6. wave'[i] = wave[i] + 1 /\ \A k \in P!Tasks : k # i => wave'[k] = wave[k]
  BY <1>1, <1>2
<1>7. ASSUME NEW k \in P!Tasks
      PROVE  wave'[k] = 0 \/ \E l \in P!Tasks : wave'[l] + 1 = wave'[k]
  <2>1. CASE k = i BY <1>4, <1>6, <2>1
  <2>2. CASE k # i
    <3>1. wave'[k] = wave[k] BY <1>6, <2>2
    <3>2. CASE wave[k] = 0 BY <3>1, <3>2
    <3>3. CASE wave[k] # 0
      <4>1. PICK l \in P!Tasks : wave[l] + 1 = wave[k] BY <1>5, <3>3 DEF Grounded
      <4>2. CASE l = i BY <1>4, <1>6, <3>1, <4>1, <4>2
      <4>3. CASE l # i BY <1>6, <3>1, <4>1, <4>3
      <4> QED BY <4>2, <4>3
    <3> QED BY <3>2, <3>3
  <2> QED BY <2>1, <2>2
<1>8. Grounded(P!Tasks)' BY <1>7 DEF Grounded
<1> QED BY <1>2, <1>8 DEF DraftInv, Early, Later

(* What a moved task has caught up with is found above that task.          *)
LEMMA CascadeGrounds ==
  ASSUME DraftInv, P!Cascade, PlanInv'
  PROVE  DraftInv'
<1>1. PICK t \in queue :
        wave' = [e \in P!Tasks |-> IF e \in P!After(t) THEN wave[e] + 1 ELSE wave[e]]
  BY DEF P!Cascade
<1>2. /\ wave \in [P!Tasks -> Nat] /\ ~Early /\ ~Later /\ t \in P!Tasks
      /\ UNCHANGED <<phase, owned, edits>> /\ deps \in [P!Tasks -> SUBSET P!Tasks]
      /\ \A i \in P!Tasks : \A d \in deps[i] : d < i
  BY CascadeIsInWaves, <1>1 DEF DraftInv, PlanInv, PlanShape, P!Cascade, P!inputs
<1>3. t \notin P!After(t) /\ \A e \in P!After(t) : e \in P!Tasks /\ wave[e] = wave[t]
  BY <1>2 DEF P!After, P!Tasks
<1>4. wave'[t] = wave[t] BY <1>1, <1>2, <1>3
<1>5. Grounded(P!Tasks) BY <1>2 DEF DraftInv
<1>6. ASSUME NEW k \in P!Tasks
      PROVE  wave'[k] = 0 \/ \E l \in P!Tasks : wave'[l] + 1 = wave'[k]
  <2>1. CASE k \in P!After(t)
    <3>1. wave'[k] = wave[t] + 1 BY <1>1, <1>3, <2>1
    <3> QED BY <1>2, <1>4, <3>1
  <2>2. CASE k \notin P!After(t)
    <3>1. wave'[k] = wave[k] BY <1>1, <2>2
    <3>2. CASE wave[k] = 0 BY <3>1, <3>2
    <3>3. CASE wave[k] # 0
      <4>1. PICK l \in P!Tasks : wave[l] + 1 = wave[k] BY <1>5, <3>3 DEF Grounded
      <4>2. CASE l \in P!After(t)
        <5>1. wave[l] = wave[t] BY <1>3, <4>2
        <5> QED BY <1>2, <1>4, <3>1, <4>1, <5>1
      <4>3. CASE l \notin P!After(t) BY <1>1, <3>1, <4>1, <4>3
      <4> QED BY <4>2, <4>3
    <3> QED BY <3>2, <3>3
  <2> QED BY <2>1, <2>2
<1>7. Grounded(P!Tasks)' BY <1>6 DEF Grounded
<1>8. ~Early' /\ ~Later' BY <1>2 DEF Early, Later
<1>9. phase' # "compiled" BY <1>8 DEF Later
<1> QED BY <1>2, <1>7, <1>8, <1>9 DEF DraftInv

(* No phase of drafting or compiling disturbs DraftInv.                    *)
LEMMA NextDraftInv ==
  ASSUME SomeRequirements, DraftInv, [P!Next]_(P!vars)
  PROVE  DraftInv'
<1>0. PlanInv' BY NextPlanInv DEF DraftInv
<1>1. CASE UNCHANGED P!vars
  <2>1. UNCHANGED <<lane, owned, inventory, phase, next, deps, wave, queue, slices, edits, tickets>>
    BY <1>1 DEF P!vars, P!inputs
  <2>2. (\A w \in 0 .. N : P!ConflictsIn(w) = {}) => (\A w \in 0 .. N : P!ConflictsIn(w) = {})'
    BY <2>1 DEF P!ConflictsIn, P!Conflict, P!Touched
  <2>3. Drafted => Drafted'
    BY <2>1 DEF Drafted, P!Touched
  <2>4. Compiled => Compiled'
    BY <2>1 DEF Compiled
  <2> QED BY <1>0, <2>1, <2>2, <2>3, <2>4 DEF DraftInv, Early, Later, Grounded
<1>2. CASE P!Prune
  BY <1>0, <1>2 DEF P!Prune, P!inputs, DraftInv, Early, Later, Grounded
<1>3. CASE P!Depth BY <1>0, <1>3, DepthGrounds
<1>4. CASE P!Move BY <1>0, <1>4, MoveGrounds
<1>5. CASE P!Cascade BY <1>0, <1>5, CascadeGrounds
<1>6. CASE P!Draft
  <2>1. /\ UNCHANGED <<lane, owned, inventory, deps, wave, queue, edits>> /\ queue = {}
        /\ phase = "waves" /\ phase' = "plan"
        /\ \A w \in 0 .. N : P!ConflictsIn(w) = {}
    BY <1>6 DEF P!Draft, P!inputs
  <2>2. Drafted'
    BY <1>6, <2>1 DEF P!Draft, Drafted, P!Touched
  <2>3. (\A w \in 0 .. N : P!ConflictsIn(w) = {})'
    BY <2>1 DEF P!ConflictsIn, P!Conflict, P!Touched
  <2>4. Grounded(P!Tasks)'
    BY <2>1 DEF DraftInv, Early, Grounded
  <2> QED BY <1>0, <2>1, <2>2, <2>3, <2>4 DEF DraftInv, Early, Later
<1>7. CASE P!CompilePlan
  <2>1. /\ UNCHANGED <<lane, owned, inventory, deps, wave, queue, slices, edits>>
        /\ phase = "plan" /\ phase' = "compiled"
        /\ tickets' = [i \in DOMAIN slices |-> slices[i].deps \cup P!Barrier(i)]
    BY <1>7 DEF P!CompilePlan, P!inputs
  <2>2. Grounded(P!Tasks)'
    BY <2>1 DEF DraftInv, Early, Grounded
  <2>3. edits = 0 => Drafted /\ \A w \in 0 .. N : P!ConflictsIn(w) = {}
    BY <2>1 DEF DraftInv, Later
  <2>4. edits = 0 => Drafted'
    BY <2>1, <2>3 DEF Drafted, P!Touched
  <2>5. edits = 0 => (\A w \in 0 .. N : P!ConflictsIn(w) = {})'
    BY <2>1, <2>3 DEF P!ConflictsIn, P!Conflict, P!Touched
  <2>6. edits = 0 => Compiled'
    BY <2>1, <2>3 DEF Drafted, Compiled, P!Barrier
  <2>7. queue' = {} BY <2>1 DEF DraftInv, Later
  <2> QED BY <1>0, <2>1, <2>2, <2>4, <2>5, <2>6, <2>7 DEF DraftInv, Early, Later
<1>8. CASE P!EditPlan
  <2>1. /\ UNCHANGED <<owned, phase, wave, queue>> /\ phase = "plan" /\ edits' = edits + 1
    BY <1>8 DEF P!EditPlan, P!Edit, P!inputs
  <2>2. edits' \in Nat /\ edits' # 0 BY <2>1 DEF DraftInv
  <2>3. Grounded(P!Tasks)'
    BY <2>1 DEF DraftInv, Early, Grounded
  <2> QED BY <1>0, <2>1, <2>2, <2>3 DEF DraftInv, Early, Later
<1> QED BY <1>1, <1>2, <1>3, <1>4, <1>5, <1>6, <1>7, <1>8 DEF P!Next, P!Drafting

(* The waves up to that of any task have tasks in them.                    *)
LEMMA Occupied ==
  ASSUME wave \in [P!Tasks -> Nat], Grounded(P!Tasks), NEW i \in P!Tasks
  PROVE  \A k \in 0 .. wave[i] : \E j \in P!Tasks : wave[j] = k
<1> DEFINE W == {k \in 0 .. wave[i] : ~\E j \in P!Tasks : wave[j] = k}
<1> SUFFICES ASSUME W # {} PROVE FALSE
  OBVIOUS
<1>1. wave[i] \in Nat /\ W \in SUBSET (0 .. wave[i])
  OBVIOUS
<1>2. PICK m \in W : \A k \in W : k <= m
  <2> HIDE DEF W
  <2> QED BY <1>1, Greatest
<1>3. m # wave[i] /\ m \in 0 .. wave[i] /\ ~\E j \in P!Tasks : wave[j] = m
  OBVIOUS
<1>4. m + 1 \in 0 .. wave[i] /\ ~(m + 1 <= m)
  BY <1>1, <1>3
<1>5. PICK j \in P!Tasks : wave[j] = m + 1
  BY <1>2, <1>4
<1>6. PICK l \in P!Tasks : wave[l] + 1 = wave[j]
  <2>1. m + 1 # 0 BY <1>1, <1>3
  <2> QED BY <1>5, <2>1 DEF Grounded
<1>7. wave[l] = m
  <2>1. \A a, b \in Nat : a + 1 = b + 1 => a = b OBVIOUS
  <2> QED BY <1>1, <1>3, <1>5, <1>6, <2>1
<1> QED BY <1>3, <1>7

(* There are no more waves than tasks.                                     *)
LEMMA WavesAreFew ==
  ASSUME SomeRequirements, wave \in [P!Tasks -> Nat], Grounded(P!Tasks), NEW i \in P!Tasks
  PROVE  wave[i] \in 0 .. N
<1>1. wave[i] \in Nat /\ N \in Nat BY DEF SomeRequirements
<1> SUFFICES ASSUME N < wave[i] PROVE FALSE
  BY <1>1
<1> DEFINE U == 0 .. wave[i]
           f == [k \in U |-> CHOOSE j \in P!Tasks : wave[j] = k]
<1>2. \A k \in U : f[k] \in P!Tasks /\ wave[f[k]] = k
  BY Occupied
<1>3. f \in [U -> P!Tasks] BY <1>2
<1>4. IsFiniteSet(U) /\ Cardinality(U) = wave[i] + 1
  <2>1. 0 \in Int /\ wave[i] \in Int /\ ~(0 > wave[i]) /\ wave[i] - 0 + 1 = wave[i] + 1 BY <1>1
  <2> QED BY <2>1, FS_Interval
<1>5. IsFiniteSet(P!Tasks) /\ Cardinality(P!Tasks) = N
  <2>1. 1 \in Int /\ N \in Int /\ ~(1 > N) /\ N - 1 + 1 = N BY <1>1 DEF SomeRequirements
  <2> QED BY <2>1, FS_Interval DEF P!Tasks
<1>6. Cardinality(P!Tasks) < Cardinality(U) BY <1>1, <1>4, <1>5
<1> HIDE DEF U, f
<1>7. PICK x, y \in U : x # y /\ f[x] = f[y]
  BY <1>3, <1>4, <1>5, <1>6, FS_PigeonHole
<1> QED BY <1>2, <1>7

(* A relation along which waves fall has no circle.                        *)
LEMMA FallingIsAcyclic ==
  ASSUME wave \in [P!Tasks -> Nat], NEW to,
         \A x \in P!Tasks : \A y \in to[x] : y \in P!Tasks => wave[y] < wave[x]
  PROVE  P!Acyclic(P!Tasks, to)
<1> SUFFICES ASSUME NEW X \in (SUBSET P!Tasks) \ {{}}, \A x \in X : to[x] \cap X # {}
             PROVE  FALSE
  BY DEF P!Acyclic
<1> DEFINE W == {wave[x] : x \in X}
<1>1. W \in SUBSET Nat /\ W # {} OBVIOUS
<1> HIDE DEF W
<1>2. PICK m \in W : \A k \in W : m <= k BY <1>1, Least
<1>3. PICK x \in X : wave[x] = m BY <1>2 DEF W
<1>4. PICK y \in X : y \in to[x] BY <1>3
<1>5. wave[y] < wave[x] /\ wave[y] \in Nat /\ wave[x] \in Nat BY <1>3, <1>4
<1>6. wave[x] <= wave[y] BY <1>2, <1>3, <1>4 DEF W
<1> QED BY <1>5, <1>6

(* Two tasks of a drafted plan in one wave do not conflict.                *)
LEMMA Apart ==
  ASSUME SomeRequirements, DraftInv, Later, edits = 0,
         NEW i \in P!Tasks, NEW j \in P!Tasks, i < j, P!Conflict(i, j)
  PROVE  wave[i] # wave[j]
<1> SUFFICES ASSUME wave[i] = wave[j] PROVE FALSE OBVIOUS
<1>1. wave[i] \in 0 .. N
  BY WavesAreFew DEF DraftInv, PlanInv, PlanShape, Later, Early
<1>2. P!ConflictsIn(wave[i]) = {} BY <1>1 DEF DraftInv
<1>3. <<i, j>> \in P!ConflictsIn(wave[i]) BY DEF P!ConflictsIn
<1> QED BY <1>2, <1>3

(* The waves of a drafted plan are in order. *)
LEMMA InOrder ==
  ASSUME DraftInv, Later
  PROVE  /\ wave \in [P!Tasks -> Nat] /\ deps \in [P!Tasks -> SUBSET P!Tasks] /\ Grounded(P!Tasks)
         /\ \A e \in P!Tasks : \A d \in deps[e] : wave[d] < wave[e]
<1>1. PlanShape /\ ~Early /\ Grounded(P!Tasks) /\ queue = {} BY DEF DraftInv, PlanInv, Later, Early
<1>2. PICK M \in SUBSET P!Tasks : Lagging(M) BY <1>1 DEF DraftInv, PlanInv
<1>3. ASSUME NEW e \in P!Tasks, NEW d \in deps[e] PROVE wave[d] < wave[e]
  <2>1. wave[d] \in Nat /\ wave[e] \in Nat BY <1>1 DEF PlanShape
  <2> QED BY <1>1, <1>2, <2>1, Steps3 DEF Lagging
<1> QED BY <1>1, <1>3 DEF PlanShape

(* Whatever the lanes, paths and files, the engine's review accepts what   *)
(* the engine has drafted (compiler.go:202, plan.go:266).                  *)
THEOREM DraftsAreAccepted ==
  ASSUME SomeRequirements, SomePaths
  PROVE  Spec => []DraftPassesReview
<1> DEFINE I == part = "plan" => DraftInv
<1>1. Init => I BY PartInit, InitDraftInv
<1>2. I /\ [Next]_<<NotPlan, planVars>> => I' BY PartStep, NextDraftInv
<1>3. ASSUME DraftInv, phase = "plan", edits = 0 PROVE P!ReviewPasses
  <2>1. /\ Later /\ Drafted /\ wave \in [P!Tasks -> Nat] /\ deps \in [P!Tasks -> SUBSET P!Tasks]
        /\ owned \in [P!Tasks -> Owned]
        /\ \A e \in P!Tasks : \A d \in deps[e] : wave[d] < wave[e]
        /\ \A e \in P!Tasks : \A d \in deps[e] : d < e
    BY <1>3, InOrder DEF DraftInv, Later, PlanInv, PlanShape
  <2>2. DOMAIN slices = P!Tasks /\ 1 \in P!Tasks
    BY <2>1 DEF Drafted, SomeRequirements, P!Tasks
  <2>3. ASSUME NEW i \in P!Tasks
        PROVE  P!EdgeFindings(i) = {} /\ slices[i].reqs # {} /\ slices[i].own # {}
    <3>1. \A d \in deps[i] : d # i /\ d \in P!Tasks /\ wave[d] # wave[i]
      <4>1. \A d \in deps[i] : wave[d] \in Nat /\ wave[i] \in Nat /\ d \in P!Tasks BY <2>1
      <4> QED BY <2>1, <4>1 DEF P!Tasks
    <3>2. slices[i].deps = deps[i] /\ slices[i].wave = wave[i] /\ slices[i].reqs = {i}
          /\ slices[i].own = owned[i]
      BY <2>1 DEF Drafted
    <3>3. \A d \in P!Tasks : slices[d].wave = wave[d] BY <2>1 DEF Drafted
    <3>4. P!EdgeFindings(i) = {} BY <2>2, <3>1, <3>2, <3>3 DEF P!EdgeFindings
    <3> QED BY <2>1, <3>2, <3>4 DEF SomePaths
  <2>4. P!Acyclic(DOMAIN slices, P!Deps)
    <3>1. \A x \in P!Tasks : P!Deps[x] = deps[x] BY <2>1, <2>2 DEF P!Deps, Drafted
    <3>2. P!Acyclic(P!Tasks, P!Deps) BY <2>1, <3>1, FallingIsAcyclic
    <3> QED BY <2>2, <3>2
  <2>5. ASSUME NEW i \in P!Tasks, NEW j \in P!Tasks, i < j PROVE ~P!Clash(i, j)
    <3>1. ASSUME NEW k \in P!Tasks
          PROVE  /\ slices[k].wave = wave[k]
                 /\ P!Paths(k) = P!ConflictPaths(P!Touched(k), owned[k])
      <4>1. slices[k].files # {}
        BY <2>1 DEF Drafted, SomePaths
      <4> QED BY <2>1, <4>1 DEF Drafted, P!Paths, P!ConflictPaths
    <3>2. P!Clash(i, j) => wave[i] = wave[j] /\ P!Conflict(i, j)
      BY <3>1 DEF P!Clash, P!Conflict
    <3> QED BY <1>3, <2>1, <2>5, <3>2, Apart
  <2>6. P!WaveFindings = {} BY <2>2, <2>5 DEF P!WaveFindings
  <2>7. P!Uncovered = {} BY <2>1, <2>2 DEF P!Uncovered, Drafted
  <2> QED BY <2>2, <2>3, <2>4, <2>6, <2>7 DEF P!ReviewPasses
<1>4. I => DraftPassesReview BY <1>3 DEF DraftPassesReview, P!DraftPassesReview
<1> QED BY <1>1, <1>2, <1>4, PTL DEF Spec

(* A set closed under what the tickets wait for holds all waves below.     *)
LEMMA BelowIsReached ==
  ASSUME DraftInv, phase = "compiled", edits = 0,
         NEW i \in P!Tasks, NEW j \in P!Tasks, wave[j] < wave[i]
  PROVE  P!Reaches(i, j)
<1>1. /\ Later /\ Compiled /\ wave \in [P!Tasks -> Nat] /\ Grounded(P!Tasks)
  BY InOrder DEF DraftInv, Later
<1> SUFFICES ASSUME NEW X \in SUBSET P!Tasks, i \in X, \A x \in X : tickets[x] \subseteq X
             PROVE  j \in X
  BY <1>1 DEF P!Reaches, Compiled
<1>2. \A x \in X, y \in P!Tasks : wave[y] + 1 = wave[x] => y \in X
  BY <1>1 DEF Compiled
<1> DEFINE W == {k \in 0 .. wave[i] : k # wave[i] /\ \E y \in P!Tasks : wave[y] = k /\ y \notin X}
<1> SUFFICES ASSUME W # {} PROVE FALSE
  BY <1>1
<1>3. wave[i] \in Nat /\ W \in SUBSET (0 .. wave[i]) BY <1>1
<1>4. PICK m \in W : \A k \in W : k <= m
  <2> HIDE DEF W
  <2> QED BY <1>3, Greatest
<1>5. PICK y \in P!Tasks : wave[y] = m /\ y \notin X OBVIOUS
<1>6. m + 1 \in 0 .. wave[i] /\ ~(m + 1 <= m) /\ m \in Nat BY <1>3
<1>7. PICK z \in P!Tasks : wave[z] = m + 1 BY <1>1, <1>6, Occupied
<1>8. CASE m + 1 = wave[i] BY <1>2, <1>5, <1>8
<1>9. CASE m + 1 # wave[i]
  <2>1. m + 1 \notin W BY <1>4, <1>6
  <2>2. z \in X BY <1>6, <1>7, <1>9, <2>1
  <2> QED BY <1>2, <1>5, <1>7, <2>2
<1> QED BY <1>8, <1>9

(* Tickets of a drafted plan wait for one another in no circle, and of two *)
(* that touch the same files one waits, in the end, for the other          *)
(* (functional-spec.md:633).                                               *)
THEOREM ConflictsAreApart ==
  ASSUME SomeRequirements
  PROVE  Spec => []ConflictsAreOrdered
<1> DEFINE I == part = "plan" => DraftInv
<1>1. Init => I BY PartInit, InitDraftInv
<1>2. I /\ [Next]_<<NotPlan, planVars>> => I' BY PartStep, NextDraftInv
<1>3. ASSUME DraftInv, phase = "compiled", edits = 0
      PROVE  /\ P!Acyclic(DOMAIN tickets, tickets)
             /\ \A i, j \in P!Tasks : i < j /\ P!Conflict(i, j) => P!Reaches(i, j) \/ P!Reaches(j, i)
  <2>1. /\ Later /\ Compiled /\ wave \in [P!Tasks -> Nat]
        /\ \A e \in P!Tasks : \A d \in deps[e] : wave[d] < wave[e]
    BY <1>3, InOrder DEF DraftInv, Later
  <2>2. DOMAIN tickets = P!Tasks BY <2>1 DEF Compiled
  <2>3. \A x \in P!Tasks : \A y \in tickets[x] : y \in P!Tasks => wave[y] < wave[x]
    <3> SUFFICES ASSUME NEW x \in P!Tasks, NEW y \in tickets[x], y \in P!Tasks
                 PROVE  wave[y] < wave[x]
      OBVIOUS
    <3>1. y \in deps[x] \/ wave[y] + 1 = wave[x] BY <2>1 DEF Compiled
    <3>2. wave[y] \in Nat /\ wave[x] \in Nat BY <2>1
    <3> QED BY <2>1, <3>1, <3>2
  <2>4. P!Acyclic(P!Tasks, tickets) BY <2>1, <2>3, FallingIsAcyclic
  <2>5. ASSUME NEW i \in P!Tasks, NEW j \in P!Tasks, i < j, P!Conflict(i, j)
        PROVE  P!Reaches(i, j) \/ P!Reaches(j, i)
    <3>1. wave[i] # wave[j] BY <1>3, <2>1, <2>5, Apart
    <3>2. wave[i] < wave[j] \/ wave[j] < wave[i] BY <2>1, <3>1
    <3> QED BY <1>3, <3>2, BelowIsReached
  <2> QED BY <2>2, <2>4, <2>5
<1>4. I => ConflictsAreOrdered BY <1>3 DEF ConflictsAreOrdered, P!ConflictsAreOrdered
<1> QED BY <1>1, <1>2, <1>4, PTL DEF Spec

-----------------------------------------------------------------------------
(* The search for cycles.                                                  *)
(* Tickets are numbers here for their order; NoNode is the empty id.       *)
SomeNodes == Nodes \in SUBSET Nat /\ IsFiniteSet(Nodes) /\ NoNode \notin Nodes

SearchTypes ==
  /\ edges \in [Nodes -> SUBSET Nodes] /\ active \in SUBSET Nodes
  /\ color \in [Nodes -> {"white", "gray", "black"}]
  /\ parent \in [Nodes -> Nodes \cup {NoNode}]
  /\ stack \in Seq(active)
  /\ todo \in [Nodes -> SUBSET Nodes]

Depths == 1 .. Len(stack)

(* The gray nodes are the calls in progress, each called for the next.     *)
StackIsPath ==
  /\ \A k \in Depths : color[stack[k]] = "gray"
  /\ \A x \in Nodes : color[x] = "gray" => \E k \in Depths : stack[k] = x
  /\ \A j, k \in Depths : stack[j] = stack[k] => j = k
  /\ \A k \in Depths : k < Len(stack) =>
       parent[stack[k]] = stack[k + 1] /\ stack[k] \in edges[stack[k + 1]]

(* What is still to be looked at is something waited for. *)
TodoIsWaited == \A x \in Nodes : todo[x] \subseteq edges[x]

Unseen == \A x \in Nodes : color[x] = "white" => todo[x] = edges[x]

(* Open tickets, each of which waits for the one before it.                *)
Ring(c) ==
  /\ c \in Seq(active) /\ Len(c) > 0
  /\ \A i, j \in 1 .. Len(c) : c[i] = c[j] => i = j
  /\ \A i \in 1 .. Len(c) : c[IF i = 1 THEN Len(c) ELSE i - 1] \in edges[c[i]]

(* While no cycle is found: what a black node waits for is black, black    *)
(* nodes wait for one another in no circle, and what a gray node has       *)
(* looked at is black or the call it waits for.                            *)
NoneYet ==
  /\ \A x \in Nodes : color[x] = "black" => \A d \in edges[x] \cap active : color[d] = "black"
  /\ \A X \in SUBSET active :
       X # {} /\ (\A x \in X : color[x] = "black") => \E x \in X : edges[x] \cap X = {}
  /\ \A k \in Depths : \A d \in (edges[stack[k]] \ todo[stack[k]]) \cap active :
       color[d] = "black" \/ (k > 1 /\ d = stack[k - 1])

SearchInv ==
  /\ SearchTypes
  /\ StackIsPath
  /\ Unseen
  /\ TodoIsWaited
  /\ \A c \in cycles : Ring(c)
  /\ cycles = {} => NoneYet

-----------------------------------------------------------------------------
(* A stack after a push and after a pop.                                   *)
LEMMA Pushed ==
  ASSUME NEW W, NEW s \in Seq(W), NEW x \in W
  PROVE  /\ <<x>> \o s \in Seq(W) /\ Len(s) \in Nat /\ Len(<<x>> \o s) = Len(s) + 1
         /\ (<<x>> \o s)[1] = x
         /\ \A k \in 1 .. Len(s) : (<<x>> \o s)[k + 1] = s[k]
         /\ \A k \in 1 .. Len(s) + 1 : k = 1 \/ (k - 1 \in 1 .. Len(s) /\ (<<x>> \o s)[k] = s[k - 1])
<1>1. <<x>> \in Seq(W) /\ Len(<<x>>) = 1 /\ <<x>>[1] = x OBVIOUS
<1> DEFINE r == <<x>> \o s
<1>2. /\ r \in Seq(W) /\ Len(r) = Len(<<x>>) + Len(s)
      /\ \A i \in 1 .. Len(<<x>>) + Len(s) :
           r[i] = IF i <= Len(<<x>>) THEN <<x>>[i] ELSE s[i - Len(<<x>>)]
  BY <1>1, ConcatProperties
<1> HIDE DEF r
<1>3. Len(s) \in Nat BY LenProperties
<1>4. Len(r) = Len(s) + 1 BY <1>1, <1>2, <1>3
<1>5. r[1] = x
  <2>1. 1 \in 1 .. Len(<<x>>) + Len(s) /\ 1 <= Len(<<x>>) BY <1>1, <1>3
  <2> QED BY <1>1, <1>2, <2>1
<1>6. ASSUME NEW k \in 1 .. Len(s) PROVE r[k + 1] = s[k]
  <2>1. /\ k + 1 \in 1 .. Len(<<x>>) + Len(s) /\ ~(k + 1 <= Len(<<x>>))
        /\ (k + 1) - Len(<<x>>) = k
    BY <1>1, <1>3
  <2> QED BY <1>2, <2>1
<1>7. ASSUME NEW k \in 1 .. Len(s) + 1, k # 1
      PROVE  k - 1 \in 1 .. Len(s) /\ r[k] = s[k - 1]
  <2>1. k - 1 \in 1 .. Len(s) /\ (k - 1) + 1 = k BY <1>3, <1>7
  <2> QED BY <1>6, <2>1
<1> QED BY <1>2, <1>3, <1>4, <1>5, <1>6, <1>7 DEF r

(* What is left of a stack whose top is taken.                             *)
LEMMA Popped ==
  ASSUME NEW W, NEW s \in Seq(W), s # <<>>
  PROVE  /\ Len(s) \in Nat /\ 1 \in 1 .. Len(s) /\ Head(s) = s[1] /\ s[1] \in W
         /\ Tail(s) \in Seq(W) /\ Len(Tail(s)) = Len(s) - 1
         /\ \A k \in 1 .. Len(s) - 1 : Tail(s)[k] = s[k + 1]
<1>1. Len(s) \in Nat \ {0} BY EmptySeq
<1>2. 1 \in 1 .. Len(s) BY <1>1
<1>3. Head(s) = s[1] OBVIOUS
<1>4. s[1] \in W BY <1>2, ElementOfSeq
<1>5. /\ Tail(s) \in Seq(W) /\ Len(Tail(s)) = Len(s) - 1
      /\ \A k \in 1 .. Len(Tail(s)) : Tail(s)[k] = s[k + 1]
  BY HeadTailProperties
<1> QED BY <1>1, <1>2, <1>3, <1>4, <1>5

-----------------------------------------------------------------------------
(* Rings.                                                                  *)
Before(i, n) == IF i = 1 THEN n ELSE i - 1

(* Where the i-th of n comes from when the first is taken from f. *)
From(i, f, n) == ((f + i - 2) % n) + 1

(* Going around a cycle of n from f stays within it.                       *)
LEMMA Wrapped ==
  ASSUME NEW n \in Nat \ {0}, NEW f \in 1 .. n, NEW i \in 1 .. n
  PROVE  /\ From(i, f, n) = IF f + i - 1 <= n THEN f + i - 1 ELSE f + i - 1 - n
         /\ From(i, f, n) \in 1 .. n
<1> DEFINE a == f + i - 2
<1>1. a \in 0 .. n + n - 2 /\ a \in Nat OBVIOUS
<1>2. \A b \in Nat : b < n => b % n = b
  OBVIOUS
<1>4. CASE a < n
  <2>1. a % n = a BY <1>1, <1>2, <1>4
  <2> QED BY <2>1, <1>4 DEF From
<1>5. CASE ~(a < n)
  <2>1. PICK q \in Int, r \in 0 .. n - 1 : a = n * q + r /\ a % n = r
    <3>1. a % n \in 0 .. n - 1 /\ a \div n \in Int /\ a = n * (a \div n) + (a % n)
      BY <1>1
    <3> QED BY <3>1
  <2>2. q # 0
    <3> SUFFICES ASSUME q = 0 PROVE FALSE OBVIOUS
    <3>1. n * q = 0 OBVIOUS
    <3>2. a = r BY <2>1, <3>1
    <3> QED BY <1>5, <2>1, <3>2
  <2>3. ~(q < 0)
    <3> SUFFICES ASSUME q < 0 PROVE FALSE OBVIOUS
    <3>1. n * q <= 0 OBVIOUS
    <3> QED BY <1>1, <1>5, <2>1, <3>1
  <2>4. ~(q > 1)
    <3> SUFFICES ASSUME q > 1 PROVE FALSE OBVIOUS
    <3>1. PICK p \in Nat : q = p + 2
      <4>1. q - 2 \in Nat /\ q = (q - 2) + 2 OBVIOUS
      <4> QED BY <4>1
    <3>2. n * q = n * p + n + n /\ n * p \in Nat BY <3>1
    <3> QED BY <1>1, <2>1, <3>2
  <2>5. q = 1 BY <2>2, <2>3, <2>4
  <2>6. a % n = a - n BY <2>1, <2>5
  <2> QED BY <2>6, <1>1, <1>5 DEF From
<1> QED BY <1>4, <1>5

(* It meets each place once, and keeps who comes before whom.              *)
LEMMA WrappedApart ==
  ASSUME NEW n \in Nat \ {0}, NEW f \in 1 .. n, NEW i \in 1 .. n, NEW j \in 1 .. n
  PROVE  /\ From(i, f, n) = From(j, f, n) => i = j
         /\ From(Before(i, n), f, n) = Before(From(i, f, n), n)
         /\ Before(i, n) \in 1 .. n
<1>1. Before(i, n) \in 1 .. n BY DEF Before
<1>2. /\ From(i, f, n) = IF f + i - 1 <= n THEN f + i - 1 ELSE f + i - 1 - n
      /\ From(j, f, n) = IF f + j - 1 <= n THEN f + j - 1 ELSE f + j - 1 - n
      /\ From(Before(i, n), f, n) = IF f + Before(i, n) - 1 <= n THEN f + Before(i, n) - 1
                                    ELSE f + Before(i, n) - 1 - n
  BY <1>1, Wrapped
<1>3. From(i, f, n) = From(j, f, n) => i = j
  BY <1>2
<1>4. From(Before(i, n), f, n) = Before(From(i, f, n), n)
  <2>1. CASE i = 1 BY <1>2, <2>1 DEF Before
  <2>2. CASE i # 1 BY <1>2, <2>2 DEF Before
  <2> QED BY <2>1, <2>2
<1> QED BY <1>1, <1>3, <1>4

(* Starting a ring elsewhere makes a ring (deps.go, normalizeCycle).       *)
LEMMA RotatedIsRing ==
  ASSUME SomeNodes, SearchTypes, NEW c, Ring(c)
  PROVE  Ring(C!NormalizeCycle(c))
<1> DEFINE n == Len(c)
<1>1. n \in Nat \ {0} /\ c \in [1 .. n -> active] /\ DOMAIN c = 1 .. n /\ active \in SUBSET Nat
  BY LenProperties DEF Ring, SearchTypes, SomeNodes
<1>2. \E i \in DOMAIN c : \A j \in DOMAIN c : c[i] <= c[j]
  <2> DEFINE W == {c[i] : i \in 1 .. n}
  <2>1. W \in SUBSET Nat /\ W # {}
    <3>1. 1 \in 1 .. n BY <1>1
    <3>2. c[1] \in W BY <3>1
    <3>3. \A i \in 1 .. n : c[i] \in Nat BY <1>1
    <3> QED BY <3>2, <3>3
  <2> HIDE DEF W
  <2>2. PICK m \in W : \A k \in W : m <= k BY <2>1, Least
  <2>3. PICK i \in 1 .. n : c[i] = m BY <2>2 DEF W
  <2>4. \A j \in 1 .. n : c[j] \in W BY DEF W
  <2> QED BY <1>1, <2>2, <2>3, <2>4
<1> DEFINE f == CHOOSE i \in DOMAIN c : \A j \in DOMAIN c : c[i] <= c[j]
           r == [i \in 1 .. n |-> c[From(i, f, n)]]
<1>3. f \in 1 .. n BY <1>1, <1>2
<1>4. C!NormalizeCycle(c) = r BY <1>1 DEF C!NormalizeCycle, From
<1> HIDE DEF f, r, n
<1>5. \A i \in 1 .. n : From(i, f, n) \in 1 .. n BY <1>1, <1>3, Wrapped
<1>6. r \in [1 .. n -> active] /\ \A i \in 1 .. n : r[i] = c[From(i, f, n)]
  BY <1>1, <1>5 DEF r
<1>7. r \in Seq(active) /\ Len(r) = n /\ Len(r) > 0
  BY <1>1, <1>6
<1>8. ASSUME NEW i \in 1 .. n, NEW j \in 1 .. n, r[i] = r[j] PROVE i = j
  <2>1. From(i, f, n) = From(j, f, n) BY <1>5, <1>6, <1>8 DEF Ring, n
  <2> QED BY <1>1, <1>3, <2>1, WrappedApart
<1>9. ASSUME NEW i \in 1 .. n PROVE r[Before(i, n)] \in edges[r[i]]
  <2>1. Before(i, n) \in 1 .. n /\ From(Before(i, n), f, n) = Before(From(i, f, n), n)
    BY <1>1, <1>3, WrappedApart
  <2>2. r[Before(i, n)] = c[Before(From(i, f, n), n)] BY <1>6, <2>1
  <2>3. r[i] = c[From(i, f, n)] /\ From(i, f, n) \in 1 .. n BY <1>5, <1>6
  <2> QED BY <2>2, <2>3 DEF Ring, Before, n
<1> QED BY <1>4, <1>7, <1>8, <1>9 DEF Ring, Before

(* A ring is what CyclesAreReal asks for, and keeps its tickets waiting.   *)
LEMMA RingIsReal ==
  ASSUME NEW c, Ring(c)
  PROVE  /\ DOMAIN c = 1 .. Len(c) /\ C!Range(c) \subseteq active /\ C!Range(c) # {}
         /\ C!Cardinality(C!Range(c)) = Len(c)
         /\ \A x \in C!Range(c) : edges[x] \cap C!Range(c) # {}
<1> DEFINE n == Len(c)
           W == C!Range(c)
<1>1. n \in Nat \ {0} /\ c \in [1 .. n -> active] /\ DOMAIN c = 1 .. n
  BY LenProperties DEF Ring
<1>2. W = {c[i] : i \in 1 .. n} BY <1>1 DEF C!Range
<1>3. c \in Bijection(1 .. n, W)
  <2>1. c \in [1 .. n -> W] BY <1>1, <1>2
  <2>2. c \in Injection(1 .. n, W) BY <1>1, <2>1 DEF Injection, IsInjective, Ring
  <2>3. c \in Surjection(1 .. n, W) BY <1>2, <2>1 DEF Surjection
  <2> QED BY <2>2, <2>3 DEF Bijection
<1>4. Cardinality(W) = n
  <2>1. ExistsBijection(1 .. n, W) BY <1>3 DEF ExistsBijection
  <2> QED BY <1>1, <2>1, FS_CountingElements
<1>5. C!Cardinality(W) = Cardinality(W) BY DEF C!Cardinality, Cardinality
<1>6. W \subseteq active /\ W # {}
  <2>1. 1 \in 1 .. n BY <1>1
  <2> QED BY <1>1, <1>2, <2>1
<1>7. \A x \in W : edges[x] \cap W # {}
  <2> SUFFICES ASSUME NEW i \in 1 .. n PROVE edges[c[i]] \cap W # {}
    BY <1>2
  <2>1. (IF i = 1 THEN n ELSE i - 1) \in 1 .. n BY <1>1
  <2>2. c[IF i = 1 THEN n ELSE i - 1] \in edges[c[i]] BY DEF Ring
  <2> QED BY <1>2, <2>1, <2>2
<1> QED BY <1>1, <1>4, <1>5, <1>6, <1>7
-----------------------------------------------------------------------------
(* The cycle that extractCycle finds: from the innermost call back to the  *)
(* one that its dependency points at.                                      *)
LEMMA StackIsShort ==
  ASSUME SomeNodes, SearchTypes, StackIsPath
  PROVE  Len(stack) \in Nat /\ Cardinality(Nodes) \in Nat /\ Len(stack) <= Cardinality(Nodes)
<1>1. /\ Len(stack) \in Nat /\ stack \in [Depths -> active] /\ active \in SUBSET Nodes
      /\ DOMAIN stack = Depths
  BY LenProperties DEF SearchTypes, Depths
<1>2. stack \in Injection(Depths, Nodes)
  BY <1>1 DEF StackIsPath, Injection, IsInjective
<1>3. Cardinality(Depths) <= Cardinality(Nodes)
  BY <1>2, FS_Injection DEF SomeNodes
<1>4. Cardinality(Depths) = Len(stack)
  <2>1. 1 \in Int /\ Len(stack) \in Int BY <1>1
  <2>2. Cardinality(Depths) = IF 1 > Len(stack) THEN 0 ELSE Len(stack) - 1 + 1
    BY <2>1, FS_Interval DEF Depths
  <2> QED BY <1>1, <2>2
<1>5. Cardinality(Nodes) \in Nat BY FS_CardinalityType DEF SomeNodes
<1> QED BY <1>1, <1>3, <1>4, <1>5

(* Following parents from the top of the stack to the m-th gives the stack *)
(* between.                                                                *)
LEMMA Extracted ==
  ASSUME SomeNodes, SearchTypes, StackIsPath, NEW m \in Depths
  PROVE  C!ExtractCycle(stack[1], stack[m]) = <<stack[m]>> \o [k \in 1 .. m - 1 |-> stack[k]]
<1> DEFINE n == C!Cardinality(Nodes)
           to == stack[m]
           Is(h) == h = [k \in 0 .. n |->
                           IF k = 0 THEN stack[1]
                           ELSE IF h[k - 1] \in {to, NoNode} THEN h[k - 1] ELSE parent[h[k - 1]]]
           up == CHOOSE h : Is(h)
           Stops(h, k) == h[k] \in {to, NoNode} /\ \A j \in 0 .. k : j < k => h[j] \notin {to, NoNode}
           last == CHOOSE k \in DOMAIN up : Stops(up, k)
           g == [k \in 0 .. n |-> IF k < m THEN stack[k + 1] ELSE to]
<1>1. C!ExtractCycle(stack[1], stack[m]) = <<to>> \o [k \in 1 .. last |-> up[k - 1]]
  BY DEF C!ExtractCycle
<1>2. n \in Nat /\ m \in Nat /\ 0 < m /\ m <= n /\ m <= Len(stack) /\ Len(stack) \in Nat
  <2>1. n = Cardinality(Nodes) BY DEF C!Cardinality, Cardinality
  <2> QED BY <2>1, StackIsShort DEF Depths
<1>3. \A k \in Depths : stack[k] \in Nodes /\ stack[k] # NoNode
  <2> SUFFICES ASSUME NEW k \in Depths PROVE stack[k] \in Nodes /\ stack[k] # NoNode
    OBVIOUS
  <2>1. stack[k] \in active BY ElementOfSeq DEF SearchTypes, Depths
  <2> QED BY <2>1 DEF SearchTypes, SomeNodes
<1> HIDE DEF n
<1>4. \A k \in 0 .. n : g[k] = IF k < m THEN stack[k + 1] ELSE to
  OBVIOUS
<1>5. \A k \in 0 .. n : k < m => k + 1 \in Depths
  BY <1>2 DEF Depths
<1>6. \A k \in 0 .. n : g[k] = to \/ k + 1 < m
  BY <1>2, <1>4
<1>7. ASSUME NEW k \in 0 .. n, k + 1 < m
      PROVE  g[k] \notin {to, NoNode} /\ parent[g[k]] = g[k + 1]
  <2>1. k + 1 \in Depths /\ k + 1 < Len(stack) /\ k + 1 # m /\ k + 1 \in 0 .. n /\ k < m
        /\ (k + 1) + 1 \in Depths
    BY <1>2, <1>7 DEF Depths
  <2>2. g[k] = stack[k + 1] BY <1>4, <2>1
  <2>3. g[k + 1] = stack[(k + 1) + 1] BY <1>4, <1>7, <2>1
  <2> QED BY <1>3, <2>1, <2>2, <2>3 DEF StackIsPath
<1> HIDE DEF g
<1>8. ASSUME NEW k \in 0 .. n
      PROVE  g[k] = IF k = 0 THEN stack[1]
                    ELSE IF g[k - 1] \in {to, NoNode} THEN g[k - 1] ELSE parent[g[k - 1]]
  <2>1. CASE k = 0
    <3>1. k < m /\ k + 1 = 1 BY <1>2, <2>1
    <3> QED BY <1>4, <2>1, <3>1
  <2>2. CASE k # 0
    <3>1. k - 1 \in 0 .. n /\ (k - 1) + 1 = k BY <1>2, <2>2
    <3>2. CASE k < m BY <1>7, <2>2, <3>1, <3>2
    <3>3. CASE ~(k < m)
      <4>1. g[k - 1] = to BY <1>6, <3>1, <3>3
      <4>2. g[k] = to BY <1>4, <3>3
      <4> QED BY <2>2, <4>1, <4>2
    <3> QED BY <3>2, <3>3
  <2> QED BY <2>1, <2>2
<1>9. Is(g)
  <2>1. g = [k \in 0 .. n |-> g[k]] BY DEF g
  <2> QED BY <1>8, <2>1, Zenon
<1>10. Is(up)
  <2> HIDE DEF Is
  <2> QED BY <1>9, Zenon
<1> HIDE DEF up
<1>11. /\ DOMAIN up = 0 .. n
       /\ \A k \in 0 .. n :
            up[k] = IF k = 0 THEN stack[1]
                    ELSE IF up[k - 1] \in {to, NoNode} THEN up[k - 1] ELSE parent[up[k - 1]]
  BY <1>10, Zenon
<1> HIDE DEF Is
<1>12. \A k \in 0 .. n : up[k] = g[k]
  <2> DEFINE V == [k \in 0 .. n |-> {g[k]}]
  <2>1. up[0] \in V[0]
    <3>1. 0 \in 0 .. n BY <1>2
    <3> QED BY <1>8, <1>11, <3>1
  <2>2. ASSUME NEW k \in 1 .. n, up[k - 1] \in V[k - 1] PROVE up[k] \in V[k]
    <3>1. k \in 0 .. n /\ k - 1 \in 0 .. n /\ k # 0 BY <1>2
    <3>2. up[k - 1] = g[k - 1] BY <2>2, <3>1
    <3> QED BY <1>8, <1>11, <3>1, <3>2
  <2> HIDE DEF V
  <2>3. \A k \in 0 .. n : up[k] \in V[k] BY <1>2, <2>1, <2>2, UpTo
  <2> QED BY <2>3 DEF V
<1>13. m - 1 \in 0 .. n /\ Stops(up, m - 1)
  <2>1. m - 1 \in 0 .. n BY <1>2
  <2>2. g[m - 1] = to
    <3>1. ~((m - 1) + 1 < m) BY <1>2
    <3> QED BY <1>6, <2>1, <3>1
  <2>3. ASSUME NEW j \in 0 .. m - 1, j < m - 1 PROVE g[j] \notin {to, NoNode}
    <3>1. j \in 0 .. n /\ j + 1 < m BY <1>2, <2>3
    <3> QED BY <1>7, <3>1
  <2>4. \A j \in 0 .. m - 1 : j \in 0 .. n BY <1>2
  <2> QED BY <1>12, <2>1, <2>2, <2>3, <2>4
<1>14. \A k \in 0 .. n : Stops(up, k) => k = m - 1
  <2> SUFFICES ASSUME NEW k \in 0 .. n, Stops(up, k), k # m - 1 PROVE FALSE
    OBVIOUS
  <2>1. CASE k < m - 1
    <3>1. k + 1 < m BY <1>2, <2>1
    <3> QED BY <1>7, <1>12, <3>1
  <2>2. CASE m - 1 < k
    <3>1. m - 1 \in 0 .. k BY <1>2, <2>2
    <3> QED BY <1>13, <2>2, <3>1
  <2>3. k < m - 1 \/ m - 1 < k BY <1>2
  <2> QED BY <2>1, <2>2, <2>3
<1>15. last = m - 1
  <2> HIDE DEF Stops
  <2>1. last \in 0 .. n /\ Stops(up, last) BY <1>11, <1>13
  <2> HIDE DEF last
  <2> QED BY <1>14, <2>1
<1>16. \A k \in 1 .. m - 1 : up[k - 1] = stack[k]
  <2> SUFFICES ASSUME NEW k \in 1 .. m - 1 PROVE up[k - 1] = stack[k]
    OBVIOUS
  <2>1. k - 1 \in 0 .. n /\ k - 1 < m /\ (k - 1) + 1 = k BY <1>2
  <2> QED BY <1>4, <1>12, <2>1
<1>17. [k \in 1 .. last |-> up[k - 1]] = [k \in 1 .. m - 1 |-> stack[k]]
  <2> HIDE DEF last
  <2> QED BY <1>15, <1>16
<1> QED BY <1>1, <1>17

(* A gray dependency of the innermost call closes a ring.                  *)
LEMMA ExtractedIsRing ==
  ASSUME SomeNodes, SearchTypes, StackIsPath, NEW m \in Depths, stack[m] \in edges[stack[1]]
  PROVE  Ring(C!ExtractCycle(stack[1], stack[m]))
<1> DEFINE s == [k \in 1 .. m - 1 |-> stack[k]]
           c == <<stack[m]>> \o s
<1>1. C!ExtractCycle(stack[1], stack[m]) = c BY Extracted
<1>2. m \in Nat /\ 0 < m /\ m <= Len(stack) /\ Len(stack) \in Nat /\ m - 1 \in Nat
  BY StackIsShort DEF Depths
<1>3. \A k \in Depths : stack[k] \in active
  BY ElementOfSeq DEF SearchTypes, Depths
<1>4. \A k \in 1 .. m - 1 : k \in Depths /\ s[k] = stack[k]
  BY <1>2 DEF Depths
<1>5. s \in Seq(active) /\ Len(s) = m - 1
  <2>1. s \in [1 .. m - 1 -> active] BY <1>3, <1>4
  <2> HIDE DEF s
  <2> QED BY <1>2, <2>1
<1> HIDE DEF s
<1>6. /\ c \in Seq(active) /\ Len(c) = m /\ c[1] = stack[m]
      /\ \A k \in 1 .. m : k = 1 \/ (k - 1 \in 1 .. m - 1 /\ c[k] = s[k - 1])
  <2>1. stack[m] \in active BY <1>3
  <2>2. (m - 1) + 1 = m BY <1>2
  <2> HIDE DEF c
  <2>3. /\ c \in Seq(active) /\ Len(c) = Len(s) + 1 /\ c[1] = stack[m]
        /\ \A k \in 1 .. Len(s) + 1 : k = 1 \/ (k - 1 \in 1 .. Len(s) /\ c[k] = s[k - 1])
    BY <1>5, <2>1, Pushed DEF c
  <2> QED BY <1>5, <2>2, <2>3
<1> HIDE DEF c
<1>7. \A k \in 1 .. m : k # 1 => k - 1 \in Depths /\ k - 1 # m /\ c[k] = stack[k - 1]
  BY <1>2, <1>4, <1>6
<1>8. ASSUME NEW i \in 1 .. m, NEW j \in 1 .. m, c[i] = c[j] PROVE i = j
  <2>1. CASE i = 1 /\ j = 1 BY <2>1
  <2>2. CASE i = 1 /\ j # 1 BY <1>6, <1>7, <1>8, <2>2 DEF StackIsPath
  <2>3. CASE i # 1 /\ j = 1 BY <1>6, <1>7, <1>8, <2>3 DEF StackIsPath
  <2>4. CASE i # 1 /\ j # 1
    <3>1. i - 1 = j - 1 BY <1>7, <1>8, <2>4 DEF StackIsPath
    <3> QED BY <3>1
  <2> QED BY <2>1, <2>2, <2>3, <2>4
<1>9. ASSUME NEW i \in 1 .. m PROVE c[IF i = 1 THEN m ELSE i - 1] \in edges[c[i]]
  <2>1. CASE i = 1 /\ m = 1 BY <1>6, <2>1
  <2>2. CASE i = 1 /\ m # 1
    <3>1. /\ m - 1 \in Depths /\ m - 1 < Len(stack) /\ (m - 1) + 1 = m
          /\ m \in 1 .. m
      BY <1>2, <2>2 DEF Depths
    <3>2. stack[m - 1] \in edges[stack[m]] BY <3>1 DEF StackIsPath
    <3>3. c[m] = stack[m - 1] BY <1>7, <2>2, <3>1
    <3> QED BY <1>6, <2>2, <3>2, <3>3
  <2>3. CASE i = 2
    <3>1. c[2] = stack[1] /\ i - 1 = 1 BY <1>7, <2>3
    <3> QED BY <1>6, <2>3, <3>1
  <2>4. CASE i # 1 /\ i # 2
    <3>1. /\ i - 1 \in 1 .. m /\ i - 1 # 1 /\ (i - 1) - 1 \in Depths
          /\ (i - 1) - 1 < Len(stack) /\ ((i - 1) - 1) + 1 = i - 1
      BY <1>2, <2>4 DEF Depths
    <3>2. c[i - 1] = stack[(i - 1) - 1] /\ c[i] = stack[i - 1] BY <1>7, <2>4, <3>1
    <3>3. stack[(i - 1) - 1] \in edges[stack[((i - 1) - 1) + 1]] BY <3>1 DEF StackIsPath
    <3> QED BY <2>4, <3>1, <3>2, <3>3
  <2> QED BY <2>1, <2>2, <2>3, <2>4
<1> QED BY <1>1, <1>2, <1>6, <1>8, <1>9 DEF Ring
-----------------------------------------------------------------------------
(* Before the first node SearchInv holds.                                  *)
LEMMA InitSearchInv ==
  ASSUME SomeNodes, C!Init
  PROVE  SearchInv
<1>1. /\ edges \in [Nodes -> SUBSET Nodes] /\ active \in SUBSET Nodes /\ stack = <<>> /\ todo = edges
      /\ cycles = {} /\ color = [x \in Nodes |-> "white"] /\ parent = [x \in Nodes |-> NoNode]
  BY DEF C!Init
<1>2. Depths = {}
  <2>1. Len(<<>>) = 0 /\ 1 .. 0 = {} OBVIOUS
  <2> QED BY <1>1, <2>1 DEF Depths
<1>3. stack \in Seq(active) BY <1>1
<1>4. SearchTypes BY <1>1, <1>3 DEF SearchTypes
<1>5. \A x \in Nodes : color[x] = "white" BY <1>1
<1>6. StackIsPath BY <1>2, <1>5 DEF StackIsPath
<1>7. Unseen /\ TodoIsWaited BY <1>1 DEF Unseen, TodoIsWaited
<1>8. NoneYet
  <2>1. \A X \in SUBSET active : X # {} => \E x \in X : x \in Nodes BY <1>1
  <2> QED BY <1>2, <1>5, <2>1 DEF NoneYet
<1> QED BY <1>1, <1>4, <1>6, <1>7, <1>8 DEF SearchInv

(* The search goes down into a ticket not seen yet.                        *)
LEMMA RootInv ==
  ASSUME SomeNodes, SearchInv, NEW x \in Nodes, C!Root(x)
  PROVE  SearchInv'
<1>1. /\ stack = <<>> /\ stack' = <<x>> /\ x \in active /\ color[x] = "white"
      /\ color' = [color EXCEPT ![x] = "gray"]
      /\ UNCHANGED <<edges, active, parent, todo, cycles>>
  BY DEF C!Root
<1>2. Depths = {} /\ Depths' = {1} /\ stack'[1] = x /\ Len(stack') = 1
  <2>1. Len(<<>>) = 0 /\ 1 .. 0 = {} /\ Len(<<x>>) = 1 /\ 1 .. 1 = {1} /\ <<x>>[1] = x OBVIOUS
  <2> QED BY <1>1, <2>1 DEF Depths
<1>3. color'[x] = "gray" /\ \A y \in Nodes : y # x => color'[y] = color[y]
  BY <1>1 DEF SearchInv, SearchTypes
<1>4. SearchTypes'
  <2>1. stack' \in Seq(active) BY <1>1
  <2> QED BY <1>1, <2>1 DEF SearchInv, SearchTypes
<1>5. StackIsPath'
  <2>1. \A y \in Nodes : color'[y] = "gray" => y = x
    BY <1>2, <1>3 DEF SearchInv, StackIsPath
  <2>2. \A k \in Depths' : k = 1 /\ ~(k < Len(stack')) BY <1>2
  <2> QED BY <1>2, <1>3, <2>1, <2>2 DEF StackIsPath
<1>6. Unseen' /\ TodoIsWaited' BY <1>1, <1>3 DEF SearchInv, Unseen, TodoIsWaited
<1>7. \A c \in cycles' : Ring(c)' BY <1>1 DEF SearchInv, Ring
<1>8. cycles' = {} => NoneYet'
  <2> SUFFICES ASSUME cycles' = {} PROVE NoneYet'
    OBVIOUS
  <2>1. NoneYet BY <1>1 DEF SearchInv
  <2>2. \A y \in Nodes : color'[y] = "black" <=> color[y] = "black" BY <1>1, <1>3
  <2>3. todo[x] = edges[x] BY <1>1 DEF SearchInv, Unseen
  <2>4. \A y \in active : y \in Nodes BY <1>4, <1>1 DEF SearchTypes
  <2>5. \A k \in Depths' : (edges'[stack'[k]] \ todo'[stack'[k]]) = {} BY <1>1, <1>2, <2>3
  <2>6. \A y \in Nodes : color'[y] = "black" => \A d \in edges'[y] \cap active' : color'[d] = "black"
    BY <1>1, <2>1, <2>2, <2>4 DEF NoneYet
  <2>7. \A X \in SUBSET active' :
          X # {} /\ (\A y \in X : color'[y] = "black") => \E y \in X : edges'[y] \cap X = {}
    BY <1>1, <2>1, <2>2, <2>4 DEF NoneYet
  <2> QED BY <2>5, <2>6, <2>7 DEF NoneYet
<1> QED BY <1>4, <1>5, <1>6, <1>7, <1>8 DEF SearchInv

(* Looking at the next dependency of the node on top of the stack.         *)
LEMMA LookInv ==
  ASSUME SomeNodes, SearchInv, NEW x \in Nodes, C!Look(x)
  PROVE  SearchInv'
<1> DEFINE h == stack[1]
<1>0. SearchTypes /\ StackIsPath /\ Unseen BY DEF SearchInv
<1>1. /\ stack # <<>> /\ x \in todo[h] /\ todo' = [todo EXCEPT ![h] = @ \ {x}]
      /\ IF x \in active /\ color[x] = "white"
         THEN /\ parent' = [parent EXCEPT ![x] = h]
              /\ color' = [color EXCEPT ![x] = "gray"]
              /\ stack' = <<x>> \o stack
         ELSE UNCHANGED <<parent, color, stack>>
      /\ cycles' = IF x \in active /\ color[x] = "gray"
                   THEN cycles \cup {C!NormalizeCycle(C!ExtractCycle(h, x))} ELSE cycles
      /\ UNCHANGED <<edges, active>>
  <2>1. Head(stack) = stack[1] BY <1>0, Popped DEF C!Look, C!Turn, SearchTypes
  <2> QED BY <2>1 DEF C!Look, C!Turn
<1>2. /\ Len(stack) \in Nat /\ 1 \in Depths /\ h \in active /\ h \in Nodes /\ active \subseteq Nodes
      /\ \A k \in Depths : stack[k] \in active
  <2>1. Len(stack) \in Nat /\ 1 \in Depths /\ h \in active
    BY <1>0, <1>1, Popped DEF SearchTypes, Depths
  <2>2. \A k \in Depths : stack[k] \in active
    BY <1>0, ElementOfSeq DEF SearchTypes, Depths
  <2> QED BY <1>0, <2>1, <2>2 DEF SearchTypes
<1>3. color[h] = "gray" BY <1>0, <1>2 DEF StackIsPath
<1>4. todo'[h] = todo[h] \ {x} /\ \A y \in Nodes : y # h => todo'[y] = todo[y]
  BY <1>0, <1>1, <1>2 DEF SearchTypes
<1>5. todo' \in [Nodes -> SUBSET Nodes]
  BY <1>0, <1>1, <1>2 DEF SearchTypes
<1>6. \A c \in cycles : Ring(c)' BY <1>1 DEF SearchInv, Ring
<1>a. \A y \in active : y \in Nodes BY <1>2
<1>7. CASE x \in active /\ color[x] = "white"
  <2>1. /\ parent' = [parent EXCEPT ![x] = h] /\ color' = [color EXCEPT ![x] = "gray"]
        /\ stack' = <<x>> \o stack /\ cycles' = cycles /\ x # h
    BY <1>1, <1>3, <1>7
  <2>2. /\ stack' \in Seq(active) /\ Len(stack') = Len(stack) + 1 /\ stack'[1] = x
        /\ \A k \in 1 .. Len(stack) : stack'[k + 1] = stack[k]
        /\ \A k \in 1 .. Len(stack) + 1 :
             k = 1 \/ (k - 1 \in 1 .. Len(stack) /\ stack'[k] = stack[k - 1])
    BY <1>0, <1>7, <2>1, Pushed DEF SearchTypes
  <2>3. /\ color'[x] = "gray" /\ \A y \in Nodes : y # x => color'[y] = color[y]
        /\ parent'[x] = h /\ \A y \in Nodes : y # x => parent'[y] = parent[y]
    BY <1>0, <2>1 DEF SearchTypes
  <2>4. SearchTypes'
    BY <1>0, <1>1, <1>2, <1>5, <2>1, <2>2 DEF SearchTypes
  <2>5. 1 \in Depths' /\ \A k \in Depths' : k = 1 \/ (k - 1 \in Depths /\ stack'[k] = stack[k - 1])
    <3>1. Depths' = 1 .. Len(stack) + 1 BY <2>2 DEF Depths
    <3>2. 1 \in 1 .. Len(stack) + 1 BY <1>2
    <3> QED BY <2>2, <3>1, <3>2 DEF Depths
  <2>6. \A k \in Depths : stack[k] # x /\ stack[k] \in Nodes
    BY <1>0, <1>2, <1>7 DEF StackIsPath
  <2>7. StackIsPath'
    <3>1. ASSUME NEW k \in Depths' PROVE color'[stack'[k]] = "gray"
      <4>1. CASE k = 1 BY <2>2, <2>3, <4>1
      <4>2. CASE k # 1 BY <1>0, <2>3, <2>5, <2>6, <4>2 DEF StackIsPath
      <4> QED BY <4>1, <4>2
    <3>2. ASSUME NEW y \in Nodes, color'[y] = "gray" PROVE \E k \in Depths' : stack'[k] = y
      <4>1. CASE y = x BY <2>2, <2>5, <4>1
      <4>2. CASE y # x
        <5>1. PICK k \in Depths : stack[k] = y BY <1>0, <2>3, <3>2, <4>2 DEF StackIsPath
        <5>2. k + 1 \in Depths' /\ stack'[k + 1] = y BY <1>2, <2>2, <5>1 DEF Depths
        <5> QED BY <5>2
      <4> QED BY <4>1, <4>2
    <3>3. ASSUME NEW j \in Depths', NEW k \in Depths', stack'[j] = stack'[k] PROVE j = k
      <4>1. CASE j = 1 /\ k = 1 BY <4>1
      <4>2. CASE j = 1 /\ k # 1 BY <2>2, <2>5, <2>6, <3>3, <4>2
      <4>3. CASE j # 1 /\ k = 1 BY <2>2, <2>5, <2>6, <3>3, <4>3
      <4>4. CASE j # 1 /\ k # 1
        <5>1. j - 1 \in Depths /\ k - 1 \in Depths /\ stack[j - 1] = stack[k - 1]
          BY <2>5, <3>3, <4>4
        <5>2. j - 1 = k - 1 BY <1>0, <5>1 DEF StackIsPath
        <5>3. j \in Nat /\ k \in Nat BY <1>2, <2>2 DEF Depths
        <5> QED BY <5>2, <5>3
      <4> QED BY <4>1, <4>2, <4>3, <4>4
    <3>4. ASSUME NEW k \in Depths', k < Len(stack')
          PROVE  parent'[stack'[k]] = stack'[k + 1] /\ stack'[k] \in edges'[stack'[k + 1]]
      <4>1. CASE k = 1
        <5>1. stack'[k + 1] = h BY <1>2, <2>2, <4>1 DEF Depths
        <5>2. x \in edges[h]
          <6>1. x \in todo[h] BY <1>1
          <6> QED BY <6>1, <1>0, <1>1, <1>2 DEF SearchInv, TodoIsWaited
        <5> QED BY <1>1, <2>2, <2>3, <4>1, <5>1, <5>2
      <4>2. CASE k # 1
        <5>1. k - 1 \in Depths /\ stack'[k] = stack[k - 1] BY <2>5, <4>2
        <5>2. k \in Depths /\ stack'[k + 1] = stack[k] /\ k - 1 < Len(stack) /\ (k - 1) + 1 = k
          <6>1. k \in Nat /\ k < Len(stack) + 1 BY <1>2, <2>2, <3>4 DEF Depths
          <6>2. k \in 1 .. Len(stack) /\ k - 1 < Len(stack) /\ (k - 1) + 1 = k
            BY <1>2, <4>2, <5>1, <6>1 DEF Depths
          <6> QED BY <2>2, <6>2 DEF Depths
        <5>3. parent[stack[k - 1]] = stack[k] /\ stack[k - 1] \in edges[stack[k]]
          BY <1>0, <5>1, <5>2 DEF StackIsPath
        <5>4. parent'[stack[k - 1]] = parent[stack[k - 1]] BY <2>3, <2>6, <5>1
        <5> QED BY <1>1, <5>1, <5>2, <5>3, <5>4
      <4> QED BY <4>1, <4>2
    <3> QED BY <3>1, <3>2, <3>3, <3>4 DEF StackIsPath
  <2>8. Unseen'
    BY <1>0, <1>1, <1>3, <1>4, <2>3 DEF Unseen
  <2>9. ASSUME cycles' = {} PROVE NoneYet'
    <3>1. NoneYet BY <2>1, <2>9 DEF SearchInv
    <3>2. \A y \in Nodes : color'[y] = "black" <=> color[y] = "black" BY <1>7, <2>3
    <3>3. \A y \in Nodes : color'[y] = "black" => \A d \in edges'[y] \cap active' : color'[d] = "black"
      BY <1>1, <1>a, <3>1, <3>2 DEF NoneYet
    <3>4. \A X \in SUBSET active' :
            X # {} /\ (\A y \in X : color'[y] = "black") => \E y \in X : edges'[y] \cap X = {}
      BY <1>1, <1>a, <3>1, <3>2 DEF NoneYet
    <3>5. ASSUME NEW k \in Depths', NEW d \in (edges'[stack'[k]] \ todo'[stack'[k]]) \cap active'
          PROVE  color'[d] = "black" \/ (k > 1 /\ d = stack'[k - 1])
      <4>1. CASE k = 1
        <5>1. stack'[k] = x /\ todo'[x] = edges[x]
          BY <1>0, <1>4, <1>7, <2>1, <2>2, <4>1 DEF Unseen
        <5> QED BY <1>1, <3>5, <5>1
      <4>2. CASE k # 1
        <5>1. k - 1 \in Depths /\ stack'[k] = stack[k - 1] /\ k > 1 /\ stack[k - 1] \in Nodes
          BY <1>2, <2>2, <2>5, <2>6, <4>2 DEF Depths
        <5>2. d \in active /\ d \in Nodes /\ d \in edges[stack[k - 1]] BY <1>1, <1>a, <3>5, <5>1
        <5>3. CASE k = 2
          <6>1. stack[k - 1] = h /\ stack'[k - 1] = x BY <2>2, <5>3
          <6>2. d = x \/ d \notin todo[h] BY <1>4, <3>5, <5>1, <6>1
          <6>3. CASE d = x BY <5>1, <6>1, <6>3
          <6>4. CASE d \notin todo[h]
            <7>1. d \in (edges[h] \ todo[h]) \cap active BY <5>2, <6>1, <6>4
            <7>2. color[d] = "black" BY <1>2, <3>1, <7>1 DEF NoneYet
            <7> QED BY <3>2, <5>2, <7>2
          <6> QED BY <6>2, <6>3, <6>4
        <5>4. CASE k # 2
          <6>1. k - 1 > 1 /\ (k - 1) - 1 \in Depths /\ stack'[k - 1] = stack[(k - 1) - 1]
            <7>1. k - 1 \in Depths' /\ k - 1 # 1 /\ k - 1 > 1
              BY <1>2, <2>2, <4>2, <5>1, <5>4 DEF Depths
            <7> QED BY <2>5, <7>1
          <6>2. stack[k - 1] # h
            <7>1. k - 1 # 1 BY <1>2, <5>1, <5>4 DEF Depths
            <7> QED BY <1>0, <1>2, <5>1, <7>1 DEF StackIsPath
          <6>3. d \in (edges[stack[k - 1]] \ todo[stack[k - 1]]) \cap active
            BY <1>4, <3>5, <5>1, <5>2, <6>2
          <6>4. color[d] = "black" \/ d = stack[(k - 1) - 1]
            BY <3>1, <5>1, <6>3 DEF NoneYet
          <6> QED BY <3>2, <5>1, <5>2, <6>1, <6>4
        <5> QED BY <5>3, <5>4
      <4> QED BY <4>1, <4>2
    <3> QED BY <3>3, <3>4, <3>5 DEF NoneYet
  <2>10. TodoIsWaited' BY <1>1, <1>2, <1>4, <1>0 DEF SearchInv, TodoIsWaited
  <2> QED BY <1>6, <2>1, <2>4, <2>7, <2>8, <2>9, <2>10 DEF SearchInv
<1>8. CASE ~(x \in active /\ color[x] = "white")
  <2>1. UNCHANGED <<parent, color, stack>> /\ Depths' = Depths BY <1>1, <1>8 DEF Depths
  <2>2. SearchTypes' BY <1>0, <1>1, <1>5, <2>1 DEF SearchTypes
  <2>3. StackIsPath' BY <1>0, <1>1, <2>1 DEF StackIsPath
  <2>4. Unseen' BY <1>0, <1>1, <1>3, <1>4, <2>1 DEF Unseen
  <2>5. TodoIsWaited' BY <1>1, <1>2, <1>4, <1>0 DEF SearchInv, TodoIsWaited
  <2>6. CASE x \in active /\ color[x] = "gray"
    <3>1. PICK m \in Depths : stack[m] = x BY <1>0, <2>6, <1>a DEF StackIsPath
    <3>2. x \in edges[h] BY <1>1, <1>2 DEF SearchInv, TodoIsWaited
    <3> DEFINE c == C!NormalizeCycle(C!ExtractCycle(h, x))
    <3>3. Ring(c)
      <4>1. Ring(C!ExtractCycle(stack[1], stack[m])) BY <1>0, <3>1, <3>2, ExtractedIsRing
      <4> QED BY <1>0, <3>1, <4>1, RotatedIsRing
    <3>4. cycles' = cycles \cup {c} BY <1>1, <2>6
    <3>5. PICK r : r = c OBVIOUS
    <3> HIDE DEF c
    <3>6. Ring(r)' BY <1>1, <3>3, <3>5 DEF Ring
    <3>8. cycles' # {} BY <3>4
    <3>7. \A o \in cycles' : Ring(o)' BY <1>6, <3>4, <3>5, <3>6
    <3> QED BY <2>2, <2>3, <2>4, <2>5, <3>7, <3>8 DEF SearchInv
  <2>7. CASE ~(x \in active /\ color[x] = "gray")
    <3>1. cycles' = cycles BY <1>1, <2>7
    <3>2. x \in active => color[x] = "black" BY <1>0, <1>8, <2>7 DEF SearchTypes
    <3>3. ASSUME cycles' = {} PROVE NoneYet'
      <4>1. NoneYet BY <3>1, <3>3 DEF SearchInv
      <4>2. ASSUME NEW k \in Depths, NEW d \in (edges[stack[k]] \ todo'[stack[k]]) \cap active
            PROVE  color[d] = "black" \/ (k > 1 /\ d = stack[k - 1])
        <5>1. d = x \/ d \notin todo[stack[k]] BY <1>2, <1>4, <1>a, <4>2
        <5> QED BY <3>2, <4>1, <4>2, <5>1 DEF NoneYet
      <4> QED BY <1>1, <2>1, <4>1, <4>2 DEF NoneYet
    <3> QED BY <1>6, <2>2, <2>3, <2>4, <2>5, <3>1, <3>3 DEF SearchInv
  <2> QED BY <2>6, <2>7
<1> QED BY <1>7, <1>8

(* A call that has looked at everything returns: what it waits for is      *)
(* black, and nothing black waits for it.                                  *)
LEMMA ReturnInv ==
  ASSUME SomeNodes, SearchInv, C!Return
  PROVE  SearchInv'
<1> DEFINE h == stack[1]
<1>0. SearchTypes /\ StackIsPath /\ Unseen BY DEF SearchInv
<1>1. /\ stack # <<>> /\ todo[h] = {} /\ color' = [color EXCEPT ![h] = "black"]
      /\ stack' = Tail(stack) /\ UNCHANGED <<edges, active, parent, todo, cycles>>
  <2>1. Head(stack) = stack[1] BY <1>0, Popped DEF C!Return, SearchTypes
  <2> QED BY <2>1 DEF C!Return
<1>2. /\ Len(stack) \in Nat /\ 1 \in Depths /\ h \in active /\ stack' \in Seq(active)
      /\ Len(stack') = Len(stack) - 1
      /\ \A k \in 1 .. Len(stack) - 1 : stack'[k] = stack[k + 1]
  BY <1>0, <1>1, Popped DEF SearchTypes, Depths
<1>3. active \subseteq Nodes /\ h \in Nodes /\ \A k \in Depths : stack[k] \in active
  <2>1. \A k \in Depths : stack[k] \in active BY <1>0, ElementOfSeq DEF SearchTypes, Depths
  <2> QED BY <1>0, <1>2, <2>1 DEF SearchTypes
<1>4. color'[h] = "black" /\ \A y \in Nodes : y # h => color'[y] = color[y]
  BY <1>0, <1>1, <1>3 DEF SearchTypes
<1>5. \A k \in Depths' : /\ k + 1 \in Depths /\ k \in Depths /\ stack'[k] = stack[k + 1] /\ k + 1 # 1
                         /\ stack[k + 1] \in Nodes
  BY <1>2, <1>3 DEF Depths
<1>6. \A k \in Depths' : stack'[k] # h BY <1>0, <1>2, <1>5 DEF StackIsPath
<1>7. color[h] = "gray" BY <1>0, <1>2 DEF StackIsPath
<1>8. SearchTypes' BY <1>0, <1>1, <1>2 DEF SearchTypes
<1>9. StackIsPath'
  <2>1. \A k \in Depths' : color'[stack'[k]] = "gray"
    BY <1>0, <1>4, <1>5, <1>6 DEF StackIsPath
  <2>2. ASSUME NEW y \in Nodes, color'[y] = "gray" PROVE \E k \in Depths' : stack'[k] = y
    <3>1. y # h /\ color[y] = "gray" BY <1>4, <2>2
    <3>2. PICK k \in Depths : stack[k] = y BY <1>0, <3>1 DEF StackIsPath
    <3>3. k - 1 \in Depths' /\ k - 1 \in 1 .. Len(stack) - 1 /\ (k - 1) + 1 = k
      BY <1>2, <3>1, <3>2 DEF Depths
    <3>4. stack'[k - 1] = y BY <1>2, <3>2, <3>3
    <3> QED BY <3>3, <3>4
  <2>3. ASSUME NEW j \in Depths', NEW k \in Depths', stack'[j] = stack'[k] PROVE j = k
    <3>1. j + 1 = k + 1 BY <1>0, <1>5, <2>3 DEF StackIsPath
    <3>2. j \in Nat /\ k \in Nat BY <1>2 DEF Depths
    <3> QED BY <3>1, <3>2
  <2>4. ASSUME NEW k \in Depths', k < Len(stack')
        PROVE  parent'[stack'[k]] = stack'[k + 1] /\ stack'[k] \in edges'[stack'[k + 1]]
    <3>1. k + 1 \in Depths /\ k + 1 < Len(stack) /\ k + 1 \in 1 .. Len(stack) - 1
      BY <1>2, <2>4 DEF Depths
    <3>2. stack'[k] = stack[k + 1] /\ stack'[k + 1] = stack[(k + 1) + 1] BY <1>2, <1>5, <3>1
    <3>3. /\ parent[stack[k + 1]] = stack[(k + 1) + 1]
          /\ stack[k + 1] \in edges[stack[(k + 1) + 1]]
      BY <1>0, <3>1 DEF StackIsPath
    <3> QED BY <1>1, <3>2, <3>3
  <2> QED BY <2>1, <2>2, <2>3, <2>4 DEF StackIsPath
<1>10. Unseen' BY <1>0, <1>1, <1>4 DEF Unseen
<1>11. \A c \in cycles' : Ring(c)' BY <1>1 DEF SearchInv, Ring
<1>12. TodoIsWaited' BY <1>1 DEF SearchInv, TodoIsWaited
<1>13. ASSUME cycles' = {} PROVE NoneYet'
  <2>1. NoneYet BY <1>1, <1>13 DEF SearchInv
  <2>a. \A y \in active : y \in Nodes BY <1>3
  <2>2. \A d \in edges[h] \cap active : color[d] = "black"
    BY <1>1, <1>2, <2>1 DEF NoneYet
  <2>3. h \notin edges[h] BY <1>2, <1>7, <2>2
  <2>4. \A y \in Nodes : color[y] = "black" => color'[y] = "black" BY <1>4
  <2>5. \A y \in Nodes : color'[y] = "black" => y = h \/ color[y] = "black" BY <1>4
  <2>6. ASSUME NEW y \in Nodes, color'[y] = "black", NEW d \in edges[y] \cap active
        PROVE  color'[d] = "black"
    BY <2>1, <2>2, <2>4, <2>5, <2>6, <2>a DEF NoneYet
  <2>7. ASSUME NEW X \in SUBSET active, X # {}, \A y \in X : color'[y] = "black"
        PROVE  \E y \in X : edges[y] \cap X = {}
    <3> DEFINE Y == X \ {h}
    <3>1. \A y \in Y : color[y] = "black" /\ y \in Nodes BY <2>5, <2>7, <2>a
    <3>2. \A y \in Y : h \notin edges[y]
      BY <1>2, <1>7, <2>1, <3>1 DEF NoneYet
    <3>3. CASE Y = {}
      <4>1. X = {h} BY <2>7, <3>3
      <4> QED BY <2>3, <4>1
    <3>4. CASE Y # {}
      <4>1. PICK y \in Y : edges[y] \cap Y = {} BY <2>1, <2>7, <3>1, <3>4 DEF NoneYet
      <4> QED BY <3>2, <4>1
    <3> QED BY <3>3, <3>4
  <2>8. ASSUME NEW k \in Depths', NEW d \in (edges[stack'[k]] \ todo[stack'[k]]) \cap active
        PROVE  color'[d] = "black" \/ (k > 1 /\ d = stack'[k - 1])
    <3>1. color[d] = "black" \/ d = stack[(k + 1) - 1]
      BY <1>5, <2>1, <2>8 DEF NoneYet
    <3>2. (k + 1) - 1 = k BY <1>2 DEF Depths
    <3>3. CASE color[d] = "black" BY <2>4, <2>8, <2>a, <3>3
    <3>4. CASE d = stack[k] /\ k = 1 BY <1>4, <3>4
    <3>5. CASE d = stack[k] /\ k # 1
      <4>1. k > 1 /\ k - 1 \in 1 .. Len(stack) - 1 /\ (k - 1) + 1 = k BY <1>2, <3>5 DEF Depths
      <4> QED BY <1>2, <3>5, <4>1
    <3> QED BY <3>1, <3>2, <3>3, <3>4, <3>5
  <2> QED BY <1>1, <2>6, <2>7, <2>8 DEF NoneYet
<1> QED BY <1>8, <1>9, <1>10, <1>11, <1>12, <1>13 DEF SearchInv

(* No step of the search disturbs SearchInv.                               *)
LEMMA NextSearchInv ==
  ASSUME SomeNodes, SearchInv, [C!Next]_(C!searchVars)
  PROVE  SearchInv'
<1>1. CASE UNCHANGED C!searchVars
  <2>1. UNCHANGED <<edges, active, all, color, parent, stack, todo, cycles>> BY <1>1 DEF C!searchVars
  <2> QED BY <2>1 DEF SearchInv, SearchTypes, StackIsPath, Depths, Unseen, TodoIsWaited, Ring, NoneYet
<1>2. CASE C!Return BY <1>2, ReturnInv
<1>3. ASSUME NEW x \in Nodes, C!Root(x) PROVE SearchInv' BY <1>3, RootInv
<1>4. ASSUME NEW x \in Nodes, C!Look(x) PROVE SearchInv' BY <1>4, LookInv
<1> QED BY <1>1, <1>2, <1>3, <1>4 DEF C!Next

(* For any graph of tickets, whatever the order of the roots and of the    *)
(* dependencies: what is reported is a cycle of open tickets, and a search *)
(* that ends has found one if there is one (deps.go:65, plan.go:766).      *)
THEOREM SearchFindsCycles ==
  ASSUME SomeNodes
  PROVE  Spec => []CyclesAreFound
<1> DEFINE I == part = "cycles" => SearchInv
<1>1. Init => I BY PartInit, InitSearchInv
<1>2. I /\ [Next]_<<NotPlan, planVars>> => I' BY PartStep, NextSearchInv
<1>3. ASSUME SearchInv PROVE C!CyclesAreReal
  <2>1. \A c \in cycles : Ring(c) BY <1>3 DEF SearchInv
  <2>2. \A c \in cycles :
          \A i \in DOMAIN c : c[IF i = 1 THEN Len(c) ELSE i - 1] \in edges[c[i]]
    BY <2>1, RingIsReal DEF Ring
  <2> QED BY <2>1, <2>2, RingIsReal DEF C!CyclesAreReal
<1>4. ASSUME SearchInv, C!Done PROVE cycles # {} <=> C!Cyclic
  <2>1. ASSUME NEW c \in cycles PROVE C!Cyclic
    <3>1. Ring(c) BY <1>4 DEF SearchInv
    <3> QED BY <3>1, RingIsReal DEF C!Cyclic
  <2>2. ASSUME cycles = {}, C!Cyclic PROVE FALSE
    <3>1. NoneYet /\ SearchTypes /\ StackIsPath BY <1>4, <2>2 DEF SearchInv
    <3>2. stack = <<>> /\ \A y \in active : color[y] # "white"
      BY <1>4, <2>2 DEF C!Done, C!Stopped
    <3>3. Depths = {}
      <4>1. Len(<<>>) = 0 /\ 1 .. 0 = {} OBVIOUS
      <4> QED BY <3>2, <4>1 DEF Depths
    <3>4. \A y \in active : color[y] = "black"
      BY <3>1, <3>2, <3>3 DEF SearchTypes, StackIsPath
    <3>5. PICK X \in SUBSET active : X # {} /\ \A y \in X : edges[y] \cap X # {}
      BY <2>2 DEF C!Cyclic
    <3> QED BY <3>1, <3>4, <3>5 DEF NoneYet
  <2> QED BY <2>1, <2>2
<1>5. I => CyclesAreFound BY <1>3, <1>4 DEF CyclesAreFound, C!SearchIsComplete
<1> QED BY <1>1, <1>2, <1>5, PTL DEF Spec

-----------------------------------------------------------------------------
(* The council.                                                            *)

SomeRounds == Rounds \in Nat \ {0}

CouncilPCs == {"idle", "personas", "hash", "review", "judge", "finish"}

Councils ==
  [pc : CouncilPCs, round : T!AllRounds \cup {0}, text : T!Texts, mode : Modes \cup {"none"},
   force : BOOLEAN, skipJudge : BOOLEAN, asked : SUBSET T!Personas,
   pending : SUBSET T!Personas, got : SUBSET T!Reviews, final : SUBSET T!Texts]

Judgements == [text : T!Texts, heard : SUBSET T!Personas, decided : SUBSET T!Personas]

CouncilTypes ==
  /\ spec \in T!Texts
  /\ dynamic \in [T!AllRounds -> SUBSET SUBSET Dynamic]
  /\ hash \in [T!AllRounds -> SUBSET (T!Texts \X (Modes \cup {"none"}))]
  /\ reviews \in [T!AllRounds -> [T!Personas -> SUBSET T!Reviews]]
  /\ judged \in [T!AllRounds -> SUBSET Judgements]
  /\ council \in Councils
  /\ ~T!At("idle") => council.round \in T!AllRounds
  /\ kept \in [T!AllRounds -> [key : T!Texts \X (Modes \cup {"none"}), by : SUBSET T!Personas]]

(* Who has reviewed the text a round was last about has left a review, and *)
(* the hash of the round is the one of that text: the cache is found valid *)
(* by the next command over the same text.                                 *)
KeptIsStored ==
  \A r \in T!AllRounds :
     /\ kept[r].by # {} => hash[r] = {kept[r].key}
     /\ \A p \in kept[r].by : reviews[r][p] # {}

(* While reviewers are at work hash and text agree, and those still to be  *)
(* asked have not reviewed it.                                             *)
AtWork ==
  T!At("review") =>
    /\ hash[council.round] = {T!Key}
    /\ kept[council.round].key = T!Key
    /\ council.force \/ \A p \in council.pending : p \notin kept[council.round].by

ResumeInv == CouncilTypes /\ KeptIsStored /\ AtWork

-----------------------------------------------------------------------------
(* Before the first command ResumeInv holds.                               *)
LEMMA InitResumeInv == T!Init => ResumeInv
  BY DEF T!Init, ResumeInv, CouncilTypes, KeptIsStored, AtWork, T!At, T!Idle, Councils, CouncilPCs, T!Texts, T!Personas

(* CouncilTypes of the commands that ask or judge no one.                         *)
LEMMA IdleType == T!Idle \in Councils /\ T!Idle.pc = "idle"
  BY DEF T!Idle, Councils, CouncilPCs, T!Texts

(* After a round comes the next one or the end.                            *)
LEMMA EndRoundType ==
  ASSUME SomeRounds, CouncilTypes, council.round \in T!AllRounds, NEW texts \in SUBSET T!Texts, T!EndRound(texts)
  PROVE  council' \in Councils /\ council'.round \in T!AllRounds /\ council'.pc \in {"finish", "personas"}
<1> DEFINE pc == IF council.round = Rounds THEN "finish" ELSE "personas"
           round == IF council.round = Rounds THEN council.round ELSE council.round + 1
           text == IF texts = {} THEN council.text ELSE CHOOSE t \in texts : TRUE
           final == IF texts = {} THEN council.final ELSE texts
<1>1. council \in Councils BY DEF CouncilTypes
<1>2. council' = [council EXCEPT !.pc = pc, !.round = round, !.text = text, !.final = final,
                                 !.asked = {}, !.got = {}]
  BY <1>1 DEF T!EndRound, Councils
<1>3. pc \in {"finish", "personas"} OBVIOUS
<1>4. round \in T!AllRounds BY DEF SomeRounds, T!AllRounds
<1>5. text \in T!Texts BY <1>1 DEF Councils
<1>6. final \in SUBSET T!Texts BY <1>1 DEF Councils
<1> HIDE DEF pc, round, text, final
<1> QED BY <1>1, <1>2, <1>3, <1>4, <1>5, <1>6 DEF Councils, CouncilPCs

(* A step that leaves the reviews, their hashes and their history alone,   *)
(* and ends up elsewhere than at the reviews.                              *)
LEMMA ElsewhereInv ==
  ASSUME ResumeInv, CouncilTypes', UNCHANGED <<hash, reviews, kept>>, council'.pc # "review"
  PROVE  ResumeInv'
  BY DEF ResumeInv, KeptIsStored, AtWork, T!At

(* Each review that is stored is one less to wait for.                     *)
LEMMA ReviewedInv ==
  ASSUME ResumeInv, NEW p \in T!Personas, T!Reviewed(p)
  PROVE  ResumeInv'
<1> DEFINE r == council.round
<1>1. PICK s \in T!Severities :
        /\ reviews' = [reviews EXCEPT ![r][p] = {[by |-> p, of |-> spec, finding |-> s]}]
        /\ council' = [council EXCEPT !.pending = @ \ {p},
                                      !.got = @ \cup {[by |-> p, of |-> spec, finding |-> s]}]
  BY DEF T!Reviewed
<1>2. /\ T!At("review") /\ r \in T!AllRounds /\ council \in Councils /\ spec \in T!Texts
      /\ kept' = [kept EXCEPT ![r].by = @ \cup {p}]
      /\ UNCHANGED <<spec, dynamic, hash, judged>>
      /\ kept \in [T!AllRounds -> [key : T!Texts \X (Modes \cup {"none"}), by : SUBSET T!Personas]]
      /\ reviews \in [T!AllRounds -> [T!Personas -> SUBSET T!Reviews]]
  BY DEF T!Reviewed, ResumeInv, CouncilTypes, T!At
<1>3. [by |-> p, of |-> spec, finding |-> s] \in T!Reviews
  BY <1>2 DEF T!Reviews
<1>4. /\ council' \in Councils /\ council'.pc = "review" /\ council'.round = r
      /\ T!Key' = T!Key /\ council'.force = council.force /\ council'.pending = council.pending \ {p}
  BY <1>1, <1>2, <1>3 DEF Councils, T!Key, T!At
<1>5. /\ reviews' \in [T!AllRounds -> [T!Personas -> SUBSET T!Reviews]]
      /\ reviews'[r][p] # {}
      /\ \A q \in T!AllRounds, x \in T!Personas : reviews[q][x] # {} => reviews'[q][x] # {}
  BY <1>1, <1>2, <1>3
<1>6. /\ kept' \in [T!AllRounds -> [key : T!Texts \X (Modes \cup {"none"}), by : SUBSET T!Personas]]
      /\ \A q \in T!AllRounds : kept'[q].key = kept[q].key
      /\ kept'[r].by = kept[r].by \cup {p}
      /\ \A q \in T!AllRounds \ {r} : kept'[q].by = kept[q].by
  BY <1>2
<1>7. CouncilTypes'
  BY <1>2, <1>4, <1>5, <1>6 DEF ResumeInv, CouncilTypes, T!At
<1>8. KeptIsStored'
  <2> SUFFICES ASSUME NEW q \in T!AllRounds
               PROVE  /\ kept'[q].by # {} => hash'[q] = {kept'[q].key}
                      /\ \A x \in kept'[q].by : reviews'[q][x] # {}
    BY DEF KeptIsStored
  <2>1. CASE q = r
    <3>1. hash'[q] = {kept'[q].key} BY <2>1, <1>2, <1>6 DEF ResumeInv, AtWork
    <3>2. \A x \in kept[q].by : reviews[q][x] # {} /\ x \in T!Personas
      BY <1>2 DEF ResumeInv, KeptIsStored
    <3> QED BY <2>1, <3>1, <3>2, <1>5, <1>6
  <2>2. CASE q # r
    <3>1. \A x \in kept[q].by : reviews[q][x] # {} /\ x \in T!Personas
      BY <1>2 DEF ResumeInv, KeptIsStored
    <3> QED BY <2>2, <3>1, <1>2, <1>5, <1>6 DEF ResumeInv, KeptIsStored
  <2> QED BY <2>1, <2>2
<1>9. AtWork'
  BY <1>2, <1>4, <1>6 DEF ResumeInv, AtWork, T!At
<1> QED BY <1>7, <1>8, <1>9 DEF ResumeInv

(* Those who reviewed the text before are found in the cache.              *)
LEMMA RunRoundInv ==
  ASSUME ResumeInv, T!RunRound
  PROVE  ResumeInv'
<1> DEFINE r == council.round
           found == UNION {reviews[r][p] : p \in T!Cached}
<1>1. /\ hash' = [hash EXCEPT ![r] = {T!Key}]
      /\ kept' = [kept EXCEPT ![r] = IF kept[r].key = T!Key THEN kept[r] ELSE [key |-> T!Key, by |-> {}]]
      /\ council' = [council EXCEPT !.pc = "review", !.pending = council.asked \ T!Cached, !.got = found]
      /\ UNCHANGED <<spec, dynamic, reviews, judged>>
      /\ T!At("hash")
  <2>1. r \in T!AllRounds /\ kept \in [T!AllRounds -> [key : T!Texts \X (Modes \cup {"none"}), by : SUBSET T!Personas]]
    BY DEF T!RunRound, ResumeInv, CouncilTypes, T!At
  <2> QED BY <2>1 DEF T!RunRound, T!Asking
<1>2. /\ r \in T!AllRounds /\ council \in Councils
      /\ hash \in [T!AllRounds -> SUBSET (T!Texts \X (Modes \cup {"none"}))]
      /\ kept \in [T!AllRounds -> [key : T!Texts \X (Modes \cup {"none"}), by : SUBSET T!Personas]]
      /\ reviews \in [T!AllRounds -> [T!Personas -> SUBSET T!Reviews]]
      /\ T!Key \in T!Texts \X (Modes \cup {"none"})
  BY <1>1 DEF ResumeInv, CouncilTypes, T!At, T!Key, Councils
<1>3. T!Cached \subseteq T!Personas /\ found \in SUBSET T!Reviews /\ council.asked \in SUBSET T!Personas
  BY <1>2 DEF T!Cached, Councils
<1> HIDE DEF found
<1>4. /\ council' \in Councils /\ council'.pc = "review" /\ council'.round = r
      /\ T!Key' = T!Key /\ council'.force = council.force
      /\ council'.pending = council.asked \ T!Cached
  BY <1>1, <1>2, <1>3 DEF Councils, CouncilPCs, T!Key
<1>5. /\ hash' \in [T!AllRounds -> SUBSET (T!Texts \X (Modes \cup {"none"}))]
      /\ hash'[r] = {T!Key} /\ \A q \in T!AllRounds \ {r} : hash'[q] = hash[q]
  BY <1>1, <1>2
<1>6. /\ kept' \in [T!AllRounds -> [key : T!Texts \X (Modes \cup {"none"}), by : SUBSET T!Personas]]
      /\ kept'[r].key = T!Key
      /\ kept'[r].by = IF kept[r].key = T!Key THEN kept[r].by ELSE {}
      /\ \A q \in T!AllRounds \ {r} : kept'[q] = kept[q]
  BY <1>1, <1>2
<1>7. CouncilTypes'
  BY <1>1, <1>2, <1>4, <1>5, <1>6 DEF ResumeInv, CouncilTypes, T!At
<1>8. KeptIsStored'
  <2> SUFFICES ASSUME NEW q \in T!AllRounds
               PROVE  /\ kept'[q].by # {} => hash'[q] = {kept'[q].key}
                      /\ \A x \in kept'[q].by : reviews'[q][x] # {}
    BY DEF KeptIsStored
  <2>1. CASE q = r
    BY <2>1, <1>1, <1>5, <1>6 DEF ResumeInv, KeptIsStored
  <2>2. CASE q # r
    BY <2>2, <1>1, <1>5, <1>6 DEF ResumeInv, KeptIsStored
  <2> QED BY <2>1, <2>2
<1>9. ASSUME ~council.force, NEW p \in council.asked, p \in kept'[r].by
      PROVE  p \in T!Cached
  <2>1. kept[r].key = T!Key /\ p \in kept[r].by BY <1>6, <1>9
  <2>2. hash[r] = {T!Key} /\ reviews[r][p] # {}
    BY <2>1, <1>2 DEF ResumeInv, KeptIsStored
  <2> QED BY <2>2, <1>9 DEF T!Cached, T!CacheValid
<1>10. AtWork'
  BY <1>4, <1>5, <1>6, <1>9 DEF AtWork, T!At
<1> QED BY <1>7, <1>8, <1>10 DEF ResumeInv

(* A write cut short loses its own file and no other: a hash that is lost  *)
(* keeps no review, a review that is lost is not kept, and the judgement   *)
(* has no part in it.                                                      *)
LEMMA CutInv ==
  ASSUME ResumeInv, T!Cut
  PROVE  ResumeInv'
<1> DEFINE r == council.round
           Histories == [T!AllRounds -> [key : T!Texts \X (Modes \cup {"none"}),
                                         by : SUBSET T!Personas]]
<1>1. /\ CouncilTypes /\ council \in Councils /\ kept \in Histories
      /\ hash \in [T!AllRounds -> SUBSET (T!Texts \X (Modes \cup {"none"}))]
      /\ reviews \in [T!AllRounds -> [T!Personas -> SUBSET T!Reviews]]
  BY DEF ResumeInv, CouncilTypes
<1>2. CASE T!HashCut
  <2>1. /\ r \in T!AllRounds /\ council' = T!Idle
        /\ hash' = [hash EXCEPT ![r] = {}]
        /\ kept' = [kept EXCEPT ![r].by = {}]
        /\ UNCHANGED <<spec, dynamic, reviews, judged>>
    BY <1>1, <1>2 DEF T!HashCut, CouncilTypes, T!At
  <2>2. /\ kept' \in Histories /\ kept'[r].by = {}
        /\ \A q \in T!AllRounds \ {r} : kept'[q] = kept[q] /\ hash'[q] = hash[q]
        /\ hash' \in [T!AllRounds -> SUBSET (T!Texts \X (Modes \cup {"none"}))]
    BY <1>1, <2>1
  <2>3. council' \in Councils /\ council'.pc = "idle" BY <2>1, IdleType
  <2>4. CouncilTypes' BY <1>1, <2>1, <2>2, <2>3 DEF CouncilTypes, T!At
  <2>5. KeptIsStored'
    <3> SUFFICES ASSUME NEW q \in T!AllRounds
                 PROVE  /\ kept'[q].by # {} => hash'[q] = {kept'[q].key}
                        /\ \A x \in kept'[q].by : reviews'[q][x] # {}
      BY DEF KeptIsStored
    <3>1. CASE q = r BY <3>1, <2>2
    <3>2. CASE q # r BY <3>2, <2>1, <2>2 DEF ResumeInv, KeptIsStored
    <3> QED BY <3>1, <3>2
  <2>6. AtWork' BY <2>3 DEF AtWork, T!At
  <2> QED BY <2>4, <2>5, <2>6 DEF ResumeInv
<1>3. ASSUME NEW p \in T!Personas, T!ReviewCut(p) PROVE ResumeInv'
  <2>1. /\ T!At("review") /\ r \in T!AllRounds
        /\ reviews' = [reviews EXCEPT ![r][p] = {}]
        /\ kept' = [kept EXCEPT ![r].by = @ \ {p}]
        /\ UNCHANGED <<spec, dynamic, hash, judged>>
        /\ council' = T!Idle \/ council' = [council EXCEPT !.pending = @ \ {p}]
    BY <1>1, <1>3 DEF T!ReviewCut, CouncilTypes, T!At
  <2>2. /\ kept' \in Histories
        /\ kept'[r].by = kept[r].by \ {p} /\ kept'[r].key = kept[r].key
        /\ \A q \in T!AllRounds \ {r} : kept'[q] = kept[q]
    <3>1. PICK left \in SUBSET T!Personas : left = kept[r].by \ {p} BY <1>1, <2>1
    <3>2. kept' = [kept EXCEPT ![r].by = left] BY <2>1, <3>1
    <3>3. kept \in Histories /\ r \in T!AllRounds BY <1>1, <2>1
    <3> QED BY <3>1, <3>2, <3>3
  <2>3. /\ reviews' \in [T!AllRounds -> [T!Personas -> SUBSET T!Reviews]]
        /\ \A x \in T!Personas \ {p} : reviews'[r][x] = reviews[r][x]
        /\ \A q \in T!AllRounds \ {r} : reviews'[q] = reviews[q]
    BY <1>1, <2>1
  <2>4. /\ council' \in Councils
        /\ council'.pc = "review" => /\ council'.round = r /\ council'.force = council.force
                                     /\ council'.text = council.text /\ council'.mode = council.mode
                                     /\ council'.pending = council.pending \ {p}
        /\ council'.pc \in {"idle", "review"}
    <3>1. CASE council' = T!Idle BY <3>1, IdleType
    <3>2. CASE council' = [council EXCEPT !.pending = @ \ {p}]
      <4>1. /\ council'.pc = council.pc /\ council'.round = r /\ council'.force = council.force
            /\ council'.text = council.text /\ council'.mode = council.mode
            /\ council'.pending = council.pending \ {p} /\ council' \in Councils
        BY <3>2, <1>1 DEF Councils
      <4> QED BY <4>1, <2>1 DEF T!At
    <3> QED BY <2>1, <3>1, <3>2
  <2>5. CouncilTypes' BY <1>1, <2>1, <2>2, <2>3, <2>4 DEF CouncilTypes, T!At
  <2>6. KeptIsStored'
    <3> SUFFICES ASSUME NEW q \in T!AllRounds
                 PROVE  /\ kept'[q].by # {} => hash'[q] = {kept'[q].key}
                        /\ \A x \in kept'[q].by : reviews'[q][x] # {}
      BY DEF KeptIsStored
    <3>1. /\ kept[q].by # {} => hash[q] = {kept[q].key}
          /\ \A x \in kept[q].by : reviews[q][x] # {} /\ x \in T!Personas
      BY <1>1 DEF ResumeInv, KeptIsStored
    <3>2. CASE q = r BY <3>1, <3>2, <2>1, <2>2, <2>3
    <3>3. CASE q # r BY <3>1, <3>3, <2>1, <2>2, <2>3
    <3> QED BY <3>2, <3>3
  <2>7. AtWork'
    <3>1. ASSUME council'.pc = "review"
          PROVE  /\ hash'[council'.round] = {T!Key'} /\ kept'[council'.round].key = T!Key'
                 /\ council'.force \/ \A x \in council'.pending : x \notin kept'[council'.round].by
      BY <3>1, <2>1, <2>2, <2>4 DEF ResumeInv, AtWork, T!At, T!Key
    <3> QED BY <3>1 DEF AtWork, T!At
  <2> QED BY <2>5, <2>6, <2>7 DEF ResumeInv
<1>4. CASE T!JudgementCut
  <2>1. council' = T!Idle /\ judged' = [judged EXCEPT ![council.round] = {}]
        /\ UNCHANGED <<spec, dynamic, hash, reviews, kept>>
    BY <1>4 DEF T!JudgementCut
  <2>2. council' \in Councils /\ council'.pc = "idle" BY <2>1, IdleType
  <2>3. judged' \in [T!AllRounds -> SUBSET Judgements] BY <1>1, <2>1 DEF CouncilTypes
  <2>4. CouncilTypes' BY <1>1, <2>1, <2>2, <2>3 DEF CouncilTypes, T!At
  <2> QED BY <2>1, <2>2, <2>4, ElsewhereInv
<1> QED BY <1>2, <1>3, <1>4 DEF T!Cut

(* No step of a council disturbs ResumeInv.                                *)
LEMMA NextResumeInv ==
  ASSUME SomeRounds, ResumeInv, [T!Next]_(T!councilVars)
  PROVE  ResumeInv'
<1>1. CouncilTypes /\ council \in Councils /\ 1 \in T!AllRounds
  BY DEF ResumeInv, CouncilTypes, SomeRounds, T!AllRounds
<1>2. CASE UNCHANGED T!councilVars
  BY <1>2 DEF ResumeInv, T!councilVars, CouncilTypes, KeptIsStored, AtWork, T!At, T!Key
<1>3. CASE T!Edit
  <2>1. spec' \in T!Texts BY <1>1, <1>3 DEF T!Edit, CouncilTypes, T!Texts
  <2>2. CouncilTypes' BY <2>1, <1>1, <1>3 DEF T!Edit, CouncilTypes, T!At
  <2> QED BY <2>2, <1>3, ElsewhereInv DEF T!Edit, T!At
<1>4. CASE T!Start
  <2>1. PICK m \in Modes, f \in BOOLEAN, s \in BOOLEAN :
          council' = [T!Idle EXCEPT !.pc = "personas", !.round = 1, !.text = spec, !.mode = m,
                                  !.force = f, !.skipJudge = s]
    BY <1>4 DEF T!Start
  <2>2. council' \in Councils /\ council'.round = 1 /\ council'.pc = "personas"
    BY <2>1, <1>1, IdleType DEF Councils, CouncilPCs, CouncilTypes
  <2>3. CouncilTypes' BY <2>2, <1>1, <1>4 DEF T!Start, CouncilTypes, T!At
  <2> QED BY <2>2, <2>3, <1>4, ElsewhereInv DEF T!Start
<1>5. CASE T!Abort
  <2>1. council' \in Councils /\ council'.pc = "idle" BY <1>5, IdleType DEF T!Abort
  <2>2. CouncilTypes' BY <2>1, <1>1, <1>5 DEF T!Abort, CouncilTypes, T!At
  <2> QED BY <2>1, <2>2, <1>5, ElsewhereInv DEF T!Abort
<1>6. CASE T!PersonaStage
  <2>1. PICK g \in SUBSET Dynamic : T!AskPersonas(g) /\ T!At("personas")
    BY <1>6, <1>1 DEF T!PersonaStage, T!GeneratePersonas, T!CachedPersonas, CouncilTypes, T!At
  <2>2. PICK ps \in SUBSET (Fixed \cup g) : council' = [council EXCEPT !.pc = "hash", !.asked = ps]
    BY <2>1 DEF T!AskPersonas
  <2>3. council' \in Councils /\ council'.pc = "hash" /\ council'.round = council.round
    BY <2>2, <1>1 DEF Councils, CouncilPCs, T!Personas
  <2>4. dynamic' \in [T!AllRounds -> SUBSET SUBSET Dynamic]
    BY <2>1, <1>1 DEF T!AskPersonas, CouncilTypes
  <2>5. CouncilTypes' BY <2>1, <2>3, <2>4, <1>1 DEF T!AskPersonas, CouncilTypes, T!At
  <2> QED BY <2>1, <2>3, <2>5, ElsewhereInv DEF T!AskPersonas
<1>7. CASE T!RunRound BY <1>7, RunRoundInv
<1>8. ASSUME NEW p \in T!Personas, T!Reviewed(p) PROVE ResumeInv'
  BY <1>8, ReviewedInv
<1>9. ASSUME NEW p \in T!Personas, T!ReviewerFails(p) PROVE ResumeInv'
  <2>1. council' = [council EXCEPT !.pending = @ \ {p}] /\ T!At("review")
        /\ UNCHANGED <<spec, dynamic, hash, reviews, judged, kept>>
    BY <1>9 DEF T!ReviewerFails
  <2>2. /\ council' \in Councils /\ council'.pc = "review" /\ council'.round = council.round
        /\ T!Key' = T!Key /\ council'.force = council.force /\ council'.pending = council.pending \ {p}
    BY <2>1, <1>1 DEF Councils, T!Key, T!At
  <2>3. CouncilTypes' BY <2>1, <2>2, <1>1 DEF CouncilTypes, T!At
  <2> QED BY <2>1, <2>2, <2>3 DEF ResumeInv, KeptIsStored, AtWork, T!At
<1>10. CASE T!EndReviews
  <2>1. T!At("review") /\ council.round \in T!AllRounds
        /\ UNCHANGED <<spec, dynamic, hash, reviews, judged, kept>>
    BY <1>10, <1>1 DEF T!EndReviews, CouncilTypes, T!At
  <2>2. council' = T!Idle \/ T!EndRound({}) \/ council' = [council EXCEPT !.pc = "judge"]
    BY <1>10 DEF T!EndReviews
  <2>3. council' \in Councils /\ council'.pc # "review"
        /\ (council'.pc # "idle" => council'.round \in T!AllRounds)
    <3>1. CASE council' = T!Idle BY <3>1, IdleType
    <3>2. CASE T!EndRound({}) BY <3>2, <2>1, <1>1, EndRoundType
    <3>3. CASE council' = [council EXCEPT !.pc = "judge"]
      BY <3>3, <2>1, <1>1 DEF Councils, CouncilPCs
    <3> QED BY <2>2, <3>1, <3>2, <3>3
  <2>4. CouncilTypes' BY <2>1, <2>3, <1>1 DEF CouncilTypes, T!At
  <2> QED BY <2>1, <2>3, <2>4, ElsewhereInv
<1>11. CASE T!JudgeCached
  <2>1. T!At("judge") /\ council.round \in T!AllRounds
        /\ UNCHANGED <<spec, dynamic, hash, reviews, judged, kept>>
    BY <1>11, <1>1 DEF T!JudgeCached, CouncilTypes, T!At
  <2>2. {j.text : j \in T!CachedJudgement} \in SUBSET T!Texts
    BY <2>1, <1>1 DEF T!CachedJudgement, CouncilTypes, Judgements
  <2>3. council' \in Councils /\ council'.round \in T!AllRounds /\ council'.pc \in {"finish", "personas"}
    BY <2>1, <2>2, <1>1, <1>11, EndRoundType DEF T!JudgeCached
  <2>4. CouncilTypes' BY <2>1, <2>3, <1>1 DEF CouncilTypes, T!At
  <2> QED BY <2>1, <2>3, <2>4, ElsewhereInv
<1>12. CASE T!Judge
  <2>1. T!At("judge") /\ council.round \in T!AllRounds
        /\ UNCHANGED <<spec, dynamic, hash, reviews, kept>>
    BY <1>12, <1>1 DEF T!Judge, CouncilTypes, T!At
  <2>2. PICK heard \in SUBSET T!Judgeable : \E decided \in SUBSET heard : \E applied \in SUBSET decided :
           /\ judged' = [judged EXCEPT ![council.round] =
                {[text |-> council.text \cup applied, heard |-> heard, decided |-> decided]}]
           /\ T!EndRound({council.text \cup applied})
    BY <1>12 DEF T!Judge
  <2>3. PICK decided \in SUBSET heard : \E applied \in SUBSET decided :
           /\ judged' = [judged EXCEPT ![council.round] =
                {[text |-> council.text \cup applied, heard |-> heard, decided |-> decided]}]
           /\ T!EndRound({council.text \cup applied})
    BY <2>2
  <2>4. PICK applied \in SUBSET decided :
           /\ judged' = [judged EXCEPT ![council.round] =
                {[text |-> council.text \cup applied, heard |-> heard, decided |-> decided]}]
           /\ T!EndRound({council.text \cup applied})
    BY <2>3
  <2>5. T!Judgeable \subseteq T!Personas
    BY <1>1 DEF T!Judgeable, Councils, T!Reviews
  <2>6. council.text \cup applied \in T!Texts
    BY <1>1, <2>5 DEF Councils, T!Texts
  <2>7. [text |-> council.text \cup applied, heard |-> heard, decided |-> decided] \in Judgements
    BY <2>5, <2>6 DEF Judgements
  <2>8. judged' \in [T!AllRounds -> SUBSET Judgements]
    BY <2>4, <2>7, <1>1 DEF CouncilTypes
  <2>9. {council.text \cup applied} \in SUBSET T!Texts BY <2>6
  <2>10. council' \in Councils /\ council'.round \in T!AllRounds /\ council'.pc \in {"finish", "personas"}
    BY <2>1, <2>4, <2>9, <1>1, EndRoundType
  <2>11. CouncilTypes' BY <2>1, <2>8, <2>10, <1>1 DEF CouncilTypes, T!At
  <2> QED BY <2>1, <2>10, <2>11, ElsewhereInv
<1>13. CASE T!Finish
  <2>1. council' \in Councils /\ council'.pc = "idle" BY <1>13, IdleType DEF T!Finish
  <2>2. spec' \in T!Texts BY <1>13, <1>1 DEF T!Finish, CouncilTypes, Councils
  <2>3. CouncilTypes' BY <2>1, <2>2, <1>1, <1>13 DEF T!Finish, CouncilTypes, T!At
  <2> QED BY <2>1, <2>3, <1>13, ElsewhereInv DEF T!Finish
<1>14. CASE T!Cut BY <1>14, CutInv
<1> QED
  BY <1>2, <1>3, <1>4, <1>5, <1>6, <1>7, <1>8, <1>9, <1>10, <1>11, <1>12, <1>13, <1>14
     DEF T!Next, T!Work, T!JudgeStage

(* Wherever a command ended, the next one over the same text in the same   *)
(* mode asks no persona again that has stored a review of it, in any round *)
(* (docs/specs/council-review-pipeline-spec.md:68; matchesSpecHash,        *)
(* loadCachedReview), unless the write of that very review or of the hash  *)
(* of its round has been cut short since: the files are written in place   *)
(* (runner.go:56, 319), and that is all an interruption can take away.     *)
THEOREM ResumeAsksNobodyTwice ==
  ASSUME SomeRounds
  PROVE  Spec => []ResumeKeepsWork
<1> DEFINE I == part = "council" => ResumeInv
<1>1. Init => I BY PartInit, InitResumeInv
<1>2. I /\ [Next]_<<NotPlan, planVars>> => I' BY PartStep, NextResumeInv
<1>3. I => ResumeKeepsWork BY DEF ResumeInv, AtWork, T!ResumeKeepsWork, ResumeKeepsWork
<1> QED BY <1>1, <1>2, <1>3, PTL DEF Spec

-----------------------------------------------------------------------------
(* Types of the plan and of the council, for the theorem about all parts   *)
(* (PlanningTypes in LearningProofs).                                      *)

(* The user edits a plan a number of times.                                *)
EditBound == MaxEdits \in Nat

PlanTypes ==
  /\ phase \in {"prune", "depth", "waves", "plan", "compiled"}
  /\ edits \in 0 .. MaxEdits

(* Phases follow each other, and edits are made within their bound.        *)
LEMMA PlanTyped ==
  ASSUME SomeRequirements, EditBound
  PROVE  /\ P!Init => PlanTypes
         /\ PlanTypes /\ [P!Next]_(P!vars) => PlanTypes'
         /\ PlanInv /\ PlanTypes => P!TypeOK
<1>1. P!Init => PlanTypes BY DEF EditBound, P!Init, PlanTypes
<1>2. ASSUME PlanTypes, [P!Next]_(P!vars) PROVE PlanTypes'
  <2>1. CASE UNCHANGED P!vars BY <1>2, <2>1 DEF PlanTypes, P!vars
  <2>2. CASE P!Prune BY <1>2, <2>2 DEF PlanTypes, P!Prune
  <2>3. CASE P!Depth BY <1>2, <2>3 DEF PlanTypes, P!Depth
  <2>4. CASE P!Move BY <1>2, <2>4 DEF PlanTypes, P!Move
  <2>5. CASE P!Cascade BY <1>2, <2>5 DEF PlanTypes, P!Cascade
  <2>6. CASE P!Draft BY <1>2, <2>6 DEF PlanTypes, P!Draft
  <2>7. CASE P!EditPlan
    <3>1. edits < MaxEdits /\ edits' = edits + 1 /\ phase' = phase
      BY <2>7 DEF P!EditPlan, P!Edit
    <3> QED BY <1>2, <3>1 DEF PlanTypes, EditBound
  <2>8. CASE P!CompilePlan BY <1>2, <2>8 DEF PlanTypes, P!CompilePlan
  <2> QED BY <1>2, <2>1, <2>2, <2>3, <2>4, <2>5, <2>6, <2>7, <2>8 DEF P!Next, P!Drafting
<1>3. ASSUME PlanInv, PlanTypes PROVE P!TypeOK
  BY <1>3 DEF PlanInv, PlanShape, PlanTypes, P!TypeOK
<1> QED BY <1>1, <1>2, <1>3

(* Each file of a round is there once or not at all, and a review is by    *)
(* the persona it is stored for.                                           *)
RoundsOK ==
  \A r \in T!AllRounds :
    /\ dynamic[r] \in T!AtMostOne(SUBSET Dynamic)
    /\ hash[r] \in T!AtMostOne(T!Texts \X Modes)
    /\ \A p \in T!Personas : \A v \in reviews[r][p] : v.by = p
    /\ judged[r] \in T!AtMostOne({j \in Judgements : j.decided \subseteq j.heard})

(* Only those asked are waited for and heard, and that in one round.       *)
CouncilOK ==
  /\ T!At("idle") \/ council.mode \in Modes
  /\ T!At("review") \/ council.pending = {}
  /\ T!At("personas") \/ T!At("hash") => council.got = {}
  /\ council.pending \subseteq council.asked
  /\ \A g \in council.got : g.by \in council.asked

(* A command that has ended asks and hears nobody.                         *)
LEMMA IdleOK ==
  ASSUME council' = T!Idle
  PROVE  CouncilOK'
BY DEF T!Idle, CouncilOK, T!At

(* The next round begins with nobody asked.                                *)
LEMMA EndRoundOK ==
  ASSUME CouncilTypes, CouncilOK, ~T!At("idle"), council.pending = {},
         NEW texts, T!EndRound(texts)
  PROVE  CouncilOK'
<1>1. council \in Councils /\ council.mode \in Modes BY DEF CouncilTypes, CouncilOK
<1>2. /\ council'.mode = council.mode /\ council'.pending = {}
      /\ council'.got = {} /\ council'.asked = {}
  BY <1>1 DEF T!EndRound, Councils
<1> QED BY <1>1, <1>2 DEF CouncilOK

(* The files of a round that a step leaves alone.                          *)
LEMMA RoundsKept ==
  ASSUME RoundsOK, UNCHANGED <<dynamic, hash, reviews, judged>>
  PROVE  RoundsOK'
BY DEF RoundsOK

(* Personas are chosen before anybody is asked. *)
LEMMA PersonasOK ==
  ASSUME CouncilTypes, RoundsOK, CouncilOK, T!PersonaStage
  PROVE  RoundsOK' /\ CouncilOK'
<1>1. PICK g \in SUBSET Dynamic : T!AskPersonas(g) /\ T!At("personas")
  BY DEF T!PersonaStage, T!GeneratePersonas, T!CachedPersonas, CouncilTypes, T!At
<1>2. PICK ps \in SUBSET (Fixed \cup g) : council' = [council EXCEPT !.pc = "hash", !.asked = ps]
  BY <1>1 DEF T!AskPersonas
<1>3. /\ dynamic' = [dynamic EXCEPT ![council.round] = {g}]
      /\ UNCHANGED <<hash, reviews, judged>>
  BY <1>1 DEF T!AskPersonas
<1>4. council \in Councils /\ council.pending = {} /\ council.got = {} /\ council.mode \in Modes
  BY <1>1 DEF CouncilTypes, CouncilOK, T!At
<1>5. /\ council'.pending = {} /\ council'.got = {} /\ council'.mode = council.mode
  BY <1>2, <1>4 DEF Councils
<1>6. CouncilOK' BY <1>4, <1>5 DEF CouncilOK
<1>7. {g} \in T!AtMostOne(SUBSET Dynamic) BY DEF T!AtMostOne
<1>8. \A r \in T!AllRounds : dynamic'[r] = dynamic[r] \/ dynamic'[r] = {g}
  BY <1>3 DEF CouncilTypes
<1>9. RoundsOK' BY <1>3, <1>7, <1>8 DEF RoundsOK
<1> QED BY <1>6, <1>9

(* Those found in the cache are of those asked.                            *)
LEMMA AskingOK ==
  ASSUME CouncilTypes, RoundsOK, CouncilOK, T!RunRound
  PROVE  RoundsOK' /\ CouncilOK'
<1> DEFINE found == UNION {reviews[council.round][p] : p \in T!Cached}
<1>1. /\ hash' = [hash EXCEPT ![council.round] = {T!Key}]
      /\ council' = [council EXCEPT !.pc = "review", !.pending = council.asked \ T!Cached,
                                    !.got = found]
      /\ UNCHANGED <<dynamic, reviews, judged>>
      /\ T!At("hash")
  BY DEF T!RunRound, T!Asking
<1>2. council \in Councils /\ council.round \in T!AllRounds /\ council.mode \in Modes
  BY <1>1 DEF CouncilTypes, CouncilOK, T!At
<1>3. T!Key \in T!Texts \X Modes BY <1>2 DEF T!Key, Councils
<1>4. T!Cached \subseteq council.asked /\ T!Cached \subseteq T!Personas
  BY <1>2 DEF T!Cached, Councils
<1>5. ASSUME NEW g \in found PROVE g.by \in council.asked
  <2>1. PICK p \in T!Cached : g \in reviews[council.round][p] OBVIOUS
  <2>2. g.by = p BY <1>2, <1>4, <2>1 DEF RoundsOK
  <2> QED BY <1>4, <2>2
<1> HIDE DEF found
<1>6. /\ council'.pc = "review" /\ council'.mode = council.mode /\ council'.asked = council.asked
      /\ council'.pending = council.asked \ T!Cached /\ council'.got = found
  BY <1>1, <1>2 DEF Councils
<1>7. CouncilOK' BY <1>2, <1>5, <1>6 DEF CouncilOK, T!At
<1>8. {T!Key} \in T!AtMostOne(T!Texts \X Modes) BY <1>3 DEF T!AtMostOne
<1>9. \A r \in T!AllRounds : hash'[r] = hash[r] \/ hash'[r] = {T!Key}
  BY <1>1 DEF CouncilTypes
<1>10. RoundsOK' BY <1>1, <1>8, <1>9 DEF RoundsOK
<1> QED BY <1>7, <1>10

(* A review is stored for who wrote it.                                    *)
LEMMA ReviewedOK ==
  ASSUME CouncilTypes, RoundsOK, CouncilOK, NEW p \in T!Personas, T!Reviewed(p)
  PROVE  RoundsOK' /\ CouncilOK'
<1>1. PICK s \in T!Severities :
        /\ reviews' = [reviews EXCEPT ![council.round][p] = {[by |-> p, of |-> spec, finding |-> s]}]
        /\ council' = [council EXCEPT !.pending = @ \ {p},
                                      !.got = @ \cup {[by |-> p, of |-> spec, finding |-> s]}]
  BY DEF T!Reviewed
<1>2. T!At("review") /\ p \in council.pending /\ UNCHANGED <<dynamic, hash, judged>>
  BY DEF T!Reviewed
<1>3. PICK v : v = [by |-> p, of |-> spec, finding |-> s] OBVIOUS
<1>4. v.by = p BY <1>3
<1>5. /\ council'.pc = council.pc /\ council'.mode = council.mode
      /\ council'.asked = council.asked /\ council'.pending = council.pending \ {p}
      /\ council'.got = council.got \cup {v}
  BY <1>1, <1>3 DEF Councils, CouncilTypes
<1>6. CouncilOK' BY <1>2, <1>4, <1>5 DEF CouncilOK, T!At
<1>7. \A r \in T!AllRounds, x \in T!Personas :
        reviews'[r][x] = reviews[r][x] \/ (x = p /\ reviews'[r][x] = {v})
  BY <1>1, <1>3 DEF CouncilTypes
<1>8. ASSUME NEW r \in T!AllRounds, NEW x \in T!Personas, NEW w \in reviews'[r][x]
      PROVE  w.by = x
  <2>1. CASE reviews'[r][x] = reviews[r][x] BY <1>8, <2>1 DEF RoundsOK
  <2>2. CASE x = p /\ reviews'[r][x] = {v} BY <1>4, <1>8, <2>2
  <2> QED BY <1>7, <2>1, <2>2
<1>9. RoundsOK' BY <1>2, <1>8 DEF RoundsOK
<1> QED BY <1>6, <1>9

(* A judgement has heard more than it decides.                             *)
LEMMA JudgeOK ==
  ASSUME CouncilTypes, RoundsOK, CouncilOK, T!JudgeStage
  PROVE  RoundsOK' /\ CouncilOK'
<1>1. /\ T!At("judge") /\ council.pending = {} /\ council \in Councils
      /\ UNCHANGED <<dynamic, hash, reviews>>
  BY DEF T!JudgeStage, T!JudgeCached, T!Judge, CouncilOK, CouncilTypes, T!At
<1>2. CASE T!JudgeCached
  <2>1. UNCHANGED judged /\ \E texts : T!EndRound(texts) BY <1>2 DEF T!JudgeCached
  <2> QED BY <1>1, <2>1, EndRoundOK, RoundsKept DEF T!At
<1>3. CASE T!Judge
  <2>1. PICK heard \in SUBSET T!Judgeable : \E decided \in SUBSET heard : \E applied \in SUBSET decided :
           /\ judged' = [judged EXCEPT ![council.round] =
                {[text |-> council.text \cup applied, heard |-> heard, decided |-> decided]}]
           /\ T!EndRound({council.text \cup applied})
    BY <1>3 DEF T!Judge
  <2>2. PICK decided \in SUBSET heard : \E applied \in SUBSET decided :
           /\ judged' = [judged EXCEPT ![council.round] =
                {[text |-> council.text \cup applied, heard |-> heard, decided |-> decided]}]
           /\ T!EndRound({council.text \cup applied})
    BY <2>1
  <2>3. PICK applied \in SUBSET decided :
           /\ judged' = [judged EXCEPT ![council.round] =
                {[text |-> council.text \cup applied, heard |-> heard, decided |-> decided]}]
           /\ T!EndRound({council.text \cup applied})
    BY <2>2
  <2>4. T!Judgeable \subseteq T!Personas BY <1>1 DEF T!Judgeable, Councils, T!Reviews
  <2>5. council.text \cup applied \in T!Texts BY <1>1, <2>4 DEF Councils, T!Texts
  <2>6. PICK j : j = [text |-> council.text \cup applied, heard |-> heard, decided |-> decided]
    OBVIOUS
  <2>7. j \in Judgements /\ j.decided \subseteq j.heard BY <2>4, <2>5, <2>6 DEF Judgements
  <2>8. {j} \in T!AtMostOne({k \in Judgements : k.decided \subseteq k.heard})
    BY <2>7 DEF T!AtMostOne
  <2>9. \A r \in T!AllRounds : judged'[r] = judged[r] \/ judged'[r] = {j}
    BY <2>3, <2>6 DEF CouncilTypes
  <2>10. RoundsOK' BY <1>1, <2>8, <2>9 DEF RoundsOK
  <2>11. CouncilOK' BY <1>1, <2>3, EndRoundOK DEF T!At
  <2> QED BY <2>10, <2>11
<1> QED BY <1>2, <1>3 DEF T!JudgeStage

(* A file cut short is none.                                               *)
LEMMA CutOK ==
  ASSUME CouncilTypes, RoundsOK, CouncilOK, T!Cut
  PROVE  RoundsOK' /\ CouncilOK'
<1>1. \A W : {} \in T!AtMostOne(W) BY DEF T!AtMostOne
<1>2. CASE T!HashCut
  <2>1. council' = T!Idle /\ hash' = [hash EXCEPT ![council.round] = {}]
        /\ UNCHANGED <<dynamic, reviews, judged>>
    BY <1>2 DEF T!HashCut
  <2>2. \A r \in T!AllRounds : hash'[r] = hash[r] \/ hash'[r] = {}
    BY <2>1 DEF CouncilTypes
  <2> QED BY <1>1, <2>1, <2>2, IdleOK DEF RoundsOK
<1>3. ASSUME NEW p \in T!Personas, T!ReviewCut(p) PROVE RoundsOK' /\ CouncilOK'
  <2>1. /\ reviews' = [reviews EXCEPT ![council.round][p] = {}] /\ T!At("review")
        /\ UNCHANGED <<dynamic, hash, judged>>
        /\ council' = T!Idle \/ council' = [council EXCEPT !.pending = @ \ {p}]
    BY <1>3 DEF T!ReviewCut
  <2>2. \A r \in T!AllRounds, x \in T!Personas :
          reviews'[r][x] = reviews[r][x] \/ reviews'[r][x] = {}
    BY <2>1 DEF CouncilTypes
  <2>3. RoundsOK' BY <2>1, <2>2 DEF RoundsOK
  <2>4. CASE council' = T!Idle BY <2>3, <2>4, IdleOK
  <2>5. CASE council' = [council EXCEPT !.pending = @ \ {p}]
    <3>1. /\ council'.pc = council.pc /\ council'.mode = council.mode
          /\ council'.asked = council.asked /\ council'.got = council.got
          /\ council'.pending = council.pending \ {p}
      BY <2>5 DEF Councils, CouncilTypes
    <3> QED BY <2>1, <2>3, <3>1 DEF CouncilOK, T!At
  <2> QED BY <2>1, <2>4, <2>5
<1>4. CASE T!JudgementCut
  <2>1. council' = T!Idle /\ judged' = [judged EXCEPT ![council.round] = {}]
        /\ UNCHANGED <<dynamic, hash, reviews>>
    BY <1>4 DEF T!JudgementCut
  <2>2. \A r \in T!AllRounds : judged'[r] = judged[r] \/ judged'[r] = {}
    BY <2>1 DEF CouncilTypes
  <2> QED BY <1>1, <2>1, <2>2, IdleOK DEF RoundsOK
<1> QED BY <1>2, <1>3, <1>4 DEF T!Cut

(* No step of a council disturbs the types.                                *)
LEMMA NextCouncilOK ==
  ASSUME CouncilTypes, RoundsOK, CouncilOK, [T!Next]_(T!councilVars)
  PROVE  RoundsOK' /\ CouncilOK'
<1>1. CASE UNCHANGED T!councilVars
  BY <1>1, RoundsKept DEF T!councilVars, CouncilOK, T!At
<1>2. CASE T!Edit
  BY <1>2, RoundsKept DEF T!Edit, CouncilOK, T!At
<1>3. CASE T!Start
  <2>1. PICK m \in Modes, f \in BOOLEAN, s \in BOOLEAN :
          council' = [T!Idle EXCEPT !.pc = "personas", !.round = 1, !.text = spec, !.mode = m,
                                  !.force = f, !.skipJudge = s]
    BY <1>3 DEF T!Start
  <2>2. council'.mode \in Modes /\ council'.pending = {} /\ council'.got = {}
    BY <2>1 DEF T!Idle
  <2> QED BY <1>3, <2>2, RoundsKept DEF T!Start, CouncilOK
<1>4. CASE T!Abort BY <1>4, IdleOK, RoundsKept DEF T!Abort
<1>5. CASE T!PersonaStage BY <1>5, PersonasOK
<1>6. CASE T!RunRound BY <1>6, AskingOK
<1>7. ASSUME NEW p \in T!Personas, T!Reviewed(p) PROVE RoundsOK' /\ CouncilOK'
  BY <1>7, ReviewedOK
<1>8. ASSUME NEW p \in T!Personas, T!ReviewerFails(p) PROVE RoundsOK' /\ CouncilOK'
  <2>1. council' = [council EXCEPT !.pending = @ \ {p}] /\ T!At("review")
        /\ UNCHANGED <<dynamic, hash, reviews, judged>>
    BY <1>8 DEF T!ReviewerFails
  <2>2. /\ council'.pc = council.pc /\ council'.mode = council.mode
        /\ council'.asked = council.asked /\ council'.got = council.got
        /\ council'.pending = council.pending \ {p}
    BY <2>1 DEF Councils, CouncilTypes
  <2> QED BY <2>1, <2>2, RoundsKept DEF CouncilOK, T!At
<1>9. CASE T!EndReviews
  <2>1. T!At("review") /\ council.pending = {} /\ council \in Councils
        /\ UNCHANGED <<dynamic, hash, reviews, judged>>
    BY <1>9 DEF T!EndReviews, CouncilTypes
  <2>2. CASE council' = T!Idle BY <2>1, <2>2, IdleOK, RoundsKept
  <2>3. CASE T!EndRound({}) BY <2>1, <2>3, EndRoundOK, RoundsKept DEF T!At
  <2>4. CASE council' = [council EXCEPT !.pc = "judge"]
    <3>1. /\ council'.pc = "judge" /\ council'.mode = council.mode
          /\ council'.asked = council.asked /\ council'.got = council.got
          /\ council'.pending = council.pending
      BY <2>1, <2>4 DEF Councils
    <3> QED BY <2>1, <3>1, RoundsKept DEF CouncilOK, T!At
  <2> QED BY <1>9, <2>2, <2>3, <2>4 DEF T!EndReviews
<1>10. CASE T!JudgeStage BY <1>10, JudgeOK
<1>11. CASE T!Finish BY <1>11, IdleOK, RoundsKept DEF T!Finish
<1>12. CASE T!Cut BY <1>12, CutOK
<1> QED
  BY <1>1, <1>2, <1>3, <1>4, <1>5, <1>6, <1>7, <1>8, <1>9, <1>10, <1>11, <1>12
     DEF T!Next, T!Work

(* So the types of the council hold, from its beginning on.                *)
LEMMA CouncilTyped ==
  /\ T!Init => RoundsOK /\ CouncilOK
  /\ CouncilTypes /\ RoundsOK /\ CouncilOK => T!TypeOK
<1>1. ASSUME T!Init PROVE RoundsOK /\ CouncilOK
  <2>1. \A W : {} \in T!AtMostOne(W) BY DEF T!AtMostOne
  <2>2. RoundsOK BY <1>1, <2>1 DEF T!Init, RoundsOK
  <2>3. CouncilOK BY <1>1 DEF T!Init, T!Idle, CouncilOK, T!At
  <2> QED BY <2>2, <2>3
<1>2. ASSUME CouncilTypes, RoundsOK, CouncilOK PROVE T!TypeOK
  <2>1. ASSUME NEW W, NEW X \in T!AtMostOne(W) PROVE X \subseteq W /\ T!Cardinality(X) <= 1
    <3>0. T!Cardinality(X) = Cardinality(X) BY DEF T!Cardinality, Cardinality
    <3>1. CASE X = {}
      <4>1. Cardinality({}) = 0 BY FS_EmptySet
      <4> QED BY <3>0, <3>1, <4>1
    <3>2. ASSUME NEW x \in W, X = {x} PROVE X \subseteq W /\ T!Cardinality(X) <= 1
      <4>1. Cardinality({x}) = 1 BY FS_Singleton
      <4> QED BY <3>0, <3>2, <4>1
    <3> QED BY <2>1, <3>1, <3>2 DEF T!AtMostOne
  <2>2. ASSUME NEW r \in T!AllRounds
        PROVE  /\ dynamic[r] \in T!AtMostOne(SUBSET Dynamic)
               /\ hash[r] \in T!AtMostOne(T!Texts \X Modes)
               /\ \A p \in T!Personas : \A v \in reviews[r][p] : v \in T!Reviews /\ v.by = p
               /\ T!Cardinality(judged[r]) <= 1
               /\ \A j \in judged[r] : j.text \in T!Texts /\ j.decided \subseteq j.heard
    <3>1. /\ dynamic[r] \in T!AtMostOne(SUBSET Dynamic)
          /\ hash[r] \in T!AtMostOne(T!Texts \X Modes)
          /\ \A p \in T!Personas : \A v \in reviews[r][p] : v.by = p
          /\ judged[r] \in T!AtMostOne({j \in Judgements : j.decided \subseteq j.heard})
      BY <1>2 DEF RoundsOK
    <3>2. /\ judged[r] \subseteq {j \in Judgements : j.decided \subseteq j.heard}
          /\ T!Cardinality(judged[r]) <= 1
      BY <2>1, <3>1
    <3>3. \A j \in judged[r] : j.text \in T!Texts /\ j.decided \subseteq j.heard
      BY <3>2 DEF Judgements
    <3>4. \A p \in T!Personas : \A v \in reviews[r][p] : v \in T!Reviews
      BY <1>2 DEF CouncilTypes
    <3> QED BY <3>1, <3>2, <3>3, <3>4
  <2>3. /\ spec \in T!Texts /\ council.text \in T!Texts /\ council.pending \subseteq council.asked
        /\ \A g \in council.got : g \in T!Reviews /\ g.by \in council.asked
    BY <1>2 DEF CouncilTypes, Councils, CouncilOK
  <2> QED BY <2>2, <2>3, Zenon DEF T!TypeOK
<1> QED BY <1>1, <1>2
=============================================================================
