----------------------------- MODULE PlanGraph ------------------------------
(***************************************************************************)
(* From requirements to a graph of tasks: compiler.Compile chains the      *)
(* requirements of a lane, exploration finds the files they touch,         *)
(* PruneDependencies drops the links that couple nothing, ComputeWaves     *)
(* layers the rest and moves tasks that touch the same files apart,        *)
(* DraftExecutionPlan writes slices, ReviewExecutionPlan checks them after *)
(* whatever a user changed, and CompileExecutionPlan makes tickets of      *)
(* them, with a barrier between waves.                                     *)
(*                                                                         *)
(* A task is its position in the order of the requirements, a path the     *)
(* sequence of its components, a wave its index.                           *)
(***************************************************************************)
EXTENDS Naturals, FiniteSets, Sequences, SequencesExt

CONSTANTS
  N,          \* number of requirements, hence of compiled tasks
  Lanes,      \* bound: lanes are 1 .. Lanes
  Owned,      \* the sets of paths a requirement's text may stand for
  Files,      \* files exploration may find
  Edits,      \* waves a user may write into the plan file
  MaxEdits    \* bound: edits of the plan file

VARIABLES
  lane, owned, inventory,  \* the requirements, and what exploration finds
  phase,    \* the function that is at work
  next,     \* computeDepth: the next task to get its depth
  deps,     \* DependsOn of the compiled tasks
  wave,     \* the wave each task is in
  queue,    \* cascadeDependents: moved tasks whose dependents are to follow
  slices,   \* the execution plan: a record for each slice
  edits,    \* history: edits of the plan so far
  tickets   \* DependsOn of the tasks CompileExecutionPlan makes

inputs == <<lane, owned, inventory>>
vars == <<inputs, phase, next, deps, wave, queue, slices, edits, tickets>>

Tasks == 1 .. N

(* The same path, or one contains the other. *)
PathsOverlap(p, q) == IsPrefix(p, q) \/ IsPrefix(q, p)

Overlap(P, Q) == \E p \in P, q \in Q : PathsOverlap(p, q)

(* touchedFilesForTask: what exploration found under the owned paths. *)
Touched(i) == {f \in inventory : \E o \in owned[i] : IsPrefix(o, f)}

ConflictPaths(files, own) == IF files # {} THEN files ELSE own

ConflictExplored(i, j) == Overlap(Touched(i), Touched(j))

Conflict(i, j) == Overlap(ConflictPaths(Touched(i), owned[i]),
                          ConflictPaths(Touched(j), owned[j]))

(* Requirements are sorted by lane before anything else. *)
Init ==
  /\ lane \in {l \in [Tasks -> 1 .. Lanes] : \A i, j \in Tasks : i < j => l[i] <= l[j]}
  /\ owned \in [Tasks -> Owned]
  /\ inventory \in SUBSET Files
  /\ phase = "prune"
  /\ next = 1
  /\ deps = [i \in Tasks |-> {j \in Tasks : j + 1 = i /\ lane[j] = lane[i]}]
  /\ wave = [i \in Tasks |-> 0]
  /\ queue = {}
  /\ slices = <<>>
  /\ edits = 0
  /\ tickets = <<>>

(* A dependency stays if the two own overlapping paths; no two compiled    *)
(* tasks share a requirement, and none has read-only paths.                *)
Prune ==
  /\ phase = "prune"
  /\ deps' = [i \in Tasks |-> {d \in deps[i] : Overlap(owned[d], owned[i])}]
  /\ phase' = "depth"
  /\ UNCHANGED <<inputs, next, wave, queue, slices, edits, tickets>>

DepthPastEnd ==
  /\ phase = "depth"
  /\ next' = next + 1
  /\ phase' = IF next < N THEN "depth" ELSE "waves"
  /\ UNCHANGED <<inputs, deps, wave, queue, slices, edits, tickets>>

(* One more than the deepest dependency, which has its depth already. *)
Depth ==
  /\ phase = "depth"
  /\ \E n \in 0 .. N :
       /\ \A d \in deps[next] : wave[d] < n
       /\ n = 0 \/ \E d \in deps[next] : wave[d] + 1 = n
       /\ wave' = [wave EXCEPT ![next] = n]
  /\ next' = IF next < N THEN next + 1 ELSE next
  /\ phase' = IF next < N THEN "depth" ELSE "waves"
  /\ UNCHANGED <<inputs, deps, queue, slices, edits, tickets>>

ConflictsIn(w) ==
  {c \in Tasks \X Tasks : /\ c[1] < c[2] /\ Conflict(c[1], c[2])
                          /\ wave[c[1]] = w /\ wave[c[2]] = w}

InConflict(w) == {i \in Tasks : \E c \in ConflictsIn(w) : i \in {c[1], c[2]}}

Degree(i, w) == Cardinality({c \in ConflictsIn(w) : i \in {c[1], c[2]}})

Busier(i, w) ==
  {j \in InConflict(w) : \/ Degree(j, w) > Degree(i, w)
                         \/ Degree(j, w) = Degree(i, w) /\ j > i}

(* The task with most conflicts, of several the last, leaves the first     *)
(* wave that has conflicts.                                                *)
Move ==
  /\ phase = "waves" /\ queue = {}
  /\ \E w \in 0 .. N : \E i \in Tasks :
       /\ i \in InConflict(w)
       /\ \A v \in {u \in 0 .. N : u < w} : ConflictsIn(v) = {}
       /\ Busier(i, w) = {}
       /\ wave' = [wave EXCEPT ![i] = @ + 1]
       /\ queue' = {i}
  /\ UNCHANGED <<inputs, phase, next, deps, slices, edits, tickets>>

After(t) == {e \in Tasks : t \in deps[e] /\ wave[e] = wave[t]}

CascadeNoFurther ==
  \E t \in queue :
    /\ wave' = [e \in Tasks |-> IF e \in After(t) THEN wave[e] + 1 ELSE wave[e]]
    /\ queue' = queue \ {t}
    /\ UNCHANGED <<inputs, phase, next, deps, slices, edits, tickets>>

CascadeAgain ==
  \E t \in queue :
    /\ wave' = [e \in Tasks |-> IF e \in After(t) THEN wave[e] + 1 ELSE wave[e]]
    /\ queue' = queue \cup After(t)
    /\ UNCHANGED <<inputs, phase, next, deps, slices, edits, tickets>>

(* The dependents a moved task has caught up with move on in their turn.   *)
(* Each moves once, so the order of the queue decides nothing.             *)
Cascade ==
  \E t \in queue :
    /\ wave' = [e \in Tasks |-> IF e \in After(t) THEN wave[e] + 1 ELSE wave[e]]
    /\ queue' = (queue \ {t}) \cup After(t)
    /\ UNCHANGED <<inputs, phase, next, deps, slices, edits, tickets>>

(* DraftExecutionPlan, once no wave has a conflict. *)
Draft ==
  /\ phase = "waves" /\ queue = {}
  /\ \A w \in 0 .. N : ConflictsIn(w) = {}
  /\ slices' = [i \in Tasks |->
       [wave |-> wave[i], deps |-> deps[i], reqs |-> {i}, own |-> owned[i],
        files |-> IF Touched(i) # {} THEN Touched(i) ELSE owned[i]]]
  /\ phase' = "plan"
  /\ UNCHANGED <<inputs, next, deps, wave, queue, edits, tickets>>

(* A user edits the plan file: a wave, the dependencies, the files or the  *)
(* requirements of a slice, or drops the slice.                            *)
Edit(new) ==
  /\ phase = "plan" /\ edits < MaxEdits
  /\ slices' = new
  /\ edits' = edits + 1
  /\ UNCHANGED <<inputs, phase, next, deps, wave, queue, tickets>>

EditPlan ==
  \E i \in DOMAIN slices :
    \/ \E w \in Edits : Edit([slices EXCEPT ![i].wave = w])
    \/ \E d \in Tasks : Edit([slices EXCEPT ![i].deps = @ \cup {d}])
    \/ \E d \in slices[i].deps : Edit([slices EXCEPT ![i].deps = @ \ {d}])
    \/ \E P \in Owned : Edit([slices EXCEPT ![i].files = P, ![i].own = P])
    \/ \E R \in SUBSET {i} : Edit([slices EXCEPT ![i].reqs = R])
    \/ Edit([j \in (DOMAIN slices) \ {i} |-> slices[j]])

-----------------------------------------------------------------------------
(* ReviewExecutionPlan: the findings that block approval. *)
Paths(i) == ConflictPaths(slices[i].files, slices[i].own)

(* No set of nodes each of which has an edge to another of the set: the    *)
(* depth-first search of the code (CycleSearch) finds nothing.             *)
Acyclic(S, to) ==
  {X \in (SUBSET S) \ {{}} : \A x \in X : to[x] \cap X # {}} = {}

Deps == [i \in DOMAIN slices |-> slices[i].deps]

EdgeFindings(i) == {d \in slices[i].deps :
  \/ d = i
  \/ d \notin DOMAIN slices
  \/ slices[d].wave = slices[i].wave}

Clash(i, j) ==
  /\ slices[i].wave = slices[j].wave
  /\ Overlap(Paths(i), Paths(j))

WaveFindings == {i \in DOMAIN slices : \E j \in DOMAIN slices : i < j /\ Clash(i, j)}

Uncovered == {r \in Tasks : \A i \in DOMAIN slices : r \notin slices[i].reqs}

ReviewPasses ==
  /\ DOMAIN slices # {}
  /\ \A i \in DOMAIN slices : EdgeFindings(i) = {} /\ slices[i].reqs # {} /\ slices[i].own # {}
  /\ Acyclic(DOMAIN slices, Deps)
  /\ WaveFindings = {}
  /\ Uncovered = {}

NoBarrier(i) == {}

(* waveBarrierTaskIDs: everything in the wave just before. *)
Barrier(i) == {j \in DOMAIN slices : slices[j].wave + 1 = slices[i].wave}

(* CheckCoverage: requirements without a covering task. *)
Unassigned(coverage) == {r \in Tasks : coverage[r] = {}}

(* CompileExecutionPlan, of a plan whose review passed; Engine.Compile     *)
(* blocks on a requirement that no task covers.                            *)
CompilePlan ==
  /\ phase = "plan"
  /\ ReviewPasses
  /\ Unassigned([r \in Tasks |-> {i \in DOMAIN slices : r \in slices[i].reqs}]) = {}
  /\ tickets' = [i \in DOMAIN slices |-> slices[i].deps \cup Barrier(i)]
  /\ phase' = "compiled"
  /\ UNCHANGED <<inputs, next, deps, wave, queue, slices, edits>>

(* DraftExecutionPlan goes on to its end; the rest is the user's.           *)
Drafting == Prune \/ Depth \/ Move \/ Cascade \/ Draft

Next == Drafting \/ EditPlan \/ CompilePlan

Spec == Init /\ [][Next]_vars /\ WF_vars(Drafting)

-----------------------------------------------------------------------------
TypeOK ==
  /\ phase \in {"prune", "depth", "waves", "plan", "compiled"}
  /\ next \in Tasks
  /\ deps \in [Tasks -> SUBSET Tasks]
  /\ wave \in [Tasks -> Nat]
  /\ queue \in SUBSET Tasks
  /\ edits \in 0 .. MaxEdits

(* Whatever is moved out of the way of whatever, a task comes in a later   *)
(* wave than everything it depends on (compiler.go:202 "groups tasks into  *)
(* dependency-depth waves and then serializes intra-wave file conflicts"). *)
WavesRespectDeps ==
  phase \notin {"prune", "depth"} /\ queue = {}
    => \A i \in Tasks : \A d \in deps[i] : wave[d] < wave[i]

(* What the engine drafts its own review accepts.                          *)
DraftPassesReview == phase = "plan" /\ edits = 0 => ReviewPasses

(* Everything closed under the dependencies that holds i holds j. *)
Reaches(i, j) ==
  \A X \in SUBSET DOMAIN tickets :
    i \in X /\ (\A x \in X : tickets[x] \subseteq X) => j \in X

(* Tasks of a drafted plan that touch the same files are never open for    *)
(* work at once: one depends, in the end, on the other, and none on itself *)
(* (functional-spec.md:633 "resolve conflicts by serializing").            *)
ConflictsAreOrdered ==
  phase = "compiled" /\ edits = 0 =>
    /\ Acyclic(DOMAIN tickets, tickets)
    /\ \A i, j \in Tasks : i < j /\ Conflict(i, j) => Reaches(i, j) \/ Reaches(j, i)

(* Moving tasks apart comes to an end.                                     *)
WavesAreFound == <>(phase \in {"plan", "compiled"})

(* The review "validates [...] correct wave ordering and dependencies"     *)
(* (functional-spec.md:561), so what compiles has a task to begin with.    *)
CompiledIsAcyclic == phase = "compiled" => Acyclic(DOMAIN tickets, tickets)
=============================================================================
