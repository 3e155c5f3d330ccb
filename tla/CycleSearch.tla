---------------------------- MODULE CycleSearch -----------------------------
(***************************************************************************)
(* Depth-first search for dependency cycles with three colours:            *)
(* ticket.DetectCycles, which goes on to collect cycles, and the engine's  *)
(* findCycleInGraph over slices, which stops at the first.  The roots of   *)
(* DetectCycles come in the order of a Go map, which is any.               *)
(***************************************************************************)
EXTENDS Naturals, Sequences, FiniteSets, SequencesExt

CONSTANTS
  Nodes,    \* a set of numbers, in the order of the ids
  NoNode    \* the parent of a root

VARIABLES
  edges,    \* edges[n]: what n depends on
  active,   \* the tickets not closed
  all,      \* DetectCycles, or the search that stops at the first cycle
  color, parent,
  stack,    \* the calls of dfs, the innermost first
  todo,     \* todo[n]: the dependencies the call for n has not looked at
  cycles    \* what was found

searchVars == <<edges, active, all, color, parent, stack, todo, cycles>>

Init ==
  /\ edges \in [Nodes -> SUBSET Nodes]
  /\ active \in SUBSET Nodes
  /\ all \in BOOLEAN
  /\ color = [n \in Nodes |-> "white"]
  /\ parent = [n \in Nodes |-> NoNode]
  /\ stack = <<>>
  /\ todo = edges
  /\ cycles = {}

Stopped == ~all /\ cycles # {}

Root(n) ==
  /\ stack = <<>> /\ ~Stopped
  /\ n \in active /\ color[n] = "white"
  /\ color' = [color EXCEPT ![n] = "gray"]
  /\ stack' = <<n>>
  /\ UNCHANGED <<edges, active, all, parent, todo, cycles>>

(* extractCycle: back from node along the parents, up to the node the      *)
(* dependency points at.                                                   *)
ExtractCycle(from, to) ==
  LET up[k \in 0 .. Cardinality(Nodes)] ==
        IF k = 0 THEN from
        ELSE IF up[k - 1] \in {to, NoNode} THEN up[k - 1] ELSE parent[up[k - 1]]
      last == CHOOSE k \in DOMAIN up : up[k] \in {to, NoNode}
                                       /\ \A j \in 0 .. k : j < k => up[j] \notin {to, NoNode}
  IN  <<to>> \o [k \in 1 .. last |-> up[k - 1]]

(* Rotated so that the smallest id comes first. *)
NormalizeCycle(c) ==
  LET first == CHOOSE i \in DOMAIN c : \A j \in DOMAIN c : c[i] <= c[j]
  IN  [i \in DOMAIN c |-> c[((first + i - 2) % Len(c)) + 1]]

(* One turn of the loop over the dependencies of the innermost call, which *)
(* goes down into an open ticket not seen yet.                             *)
Turn(dep, closesCycle) ==
  /\ stack # <<>> /\ ~Stopped
  /\ LET node == Head(stack) IN
       /\ dep \in todo[node]
       /\ todo' = [todo EXCEPT ![node] = @ \ {dep}]
       /\ IF dep \in active /\ color[dep] = "white"
          THEN /\ parent' = [parent EXCEPT ![dep] = node]
               /\ color' = [color EXCEPT ![dep] = "gray"]
               /\ stack' = <<dep>> \o stack
          ELSE UNCHANGED <<parent, color, stack>>
       /\ cycles' = IF dep \in active /\ closesCycle
                    THEN cycles \cup {NormalizeCycle(ExtractCycle(node, dep))} ELSE cycles
  /\ UNCHANGED <<edges, active, all>>

LookPastParent(dep) == Turn(dep, color[dep] = "gray" /\ dep # parent[Head(stack)])

Look(dep) == Turn(dep, color[dep] = "gray")

Return ==
  /\ stack # <<>> /\ ~Stopped
  /\ todo[Head(stack)] = {}
  /\ color' = [color EXCEPT ![Head(stack)] = "black"]
  /\ stack' = Tail(stack)
  /\ UNCHANGED <<edges, active, all, parent, todo, cycles>>

Next == Return \/ \E n \in Nodes : Root(n) \/ Look(n)

Spec == Init /\ [][Next]_searchVars

-----------------------------------------------------------------------------
Done ==
  \/ Stopped
  \/ stack = <<>> /\ \A n \in active : color[n] # "white"

(* The calls of dfs are of open tickets, and each still has to look at     *)
(* some of the dependencies of its ticket.                                 *)
TypeOK ==
  /\ edges \in [Nodes -> SUBSET Nodes] /\ active \in SUBSET Nodes
  /\ color \in [Nodes -> {"white", "gray", "black"}]
  /\ parent \in [Nodes -> Nodes \cup {NoNode}]
  /\ stack \in Seq(active)
  /\ todo \in [Nodes -> SUBSET Nodes]
  /\ \A n \in Nodes : todo[n] \subseteq edges[n]

(* A set of open tickets each of which waits for another of the set. *)
Cyclic == \E X \in SUBSET active : X # {} /\ \A x \in X : edges[x] \cap X # {}

(* What is reported is a cycle of distinct open tickets, each waiting for  *)
(* the one before it, whatever was explored earlier (deps.go:155).         *)
CyclesAreReal ==
  \A c \in cycles :
    /\ Range(c) \subseteq active
    /\ Cardinality(Range(c)) = Len(c)
    /\ \A i \in DOMAIN c : c[IF i = 1 THEN Len(c) ELSE i - 1] \in edges[c[i]]

(* Whatever the order of the roots, a cycle is found if there is one       *)
(* (deps.go:65, plan.go:766).                                              *)
SearchIsComplete == Done => (cycles # {} <=> Cyclic)
=============================================================================
