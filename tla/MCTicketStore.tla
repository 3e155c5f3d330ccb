--------------------------- MODULE MCTicketStore ----------------------------
(* Instances of TicketStore for TLC. *)
EXTENDS TicketStore, TLC

CONSTANTS t1, t2, p1

(* t2 is compiled with a dependency on t1; with t1 alone there is none. *)
MCPlanDeps == [t \in Tasks |-> IF t = t2 THEN {t1} ELSE {}]

(* Dependency edits: the one the compiler makes, taken away and put back. *)
MCDepEdits == {<<t, d>> \in Tasks \X Tasks : t = t2 /\ d = t1}

MCSelfEdit == {<<t1, t1>>}

MCProgress == {"implementing"}

MCReleases == {"repair_pending"}

MCEngineStatuses == {"implementing", "failed"}

MCLong == {3}

MCShort == {1, 2}

MCInstant == {0}

Symmetry == Permutations(Owners) \cup Permutations(Procs \ {Sweeper})
=============================================================================
