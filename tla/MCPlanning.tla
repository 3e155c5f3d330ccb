----------------------------- MODULE MCPlanning -----------------------------
(***************************************************************************)
(* PlanGraph, CycleSearch, LearningStore, Council and TicketLinks for TLC. *)
(* They share no state: a behaviour is one of any of them, which part      *)
(* says, and the variables of the others idle.                             *)
(***************************************************************************)
EXTENDS Naturals, TLC

CONSTANTS
  Parts, Unused,
  N, Lanes, Owned, Files, Edits, MaxEdits, Nodes, NoNode,
  Ids, Similar, Confidence, Procs, NoProc, Expiry, MaxAge, MinAttach, MaxTime, MaxOutcomes,
  Fixed, Dynamic, TextEdits, Modes, Rounds, MaxCommands,
  Tickets, MaxLinkFaults,
  MaxFaults

VARIABLES
  part,
  lane, owned, inventory, phase, next, deps, wave, queue, slices, edits, tickets,
  edges, active, all, color, parent, stack, todo, cycles,
  local, shared, corrupt, index, prevention, lock, job, now, outcomes, added, acked, localFailed,
  spec, dynamic, hash, reviews, judged, council, kept,
  links, holder, spoiled,
  commands,
  faults

P == INSTANCE PlanGraph
C == INSTANCE CycleSearch
L == INSTANCE LearningStore
T == INSTANCE Council WITH Edits <- TextEdits
K == INSTANCE TicketLinks WITH MaxFaults <- MaxLinkFaults

planVars == <<lane, owned, inventory, phase, next, deps, wave, queue, slices, edits, tickets>>
searchVars == <<edges, active, all, color, parent, stack, todo, cycles>>
learningVars == <<local, shared, corrupt, index, prevention, lock, now, outcomes, added,
                  acked, localFailed>>
councilVars == <<spec, dynamic, hash, reviews, judged, council, kept>>
linkVars == <<links, holder, spoiled>>

PlanIdle ==
  /\ lane = Unused /\ owned = Unused /\ inventory = Unused /\ phase = Unused /\ next = Unused
  /\ deps = Unused /\ wave = Unused /\ queue = Unused /\ slices = Unused /\ edits = Unused
  /\ tickets = Unused

SearchIdle ==
  /\ edges = Unused /\ active = Unused /\ all = Unused /\ color = Unused
  /\ parent = Unused /\ stack = Unused /\ todo = Unused /\ cycles = Unused

LearningIdle ==
  /\ local = Unused /\ shared = Unused /\ corrupt = Unused /\ index = Unused /\ prevention = Unused
  /\ lock = Unused /\ now = Unused /\ outcomes = Unused /\ added = Unused
  /\ acked = Unused /\ localFailed = Unused

CouncilIdle ==
  /\ spec = Unused /\ dynamic = Unused /\ hash = Unused /\ reviews = Unused /\ judged = Unused
  /\ council = Unused /\ kept = Unused

LinksIdle ==
  /\ links = Unused /\ holder = Unused /\ spoiled = Unused

Init ==
  /\ part \in Parts
  /\ \/ /\ part = "plan" /\ P!Init
        /\ SearchIdle /\ LearningIdle /\ CouncilIdle /\ LinksIdle
        /\ job = Unused /\ commands = Unused /\ faults = Unused
     \/ /\ part = "cycles" /\ C!Init
        /\ PlanIdle /\ LearningIdle /\ CouncilIdle /\ LinksIdle
        /\ job = Unused /\ commands = Unused /\ faults = Unused
     \/ /\ part = "learning" /\ L!Init
        /\ PlanIdle /\ SearchIdle /\ CouncilIdle /\ LinksIdle /\ commands = Unused
     \/ /\ part = "council" /\ T!Init
        /\ PlanIdle /\ SearchIdle /\ LearningIdle /\ LinksIdle /\ job = Unused
     \/ /\ part = "links" /\ K!Init
        /\ PlanIdle /\ SearchIdle /\ LearningIdle /\ CouncilIdle

NotPlan == <<part, searchVars, learningVars, councilVars, linkVars, job, commands, faults>>
NotSearch == <<part, planVars, learningVars, councilVars, linkVars, job, commands, faults>>
NotLearning == <<part, planVars, searchVars, councilVars, linkVars, commands>>
NotCouncil == <<part, planVars, searchVars, learningVars, linkVars, job>>
NotLinks == <<part, planVars, searchVars, learningVars, councilVars>>

Drafting == part = "plan" /\ P!Drafting /\ UNCHANGED NotPlan

Next ==
  \/ part = "plan" /\ P!Next /\ UNCHANGED NotPlan
  \/ part = "cycles" /\ C!Next /\ UNCHANGED NotSearch
  \/ part = "learning" /\ L!Next /\ UNCHANGED NotLearning
  \/ part = "council" /\ T!Next /\ UNCHANGED NotCouncil
  \/ part = "links" /\ K!Next /\ UNCHANGED NotLinks

Spec ==
  /\ Init
  /\ [][Next]_<<NotPlan, planVars>>
  /\ WF_<<part, planVars>>(Drafting)

-----------------------------------------------------------------------------
(* Types of all five.                                                      *)
TypeOK ==
  CASE part = "plan" -> P!TypeOK
    [] part = "cycles" -> C!TypeOK
    [] part = "learning" -> L!TypeOK
    [] part = "council" -> T!TypeOK
    [] part = "links" -> K!TypeOK

(* A task comes in a later wave than what it depends on.                   *)
WavesRespectDeps == part = "plan" => P!WavesRespectDeps

(* What the engine drafts its review accepts.                              *)
DraftPassesReview == part = "plan" => P!DraftPassesReview

(* Of two tasks with files in common one waits for the other.              *)
ConflictsAreOrdered == part = "plan" => P!ConflictsAreOrdered

(* Moving tasks apart comes to an end.                                     *)
WavesAreFound == part = "plan" => P!WavesAreFound

(* Tickets of a reviewed plan have no cycle.                               *)
CompiledIsAcyclic == part = "plan" => P!CompiledIsAcyclic

(* Reported cycles are cycles, and one is found if there is any.           *)
CyclesAreFound == part = "cycles" => C!CyclesAreReal /\ C!SearchIsComplete

(* Links of tickets go both ways, and those who change them never block    *)
(* each other for good.                                                    *)
LinksAreMutual == part = "links" => K!LinksAreMutual /\ K!NoCircularWait

(* Recorded outcomes of learnings are not lost.                            *)
OutcomesAreKept == part = "learning" => L!OutcomesAreKept

(* A learning in use does not expire.                                      *)
UsedIsActive == part = "learning" => L!UsedIsActive

(* No learnings hide each other, unless a local write failed.              *)
SupersessionEnds == part = "learning" => L!SupersessionEnds

(* A council that is run again asks no reviewer twice for the same text,   *)
(* unless the write of the review, or of the round's hash, was cut short.  *)
ResumeKeepsWork == part = "council" => T!ResumeKeepsWork

(* Reviews are counted for the text they are of.                           *)
ReviewsAreOfTheText == part = "council" => T!ReviewsAreOfTheText

(* A council takes nothing from the text it was given.                     *)
CouncilKeepsTheText == part = "council" => T!CouncilKeepsTheText

(* A judgement from the cache has heard all reviews.                       *)
CachedHeardAll == part = "council" => T!CachedHeardAll

-----------------------------------------------------------------------------
(* Values of constants.  Two packages, a package inside the first, and     *)
(* both at once.                                                           *)
MCOwned == {{<<"a">>}, {<<"a", "x">>}, {<<"b">>}, {<<"a">>, <<"b">>}}

MCFiles == {<<"a", "x", "f">>, <<"a", "y">>}

(* One pair of learnings alike; a learning without outcomes has helped in  *)
(* half of the cases.                                                      *)
MCSimilar == {<<1, 2>>, <<2, 1>>}

MCConfidence == <<1, 2>>
=============================================================================
