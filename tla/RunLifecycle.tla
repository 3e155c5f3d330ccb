---------------------------- MODULE RunLifecycle ----------------------------
(***************************************************************************)
(* The approval chain of one run: technical specification, execution plan, *)
(* run artifact and compiled tickets (internal/engine: engine.go Approve   *)
(* and Compile, techspec.go, plan.go; cmd/fabrikk for the order in which   *)
(* commands call them), and the commands on the tickets of a compiled run, *)
(* as far as they write its status and coverage; which status and coverage *)
(* the single tickets give is RunStatus.                                   *)
(*                                                                         *)
(* Every document is a file of the run directory, replaced atomically      *)
(* (state.WriteAtomic) and never locked.  A review names the content it is *)
(* about by its SHA-256, an approval the content it approves; here the     *)
(* content itself stands for its hash.  Each action is one file read or    *)
(* written by a command; commands of several processes interleave between  *)
(* them, and a process may die between any two.                            *)
(***************************************************************************)
EXTENDS Naturals

CONSTANTS
  Procs,      \* fabrikk commands that may run at once
  Specs,      \* contents a technical specification may have
  Sound,      \* those with every required section
  Clean,      \* those without unresolved @@ annotations
  Bounds,     \* contents of the artifact's boundaries
  Empty,      \* those of a new artifact
  AskFirst,   \* those that hold questions for a human
  MaxDrafts,  \* bound: calls of DraftExecutionPlan
  Fit,        \* the drafts that pass the structural review
  None        \* no such file

Drafts == 1 .. MaxDrafts

(* An execution plan: GeneratedAt makes every draft a content of its own,  *)
(* and the status is part of the file its hash is taken of.                *)
Plan == [draft : Drafts, src : Specs, status : {"drafted", "under_review", "approved"}]

SpecReview == [hash : Specs, pass : BOOLEAN]

PlanReview == [hash : Plan, pass : BOOLEAN]

(* RunArtifact: its boundaries, and what ArtifactHash was computed over. *)
Artifact == [bounds : Bounds, hash : Bounds \cup {None}]

(* The tickets of a compilation: the plan, and the boundaries in force. *)
Tickets == [plan : Plan, bounds : Bounds]

(* RunState, as far as a prepared run goes, and what it is by its tickets. *)
OfTickets == {"running", "blocked", "completed"}

Statuses == {"awaiting_approval", "approved"} \cup OfTickets

ASSUME LifecycleAssumption ==
  /\ MaxDrafts \in Nat
  /\ Fit \subseteq Drafts
  /\ Sound \subseteq Specs
  /\ Clean \subseteq Specs
  /\ AskFirst \subseteq Bounds
  /\ Empty \in Bounds \ AskFirst
  /\ None \notin Statuses \cup Specs \cup Bounds \cup SpecReview \cup Plan \cup PlanReview \cup Tickets

RunDir ==
  [spec : Specs \cup {None}, specReview : SpecReview \cup {None},
   specApproval : Specs \cup {None},
   plan : Plan \cup {None}, md : Drafts \cup {0}, planReview : PlanReview \cup {None},
   planApproval : Plan \cup {None},
   artifact : Artifact, tickets : Tickets \cup {None}, coverage : Drafts \cup {0},
   status : Statuses]

VARIABLES
  run,      \* the files of the run, and its tickets
  job,      \* job[p]: what command p is in the middle of
  drafts,   \* plan drafts started so far
  refused,  \* history: the drafts the council found blocking issues in
  torn      \* history: a compilation has ended between its tickets and the
            \* first coverage, which none has written since

vars == <<run, job, drafts, refused, torn>>

(* What a command holds between two file accesses. *)
Then == {"drafted", "reviewed", "approved"}

Idle == [pc |-> "idle"]

Job ==
  {Idle}
  \cup [pc : {"specReview", "specApprove", "specApproval"}, spec : Specs]
  \cup [pc : {"planDraft", "planBuild"}, draft : Drafts, spec : Specs]
  \cup [pc : {"specCouncil", "specAgain", "council", "statusApproved", "compile", "statusRunning"}]
  \cup [pc : {"planWrite"}, plan : Plan, then : Then]
  \cup [pc : {"md"}, draft : Drafts, then : Then]
  \cup [pc : {"planHash"}, draft : Drafts]
  \cup [pc : {"planReview"}, hash : Plan, pass : BOOLEAN]
  \cup [pc : {"planCouncil", "planApprove"}, hash : Plan]
  \cup [pc : {"planVerdict"}, hash : Plan, saw : Drafts \cup {0}]
  \cup [pc : {"planCompare"}, hash : Plan, plan : Plan]
  \cup [pc : {"planRehash"}]
  \cup [pc : {"planApproval"}, hash : Plan]
  \cup [pc : {"gate"}, cmd : {"approve", "compile"}, art : Artifact]
  \cup [pc : {"gatePlan"}, cmd : {"approve", "compile"}, art : Artifact, hash : Plan]
  \cup [pc : {"gateHash"}, cmd : {"approve", "compile"}, art : Artifact, hash : Plan,
        plan : Plan]
  \cup [pc : {"approve", "bounds"}, art : Artifact]
  \cup [pc : {"lineage", "tickets"}, art : Artifact, plan : Plan]
  \cup [pc : {"lineageSpec"}, art : Artifact, plan : Plan, spec : Specs]
  \cup [pc : {"coverage"}, draft : Drafts]
  \cup [pc : {"sync"}, says : OfTickets \cup {None}]
  \cup [pc : {"cover"}, draft : Drafts, says : OfTickets \cup {None}]
  \cup [pc : {"refresh"}, says : Statuses]
  \cup [pc : {"reconcile"}, saw : Statuses]
  \cup [pc : {"infer"}, saw : Statuses, approved : BOOLEAN]

TypeOK ==
  /\ run \in RunDir
  /\ job \in [Procs -> Job]
  /\ drafts \in 0 .. MaxDrafts
  /\ refused \in SUBSET Drafts
  /\ torn \in BOOLEAN

(* The run as Prepare leaves it. *)
Init ==
  /\ run = [spec |-> None, specReview |-> None, specApproval |-> None,
            plan |-> None, md |-> 0, planReview |-> None, planApproval |-> None,
            artifact |-> [bounds |-> Empty, hash |-> None],
            tickets |-> None, coverage |-> 0, status |-> "awaiting_approval"]
  /\ job = [p \in Procs |-> Idle]
  /\ drafts = 0
  /\ refused = {}
  /\ torn = FALSE

-----------------------------------------------------------------------------
(* The shapes of a step: p goes on with j, reading or writing one file; a  *)
(* check that fails returns an error and ends the command.                 *)

Goes(p, j) == job' = [job EXCEPT ![p] = j]

Reads(p, j) == Goes(p, j) /\ UNCHANGED <<run, drafts, refused, torn>>

Checks(p, ok, j) == Reads(p, IF ok THEN j ELSE Idle)

Writes(p, files, j) == run' = files /\ Goes(p, j) /\ UNCHANGED <<drafts, refused, torn>>

At(p, pc) == job[p].pc = pc

(* The process dies, or an access fails and the command returns an error. *)
Crash(p) ==
  /\ job[p] # Idle
  /\ Goes(p, Idle)
  /\ torn' = (torn \/ (At(p, "coverage") /\ run.coverage = 0))
  /\ UNCHANGED <<run, drafts, refused>>

-----------------------------------------------------------------------------
(* Technical specification: techspec.go.                                   *)

(* DraftTechnicalSpec, once the source is read and normalised. *)
SpecDraft(p, s) ==
  /\ job[p] = Idle
  /\ Writes(p, [run EXCEPT !.spec = s], Idle)

(* ReviewTechnicalSpec: alone, or again at the end of a council review. *)
SpecReviewUnchecked(p) ==
  /\ job[p] = Idle \/ At(p, "specAgain")
  /\ Reads(p, [pc |-> "specReview", spec |-> run.spec])

SpecReviewRead(p) ==
  /\ job[p] = Idle \/ At(p, "specAgain")
  /\ run.spec # None
  /\ Reads(p, [pc |-> "specReview", spec |-> run.spec])

SpecReviewWrite(p) ==
  /\ At(p, "specReview")
  /\ LET s == job[p].spec IN
       Writes(p, [run EXCEPT !.specReview = [hash |-> s, pass |-> s \in Sound]], Idle)

(* CouncilReviewTechnicalSpec: the council works on what it read ...      *)
SpecCouncilRead(p) ==
  /\ job[p] = Idle
  /\ run.spec # None
  /\ Reads(p, [pc |-> "specCouncil"])

(* ... and its final text replaces whatever the specification is by then. *)
SpecCouncilWrite(p, s) ==
  /\ At(p, "specCouncil")
  /\ Writes(p, [run EXCEPT !.spec = s], [pc |-> "specAgain"])

(* ApproveTechnicalSpec. *)
SpecApproveRead(p) ==
  /\ job[p] = Idle
  /\ run.specReview # None
  /\ run.specReview.pass
  /\ Reads(p, [pc |-> "specApprove", spec |-> run.specReview.hash])

SpecApproveUnbound(p) ==
  /\ At(p, "specApprove")
  /\ run.spec # None
  /\ Checks(p, run.spec \in Clean, [pc |-> "specApproval", spec |-> run.spec])

SpecApproveCheck(p) ==
  /\ At(p, "specApprove")
  /\ Checks(p, run.spec = job[p].spec /\ run.spec \in Clean,
            [pc |-> "specApproval", spec |-> job[p].spec])

SpecApproveWrite(p) ==
  /\ At(p, "specApproval")
  /\ Writes(p, [run EXCEPT !.specApproval = job[p].spec], Idle)

-----------------------------------------------------------------------------
(* Execution plan: plan.go.                                                *)

(* DraftExecutionPlan: readApprovedTechnicalSpecHash, ... *)
PlanDraftRead(p) ==
  /\ job[p] = Idle
  /\ run.specApproval # None
  /\ drafts < MaxDrafts
  /\ drafts' = drafts + 1
  /\ Goes(p, [pc |-> "planDraft", draft |-> drafts + 1, spec |-> run.specApproval])
  /\ UNCHANGED <<run, refused, torn>>

PlanDraftCheck(p) ==
  /\ At(p, "planDraft")
  /\ Checks(p, run.spec = job[p].spec,
            [pc |-> "planBuild", draft |-> job[p].draft, spec |-> job[p].spec])

(* ... the artifact, whose questions must be answered first, the slices. *)
PlanDraftBuild(p) ==
  /\ At(p, "planBuild")
  /\ Checks(p, run.artifact.bounds \notin AskFirst,
            [pc |-> "planWrite", then |-> "drafted",
             plan |-> [draft |-> job[p].draft, src |-> job[p].spec, status |-> "drafted"]])

(* Draft, review and approval all write the plan, then its rendering. *)
PlanWrite(p) ==
  /\ At(p, "planWrite")
  /\ Writes(p, [run EXCEPT !.plan = job[p].plan],
            [pc |-> "md", draft |-> job[p].plan.draft, then |-> job[p].then])

MdWrite(p) ==
  /\ At(p, "md")
  /\ Writes(p, [run EXCEPT !.md = job[p].draft],
            CASE job[p].then = "drafted" -> Idle
              [] job[p].then = "reviewed" -> [pc |-> "planHash", draft |-> job[p].draft]
              [] job[p].then = "approved" -> [pc |-> "planRehash"])

(* ReviewExecutionPlan: a plan not yet approved is marked first.  The hash *)
(* of the review is taken of the file read again after that.               *)
PlanReviewUnmarked(p) ==
  /\ job[p] = Idle
  /\ run.plan # None
  /\ Reads(p, [pc |-> "planHash", draft |-> run.plan.draft])

PlanReviewAlways(p) ==
  /\ job[p] = Idle
  /\ run.plan # None
  /\ Reads(p, [pc |-> "planWrite", plan |-> [run.plan EXCEPT !.status = "under_review"],
               then |-> "reviewed"])

PlanReviewRead(p) ==
  /\ job[p] = Idle
  /\ run.plan # None
  /\ Reads(p, IF run.plan.status = "approved"
              THEN [pc |-> "planHash", draft |-> run.plan.draft]
              ELSE [pc |-> "planWrite", plan |-> [run.plan EXCEPT !.status = "under_review"],
                    then |-> "reviewed"])

PlanReviewHash(p) ==
  /\ At(p, "planHash")
  /\ run.plan # None
  /\ Reads(p, [pc |-> "planReview", hash |-> run.plan, pass |-> job[p].draft \in Fit])

(* With --council, a passing review goes on to the council. *)
PlanReviewWrite(p) ==
  /\ At(p, "planReview")
  /\ \E next \in {Idle} \cup (IF job[p].pass THEN {[pc |-> "council"]} ELSE {}) :
        Writes(p, [run EXCEPT !.planReview = [hash |-> job[p].hash, pass |-> job[p].pass]],
               next)

(* CouncilReviewExecutionPlan: the review, the rendering, the verdict; the *)
(* review is written back with the hash it had.                            *)
PlanCouncilRead(p) ==
  /\ At(p, "council")
  /\ run.planReview # None
  /\ Checks(p, run.planReview.pass, [pc |-> "planCouncil", hash |-> run.planReview.hash])

PlanCouncilSee(p) ==
  /\ At(p, "planCouncil")
  /\ Reads(p, [pc |-> "planVerdict", hash |-> job[p].hash, saw |-> run.md])

PlanCouncilWrite(p, pass) ==
  /\ At(p, "planVerdict")
  /\ run' = [run EXCEPT !.planReview = [hash |-> job[p].hash, pass |-> pass]]
  /\ refused' = IF pass THEN refused ELSE refused \cup {job[p].hash.draft}
  /\ Goes(p, Idle)
  /\ UNCHANGED <<drafts, torn>>

(* ApproveExecutionPlan: review, plan, hash of the file; then the plan is  *)
(* written as approved and the approval takes the hash of what it re-reads. *)
PlanApproveAnyReview(p) ==
  /\ job[p] = Idle
  /\ run.planReview # None
  /\ Reads(p, [pc |-> "planApprove", hash |-> run.planReview.hash])

PlanApproveRead(p) ==
  /\ job[p] = Idle
  /\ run.planReview # None
  /\ run.planReview.pass
  /\ Reads(p, [pc |-> "planApprove", hash |-> run.planReview.hash])

PlanApprovePlan(p) ==
  /\ At(p, "planApprove")
  /\ run.plan # None
  /\ Reads(p, [pc |-> "planCompare", hash |-> job[p].hash, plan |-> run.plan])

PlanApproveCheck(p) ==
  /\ At(p, "planCompare")
  /\ Checks(p, run.plan = job[p].hash,
            [pc |-> "planWrite", plan |-> [job[p].plan EXCEPT !.status = "approved"],
             then |-> "approved"])

PlanApproveHash(p) ==
  /\ At(p, "planRehash")
  /\ run.plan # None
  /\ Reads(p, [pc |-> "planApproval", hash |-> run.plan])

PlanApprovalWrite(p) ==
  /\ At(p, "planApproval")
  /\ Writes(p, [run EXCEPT !.planApproval = job[p].hash], Idle)

-----------------------------------------------------------------------------
(* fabrikk approve: Engine.Approve, then Engine.Compile.                   *)

ApproveRead(p) ==
  /\ job[p] = Idle
  /\ Reads(p, [pc |-> "gate", cmd |-> "approve", art |-> run.artifact])

CompileRead(p) ==
  /\ At(p, "compile")
  /\ Reads(p, [pc |-> "gate", cmd |-> "compile", art |-> run.artifact])

(* readApprovedExecutionPlan, called by both: approval, plan, file hash. *)
GateApproval(p) ==
  /\ At(p, "gate")
  /\ Checks(p, run.planApproval # None,
            [pc |-> "gatePlan", cmd |-> job[p].cmd, art |-> job[p].art,
             hash |-> run.planApproval])

GatePlan(p) ==
  /\ At(p, "gatePlan")
  /\ run.plan # None
  /\ Reads(p, [pc |-> "gateHash", cmd |-> job[p].cmd, art |-> job[p].art,
               hash |-> job[p].hash, plan |-> run.plan])

GateHash(p) ==
  /\ At(p, "gateHash")
  /\ Checks(p, job[p].plan.status = "approved" /\ run.plan = job[p].hash,
            IF job[p].cmd = "approve"
            THEN [pc |-> "approve", art |-> job[p].art]
            ELSE [pc |-> "lineage", art |-> job[p].art, plan |-> job[p].plan])

(* The artifact is written back as it was read, with its hash. *)
ApproveWrite(p) ==
  /\ At(p, "approve")
  /\ LET b == job[p].art.bounds IN
       Writes(p, [run EXCEPT !.artifact = [bounds |-> b, hash |-> b]],
              [pc |-> "statusApproved"])

(* refreshRunStatus(s): completed instead when all tickets are done, which *)
(* any tickets may be.  One step, as what it reads before can only have    *)
(* been fewer tickets, and then it writes s.                               *)
Refresh(p, s, j) ==
  \E r \in {s} \cup (IF run.tickets = None THEN {} ELSE {"completed"}) :
     Writes(p, [run EXCEPT !.status = r], j)

ApproveStatus(p) ==
  /\ At(p, "statusApproved")
  /\ Refresh(p, "approved", [pc |-> "compile"])

(* Compile: readApprovedTechnicalSpecHash again, and the plan's lineage. *)
LineageApproval(p) ==
  /\ At(p, "lineage")
  /\ Checks(p, run.specApproval # None,
            [pc |-> "lineageSpec", art |-> job[p].art, plan |-> job[p].plan,
             spec |-> run.specApproval])

LineageUnchecked(p) ==
  /\ At(p, "lineageSpec")
  /\ Checks(p, run.spec = job[p].spec,
            [pc |-> "tickets", art |-> job[p].art, plan |-> job[p].plan])

LineageSpec(p) ==
  /\ At(p, "lineageSpec")
  /\ Checks(p, run.spec = job[p].spec /\ job[p].plan.src = run.spec,
            [pc |-> "tickets", art |-> job[p].art, plan |-> job[p].plan])

(* CompileExecutionPlan, CheckCoverage and WriteTasks.  A plan that did    *)
(* not pass its structural review may also fail to compile: then Crash.    *)
(* The tickets are there from the first of them on (TicketStore has each). *)
CompileTicketsOnly(p) ==
  /\ At(p, "tickets")
  /\ Writes(p, [run EXCEPT !.tickets = [plan |-> job[p].plan, bounds |-> job[p].art.bounds]],
            [pc |-> "statusRunning"])

CompileTickets(p) ==
  /\ At(p, "tickets")
  /\ Writes(p, [run EXCEPT !.tickets = [plan |-> job[p].plan, bounds |-> job[p].art.bounds]],
            [pc |-> "coverage", draft |-> job[p].plan.draft])

CompileCoverage(p) ==
  /\ At(p, "coverage")
  /\ run' = [run EXCEPT !.coverage = job[p].draft]
  /\ Goes(p, [pc |-> "statusRunning"])
  /\ torn' = FALSE
  /\ UNCHANGED <<drafts, refused>>

CompileStatus(p) ==
  /\ At(p, "statusRunning")
  /\ Refresh(p, "running", Idle)

(* fabrikk boundaries set: cmd/fabrikk reads and writes the artifact. *)
BoundsRead(p) ==
  /\ job[p] = Idle
  /\ Reads(p, [pc |-> "bounds", art |-> run.artifact])

BoundsWrite(p, b) ==
  /\ At(p, "bounds")
  /\ Writes(p, [run EXCEPT !.artifact = [job[p].art EXCEPT !.bounds = b]], Idle)

-----------------------------------------------------------------------------
(* Commands on the tickets of the run.                                     *)

(* A ticket is written, then coverage is synced; VerifyTask and RetryTask  *)
(* have the status say so, UpdateTaskStatus and ReleaseTask do not.        *)
TaskStart(p, says) ==
  /\ job[p] = Idle
  /\ run.tickets # None
  /\ Reads(p, [pc |-> "sync", says |-> says])

AfterSync(says) == IF says = None THEN Idle ELSE [pc |-> "refresh", says |-> says]

(* syncCoverageFromTasks leaves a missing file missing, and writes another *)
(* back with new statuses.                                                 *)
SyncRead(p) ==
  /\ At(p, "sync")
  /\ Reads(p, IF run.coverage = 0 THEN AfterSync(job[p].says)
              ELSE [pc |-> "cover", draft |-> run.coverage, says |-> job[p].says])

SyncWrite(p) ==
  /\ At(p, "cover")
  /\ Writes(p, [run EXCEPT !.coverage = job[p].draft], AfterSync(job[p].says))

RefreshStatus(p) ==
  /\ At(p, "refresh")
  /\ Refresh(p, job[p].says, Idle)

(* fabrikk status, ReconcileRunStatus: status, artifact, tickets. *)
ReconcileRead(p) ==
  /\ job[p] = Idle
  /\ Reads(p, [pc |-> "reconcile", saw |-> run.status])

ReconcileArtifact(p) ==
  /\ At(p, "reconcile")
  /\ Reads(p, [pc |-> "infer", saw |-> job[p].saw, approved |-> run.artifact.hash # None])

InferredOfAny(approved) == IF run.tickets # None THEN OfTickets ELSE {"running"}

(* inferredRunStatus: what tickets say that are there, even without their  *)
(* coverage, and the artifact otherwise.                                   *)
Inferred(approved) ==
  IF run.tickets # None THEN OfTickets
  ELSE {IF approved THEN "approved" ELSE "awaiting_approval"}

(* statusNeedsRefresh: gate, blockers or counts may differ too. *)
ReconcileInfer(p) ==
  /\ At(p, "infer")
  /\ \E says \in Inferred(job[p].approved) :
     \E next \in {[pc |-> "refresh", says |-> says]}
                 \cup (IF says = job[p].saw THEN {Idle} ELSE {}) :
        Reads(p, next)

-----------------------------------------------------------------------------
SpecStep(p) ==
  \/ \E s \in Specs : SpecDraft(p, s) \/ SpecCouncilWrite(p, s)
  \/ SpecReviewRead(p) \/ SpecReviewWrite(p) \/ SpecCouncilRead(p)
  \/ SpecApproveRead(p) \/ SpecApproveCheck(p) \/ SpecApproveWrite(p)

PlanStep(p) ==
  \/ PlanDraftRead(p) \/ PlanDraftCheck(p) \/ PlanDraftBuild(p)
  \/ PlanWrite(p) \/ MdWrite(p)
  \/ PlanReviewRead(p) \/ PlanReviewHash(p) \/ PlanReviewWrite(p)
  \/ PlanCouncilRead(p) \/ PlanCouncilSee(p) \/ \E pass \in BOOLEAN : PlanCouncilWrite(p, pass)
  \/ PlanApproveRead(p) \/ PlanApprovePlan(p) \/ PlanApproveCheck(p)
  \/ PlanApproveHash(p) \/ PlanApprovalWrite(p)

RunStep(p) ==
  \/ ApproveRead(p) \/ GateApproval(p) \/ GatePlan(p) \/ GateHash(p)
  \/ ApproveWrite(p) \/ ApproveStatus(p)
  \/ CompileRead(p) \/ LineageApproval(p) \/ LineageSpec(p)
  \/ CompileTickets(p) \/ CompileCoverage(p) \/ CompileStatus(p)
  \/ BoundsRead(p) \/ \E b \in Bounds : BoundsWrite(p, b)

TaskStep(p) ==
  \/ \E says \in {"running", "blocked", None} : TaskStart(p, says)
  \/ SyncRead(p) \/ SyncWrite(p) \/ RefreshStatus(p)
  \/ ReconcileRead(p) \/ ReconcileArtifact(p) \/ ReconcileInfer(p)

Command(p) == SpecStep(p) \/ PlanStep(p) \/ RunStep(p) \/ TaskStep(p)

Next == \E p \in Procs : Command(p) \/ Crash(p)

Spec == Init /\ [][Next]_vars

(* No process dies and no file access fails. *)
SteadySpec == Init /\ [][\E p \in Procs : Command(p)]_vars

(* The fairness of RunRecovers: the user of one process repeats every      *)
(* command of the pipeline, a command that started gets on, and accesses   *)
(* fail or processes die only finitely often: from some time on each step  *)
(* is one that a command takes by itself.  A council, if asked, does not   *)
(* refuse the plan for ever.  Redrafts and boundaries may come or not.     *)
Fairness ==
  /\ <>[][\E p \in Procs : Command(p)]_vars
  /\ \A p \in Procs :
       /\ WF_vars(job[p] # Idle /\ Command(p))
       /\ SF_vars(PlanReviewRead(p))
       /\ SF_vars(PlanApproveRead(p))
       /\ SF_vars(SpecReviewRead(p) /\ job[p] = Idle)
       /\ SF_vars(SpecApproveRead(p))
       /\ SF_vars(ApproveRead(p))
       /\ <>[][~PlanCouncilWrite(p, FALSE)]_vars

LiveSpec == Spec /\ Fairness

-----------------------------------------------------------------------------
(* What is approved as technical specification has every required section  *)
(* and no open annotation, however drafts, reviews, councils and approvals *)
(* of several processes interleave: the approval names the content that    *)
(* was reviewed and checked (techspec.go:225-241).                         *)
ApprovedSpecIsSound ==
  run.specApproval # None => run.specApproval \in Sound \cap Clean

(* Tickets come from a plan that was drafted from such a specification:    *)
(* the lineage by hashes reaches from the tickets to the review            *)
(* (engine.go:185-194).                                                    *)
TicketsAreTraceable ==
  run.tickets # None => run.tickets.plan.src \in Sound \cap Clean

(* Status and coverage are never ahead of the tickets they are derived     *)
(* from, whichever of their writers (Approve, Compile, VerifyTask,         *)
(* RetryTask, status) read what before the others wrote; and tickets are   *)
(* without coverage only while a compilation is between the two or since   *)
(* one ended there (engine.go:215-219): no sync loses it.                  *)
StatusHasWork ==
  /\ run.status \in OfTickets => run.tickets # None
  /\ run.coverage # 0 => run.tickets # None
  /\ run.tickets # None /\ run.coverage = 0 => torn \/ \E p \in Procs : At(p, "coverage")

(* The plan approved is one that passed its review: "want stale review     *)
(* hash error" (engine_test.go:911), for every crash between the writes of *)
(* the plan, its rendering, its review and its approval.                   *)
ApprovedPlanIsFit ==
  run.planApproval # None => run.planApproval.draft \in Fit

(* The council judges the rendering of the plan whose review it will       *)
(* write, although plan and rendering are two writes (plan.go:89-95).      *)
CouncilSeesReviewedPlan ==
  \A p \in Procs : At(p, "planVerdict") => job[p].saw = job[p].hash.draft

(* The specification that tickets are compiled from is approved, current   *)
(* and the one their plan was drafted from: "A re-approved tech spec must  *)
(* trigger a new execution plan draft" (engine.go:186).                    *)
TicketsFollowSpec ==
  [][run'.tickets # run.tickets =>
        /\ run'.tickets.plan.src = run.spec
        /\ run.specApproval = run.spec]_vars

(* No crash in reviewing, approving or compiling wedges the run: while its *)
(* plan is fit and drafted from an approvable specification that stands,   *)
(* repeating the commands ends with tickets of that plan, their coverage   *)
(* and the status of a running run.                                        *)
Ready ==
  /\ run.plan # None /\ run.plan.draft \in Fit
  /\ run.plan.src = run.spec /\ run.spec \in Sound \cap Clean
  /\ run.artifact.bounds \notin AskFirst

Recovered ==
  /\ run.tickets # None
  /\ run.tickets.plan.draft = run.plan.draft
  /\ run.coverage = run.plan.draft
  /\ run.status \in {"running", "completed"}

RunRecovers == []<>(Ready => Recovered)

-----------------------------------------------------------------------------
(* A running run has its coverage, as Compile writes the status after it   *)
(* (engine.go:219-230): not so, since the status command infers running    *)
(* from tickets alone, as verify and retry do (engine.go:275, 875, 1228),  *)
(* and missing coverage is tolerated (engine.go:1093-1097): a compilation  *)
(* cut short shows as a running run.                                       *)
RunningIsCovered == run.status = "running" => run.coverage # 0

(* "a failed Compile cannot leave the run in a half-approved state"        *)
(* (engine.go:128): when no command is under way, an approved artifact has *)
(* its tickets.                                                            *)
NotHalfApproved ==
  (\A p \in Procs : job[p] = Idle) /\ run.artifact.hash # None => run.tickets # None

(* "Blocking council findings prevent plan approval"                       *)
(* (spec-decomp-planning.md:552).                                          *)
CouncilBlocks ==
  run.planApproval # None => run.planApproval.draft \notin refused

(* "The engine must validate the hash before dispatching any work"         *)
(* (fabrikk-technical-spec.md:295): a run with tickets to dispatch has the *)
(* artifact its hash was computed over.                                    *)
DispatchesApprovedArtifact ==
  run.tickets # None => run.artifact.hash = run.artifact.bounds
=============================================================================
