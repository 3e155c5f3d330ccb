------------------------- MODULE RunLifecycleProofs --------------------------
(***************************************************************************)
(* Lineage and work of a run, for any number of processes and contents;    *)
(* then what holds of its plan as long as commands are given one at a      *)
(* time, and may die anywhere.                                             *)
(***************************************************************************)
EXTENDS RunLifecycle, TLAPS

Approvable == Sound \cap Clean

(* What the files promise each other.  A passing review is about a sound   *)
(* specification; approval, plan and tickets stem from an approvable one.  *)
RunOK(r) ==
  /\ r.specReview # None /\ r.specReview.pass => r.specReview.hash \in Sound
  /\ r.specApproval # None => r.specApproval \in Approvable
  /\ r.plan # None => r.plan.src \in Approvable
  /\ r.tickets # None => r.tickets.plan.src \in Approvable
  /\ r.status \in OfTickets => r.tickets # None
  /\ r.coverage # 0 => r.tickets # None

(* What a command carries from its reads stays good whatever the others    *)
(* write meanwhile, and what it has written is never taken back.           *)
JobOK(j, r) ==
  /\ j.pc = "specApprove" => j.spec \in Sound
  /\ j.pc \in {"specApproval", "planDraft", "planBuild"} => j.spec \in Approvable
  /\ j.pc \in {"planWrite", "planCompare", "gateHash", "lineage", "lineageSpec", "tickets"}
        => j.plan.src \in Approvable
  /\ j.pc \in {"coverage", "statusRunning", "sync", "cover"} => r.tickets # None
  /\ j.pc = "refresh" /\ j.says \in OfTickets => r.tickets # None

ChainInv == TypeOK /\ RunOK(run) /\ \A p \in Procs : JobOK(job[p], run)

(* A run that has tickets goes on having some. *)
Grows(r, s) == r.tickets # None => s.tickets # None

-----------------------------------------------------------------------------
(* What a job holds, by the step it is at. *)
LEMMA JobFields ==
  ASSUME NEW j \in Job
  PROVE  /\ j.pc \in {"specReview", "specApprove", "specApproval", "planDraft", "planBuild",
                      "lineageSpec"} => j.spec \in Specs
         /\ j.pc \in {"planDraft", "planBuild", "md", "planHash", "coverage"} => j.draft \in Drafts
         /\ j.pc \in {"planWrite", "planCompare", "gateHash", "lineage", "lineageSpec", "tickets"}
              => j.plan \in Plan
         /\ j.pc \in {"planWrite", "md"} => j.then \in Then
         /\ j.pc \in {"planReview", "planCouncil", "planApprove", "planVerdict", "planCompare",
                      "planApproval", "gatePlan", "gateHash"} => j.hash \in Plan
         /\ j.pc = "planReview" => j.pass \in BOOLEAN
         /\ j.pc \in {"gate", "gatePlan", "gateHash"} => j.cmd \in {"approve", "compile"}
         /\ j.pc \in {"gate", "gatePlan", "gateHash", "approve", "bounds", "lineage",
                      "lineageSpec", "tickets"} => j.art \in Artifact
         /\ j.pc = "cover" => j.draft \in Drafts
         /\ j.pc \in {"sync", "cover"} => j.says \in OfTickets \cup {None}
         /\ j.pc = "refresh" => j.says \in Statuses
         /\ j.pc \in {"reconcile", "infer"} => j.saw \in Statuses
         /\ j.pc = "infer" => j.approved \in BOOLEAN
BY DEF Job, Idle

(* Contents, plans and artifacts are not the missing file. *)
LEMMA Present ==
  /\ \A s \in Specs : s # None
  /\ \A r \in RunDir : /\ r.spec # None => r.spec \in Specs
                       /\ r.specApproval # None => r.specApproval \in Specs
                       /\ r.specReview # None => r.specReview \in SpecReview
                       /\ r.plan # None => r.plan \in Plan
                       /\ r.planReview # None => r.planReview \in PlanReview
                       /\ r.planApproval # None => r.planApproval \in Plan
                       /\ r.md \in Drafts \cup {0}
                       /\ r.artifact \in Artifact
BY LifecycleAssumption DEF RunDir

(* A review is typed whatever its verdict. *)
LEMMA ReviewTypes ==
  /\ \A s \in Specs, b \in BOOLEAN : [hash |-> s, pass |-> b] \in SpecReview
  /\ \A s \in Specs : [hash |-> s, pass |-> s \in Sound] \in SpecReview
  /\ \A h \in Plan, b \in BOOLEAN : [hash |-> h, pass |-> b] \in PlanReview
<1>1. /\ \A s \in Specs, b \in BOOLEAN : [hash |-> s, pass |-> b] \in SpecReview
      /\ \A h \in Plan, b \in BOOLEAN : [hash |-> h, pass |-> b] \in PlanReview
  BY DEF SpecReview, PlanReview
<1>2. \A s \in Specs : (s \in Sound) \in BOOLEAN
  OBVIOUS
<1> QED
  BY <1>1, <1>2, Zenon

(* A process that takes up a good job, over files that grew, keeps the     *)
(* invariant.                                                              *)
LEMMA MoveInv ==
  ASSUME ChainInv, NEW p \in Procs, NEW j \in Job, NEW r \in RunDir,
         run' = r, Goes(p, j), RunOK(r), Grows(run, r), JobOK(j, r),
         drafts' \in 0 .. MaxDrafts, refused' \in SUBSET Drafts, torn' \in BOOLEAN
  PROVE  ChainInv'
<1>1. TypeOK'
  BY DEF ChainInv, TypeOK, Goes
<1>2. RunOK(run)'
  BY DEF RunOK
<1>3. \A q \in Procs : job'[q] = IF q = p THEN j ELSE job[q]
  BY DEF ChainInv, TypeOK, Goes
<1>4. \A q \in Procs : JobOK(job[q], run)'
  BY <1>3 DEF ChainInv, JobOK, Grows
<1> QED
  BY <1>1, <1>2, <1>4 DEF ChainInv

(* A read that takes up a good job keeps the invariant. *)
LEMMA ReadInv ==
  ASSUME ChainInv, NEW p \in Procs, NEW j \in Job, Reads(p, j), JobOK(j, run)
  PROVE  ChainInv'
BY MoveInv DEF ChainInv, TypeOK, Reads, Grows

(* So does a check, whether it fails or not. *)
LEMMA CheckInv ==
  ASSUME ChainInv, NEW p \in Procs, NEW ok \in BOOLEAN, NEW j, Checks(p, ok, j),
         ok => j \in Job /\ JobOK(j, run)
  PROVE  ChainInv'
<1>1. Idle \in Job /\ JobOK(Idle, run)
  BY DEF Job, Idle, JobOK
<1> QED
  BY <1>1, ReadInv DEF Checks

(* So does a write of good files. *)
LEMMA WriteInv ==
  ASSUME ChainInv, NEW p \in Procs, NEW j \in Job, NEW r \in RunDir, Writes(p, r, j),
         RunOK(r), Grows(run, r), JobOK(j, r)
  PROVE  ChainInv'
BY MoveInv DEF ChainInv, TypeOK, Writes


(* The reads of the technical specification commands keep the invariant. *)
LEMMA SpecReads ==
  ASSUME ChainInv, NEW p \in Procs,
         SpecReviewRead(p) \/ SpecCouncilRead(p) \/ SpecApproveRead(p) \/ SpecApproveCheck(p)
  PROVE  ChainInv'
<1>0. /\ job[p] \in Job /\ JobOK(job[p], run)
      /\ run \in RunDir /\ RunOK(run)
  BY DEF ChainInv, TypeOK
<1>1. ASSUME SpecReviewRead(p)
      PROVE  ChainInv'
  <2> DEFINE j == [pc |-> "specReview", spec |-> run.spec]
  <2>1. j \in Job
    BY <1>1, <1>0, JobFields, Present DEF SpecReviewRead, At, Job, Plan, PlanReview, SpecReview, Then, TypeOK, RunDir
  <2>2. JobOK(j, run)
    BY <1>1, <1>0 DEF SpecReviewRead, At, JobOK, RunOK, Idle
  <2> QED
    BY <1>1, <2>1, <2>2, ReadInv DEF SpecReviewRead
<1>2. ASSUME SpecCouncilRead(p)
      PROVE  ChainInv'
  <2> DEFINE j == [pc |-> "specCouncil"]
  <2>1. j \in Job
    BY <1>2, <1>0, JobFields, Present DEF SpecCouncilRead, At, Job, Plan, PlanReview, SpecReview, Then, TypeOK, RunDir
  <2>2. JobOK(j, run)
    BY <1>2, <1>0 DEF SpecCouncilRead, At, JobOK, RunOK, Idle
  <2> QED
    BY <1>2, <2>1, <2>2, ReadInv DEF SpecCouncilRead
<1>3. ASSUME SpecApproveRead(p)
      PROVE  ChainInv'
  <2> DEFINE j == [pc |-> "specApprove", spec |-> run.specReview.hash]
  <2>1. j \in Job
    BY <1>3, <1>0, JobFields, Present DEF SpecApproveRead, At, Job, Plan, PlanReview, SpecReview, Then, TypeOK, RunDir
  <2>2. JobOK(j, run)
    BY <1>3, <1>0 DEF SpecApproveRead, At, JobOK, RunOK, Idle
  <2> QED
    BY <1>3, <2>1, <2>2, ReadInv DEF SpecApproveRead
<1>4. ASSUME SpecApproveCheck(p)
      PROVE  ChainInv'
  <2> DEFINE j == [pc |-> "specApproval", spec |-> job[p].spec]
  <2> DEFINE ok == run.spec = job[p].spec /\ run.spec \in Clean
  <2>1. ok => j \in Job
    BY <1>4, <1>0, JobFields, Present DEF SpecApproveCheck, At, Job, Plan, PlanReview, SpecReview, Then
  <2>2. ok => JobOK(j, run)
    BY <1>4, <1>0, Present DEF SpecApproveCheck, At, JobOK, RunOK, Plan, Approvable
  <2>3. ok \in BOOLEAN
    OBVIOUS
  <2>4. Checks(p, ok, j)
    BY <1>4 DEF SpecApproveCheck
  <2> HIDE DEF j, ok
  <2> QED
    BY <2>1, <2>2, <2>3, <2>4, CheckInv
<1> QED
  BY <1>1, <1>2, <1>3, <1>4

(* So do their writes. *)
LEMMA SpecWrites ==
  ASSUME ChainInv, NEW p \in Procs, NEW s \in Specs,
         SpecDraft(p, s) \/ SpecReviewWrite(p) \/ SpecCouncilWrite(p, s) \/ SpecApproveWrite(p)
  PROVE  ChainInv'
<1>0. /\ job[p] \in Job /\ JobOK(job[p], run)
      /\ run \in RunDir /\ RunOK(run)
  BY DEF ChainInv, TypeOK
<1>1. ASSUME SpecDraft(p, s)
      PROVE  ChainInv'
  <2> DEFINE j == Idle
             r == [run EXCEPT !.spec = s]
  <2>1. j \in Job
    BY <1>1, <1>0, JobFields DEF SpecDraft, At, Job, Plan, Idle, Then
  <2>2. r \in RunDir
    BY <1>1, <1>0, JobFields DEF SpecDraft, At, RunDir, SpecReview, PlanReview, Artifact, Tickets, Plan
  <2>3. RunOK(r) /\ Grows(run, r)
    BY <1>1, <1>0, JobFields, LifecycleAssumption DEF SpecDraft, At, RunDir, RunOK, JobOK, Grows, Drafts, Tickets
  <2>4. JobOK(j, r)
    BY <1>1, <1>0, <2>3, JobFields DEF SpecDraft, At, JobOK, Idle, Grows, RunDir, Drafts
  <2>5. Writes(p, r, j)
    BY <1>1 DEF SpecDraft
  <2> HIDE DEF j, r
  <2> QED
    BY <2>1, <2>2, <2>3, <2>4, <2>5, WriteInv
<1>2. ASSUME SpecReviewWrite(p)
      PROVE  ChainInv'
  <2> DEFINE s0 == job[p].spec
             b == s0 \in Sound
             r == [run EXCEPT !.specReview = [hash |-> s0, pass |-> b]]
  <2>1. s0 \in Specs /\ Idle \in Job
    BY <1>2, <1>0, JobFields DEF SpecReviewWrite, At, Job
  <2>2. [hash |-> s0, pass |-> b] \in SpecReview
    BY <2>1, ReviewTypes
  <2>3. Writes(p, r, Idle)
    BY <1>2 DEF SpecReviewWrite
  <2>4. r \in RunDir
    BY <2>2, <1>0 DEF RunDir
  <2>5. RunOK(r) /\ Grows(run, r) /\ JobOK(Idle, r)
    BY <2>2, <1>0, LifecycleAssumption DEF RunDir, RunOK, JobOK, Grows, Idle
  <2> HIDE DEF r
  <2> QED
    BY <2>1, <2>3, <2>4, <2>5, WriteInv
<1>3. ASSUME SpecCouncilWrite(p, s)
      PROVE  ChainInv'
  <2> DEFINE j == [pc |-> "specAgain"]
             r == [run EXCEPT !.spec = s]
  <2>1. j \in Job
    BY <1>3, <1>0, JobFields DEF SpecCouncilWrite, At, Job, Plan, Idle, Then
  <2>2. r \in RunDir
    BY <1>3, <1>0, JobFields DEF SpecCouncilWrite, At, RunDir, SpecReview, PlanReview, Artifact, Tickets, Plan
  <2>3. RunOK(r) /\ Grows(run, r)
    BY <1>3, <1>0, JobFields, LifecycleAssumption DEF SpecCouncilWrite, At, RunDir, RunOK, JobOK, Grows, Drafts, Tickets
  <2>4. JobOK(j, r)
    BY <1>3, <1>0, <2>3, JobFields DEF SpecCouncilWrite, At, JobOK, Idle, Grows, RunDir, Drafts
  <2>5. Writes(p, r, j)
    BY <1>3 DEF SpecCouncilWrite
  <2> HIDE DEF j, r
  <2> QED
    BY <2>1, <2>2, <2>3, <2>4, <2>5, WriteInv
<1>4. ASSUME SpecApproveWrite(p)
      PROVE  ChainInv'
  <2> DEFINE j == Idle
             r == [run EXCEPT !.specApproval = job[p].spec]
  <2>1. j \in Job
    BY <1>4, <1>0, JobFields DEF SpecApproveWrite, At, Job, Plan, Idle, Then
  <2>2. r \in RunDir
    BY <1>4, <1>0, JobFields DEF SpecApproveWrite, At, RunDir, SpecReview, PlanReview, Artifact, Tickets, Plan
  <2>3. RunOK(r) /\ Grows(run, r)
    BY <1>4, <1>0, JobFields, LifecycleAssumption DEF SpecApproveWrite, At, RunDir, RunOK, JobOK, Grows, Drafts, Tickets
  <2>4. JobOK(j, r)
    BY <1>4, <1>0, <2>3, JobFields DEF SpecApproveWrite, At, JobOK, Idle, Grows, RunDir, Drafts
  <2>5. Writes(p, r, j)
    BY <1>4 DEF SpecApproveWrite
  <2> HIDE DEF j, r
  <2> QED
    BY <2>1, <2>2, <2>3, <2>4, <2>5, WriteInv
<1> QED
  BY <1>1, <1>2, <1>3, <1>4

(* The reads and checks of drafting and approving a plan keep the invariant. *)
LEMMA PlanReads ==
  ASSUME ChainInv, NEW p \in Procs,
         PlanDraftCheck(p) \/ PlanDraftBuild(p) \/ PlanApproveRead(p)
         \/ PlanApprovePlan(p) \/ PlanApproveCheck(p) \/ PlanApproveHash(p)
  PROVE  ChainInv'
<1>0. /\ job[p] \in Job /\ JobOK(job[p], run)
      /\ run \in RunDir /\ RunOK(run)
  BY DEF ChainInv, TypeOK
<1>1. ASSUME PlanDraftCheck(p)
      PROVE  ChainInv'
  <2> DEFINE j == [pc |-> "planBuild", draft |-> job[p].draft, spec |-> job[p].spec]
  <2> DEFINE ok == run.spec = job[p].spec
  <2>1. ok => j \in Job
    BY <1>1, <1>0, JobFields, Present DEF PlanDraftCheck, At, Job, Plan, PlanReview, SpecReview, Then
  <2>2. ok => JobOK(j, run)
    BY <1>1, <1>0, Present DEF PlanDraftCheck, At, JobOK, RunOK, Plan, Approvable
  <2>3. ok \in BOOLEAN
    OBVIOUS
  <2>4. Checks(p, ok, j)
    BY <1>1 DEF PlanDraftCheck
  <2> HIDE DEF j, ok
  <2> QED
    BY <2>1, <2>2, <2>3, <2>4, CheckInv
<1>2. ASSUME PlanDraftBuild(p)
      PROVE  ChainInv'
  <2> DEFINE j == [pc |-> "planWrite", then |-> "drafted",
                   plan |-> [draft |-> job[p].draft, src |-> job[p].spec, status |-> "drafted"]]
  <2> DEFINE ok == run.artifact.bounds \notin AskFirst
  <2>1. ok => j \in Job
    BY <1>2, <1>0, JobFields, Present DEF PlanDraftBuild, At, Job, Plan, PlanReview, SpecReview, Then
  <2>2. ok => JobOK(j, run)
    BY <1>2, <1>0, Present DEF PlanDraftBuild, At, JobOK, RunOK, Plan, Approvable
  <2>3. ok \in BOOLEAN
    OBVIOUS
  <2>4. Checks(p, ok, j)
    BY <1>2 DEF PlanDraftBuild
  <2> HIDE DEF j, ok
  <2> QED
    BY <2>1, <2>2, <2>3, <2>4, CheckInv
<1>3. ASSUME PlanApproveRead(p)
      PROVE  ChainInv'
  <2> DEFINE j == [pc |-> "planApprove", hash |-> run.planReview.hash]
  <2>1. j \in Job
    BY <1>3, <1>0, JobFields, Present DEF PlanApproveRead, At, Job, Plan, PlanReview, SpecReview, Then, TypeOK, RunDir
  <2>2. JobOK(j, run)
    BY <1>3, <1>0 DEF PlanApproveRead, At, JobOK, RunOK, Idle
  <2> QED
    BY <1>3, <2>1, <2>2, ReadInv DEF PlanApproveRead
<1>4. ASSUME PlanApprovePlan(p)
      PROVE  ChainInv'
  <2> DEFINE j == [pc |-> "planCompare", hash |-> job[p].hash, plan |-> run.plan]
  <2>1. j \in Job
    BY <1>4, <1>0, JobFields, Present DEF PlanApprovePlan, At, Job, Plan, PlanReview, SpecReview, Then, TypeOK, RunDir
  <2>2. JobOK(j, run)
    BY <1>4, <1>0 DEF PlanApprovePlan, At, JobOK, RunOK, Idle
  <2> QED
    BY <1>4, <2>1, <2>2, ReadInv DEF PlanApprovePlan
<1>5. ASSUME PlanApproveCheck(p)
      PROVE  ChainInv'
  <2> DEFINE j == [pc |-> "planWrite", plan |-> [job[p].plan EXCEPT !.status = "approved"],
                   then |-> "approved"]
  <2> DEFINE ok == run.plan = job[p].hash
  <2>1. ok => j \in Job
    BY <1>5, <1>0, JobFields, Present DEF PlanApproveCheck, At, Job, Plan, PlanReview, SpecReview, Then
  <2>2. ok => JobOK(j, run)
    BY <1>5, <1>0, JobFields DEF PlanApproveCheck, At, JobOK, RunOK, Plan, Approvable
  <2>3. ok \in BOOLEAN
    OBVIOUS
  <2>4. Checks(p, ok, j)
    BY <1>5 DEF PlanApproveCheck
  <2> HIDE DEF j, ok
  <2> QED
    BY <2>1, <2>2, <2>3, <2>4, CheckInv
<1>6. ASSUME PlanApproveHash(p)
      PROVE  ChainInv'
  <2> DEFINE j == [pc |-> "planApproval", hash |-> run.plan]
  <2>1. j \in Job
    BY <1>6, <1>0, JobFields, Present DEF PlanApproveHash, At, Job, Plan, PlanReview, SpecReview, Then, TypeOK, RunDir
  <2>2. JobOK(j, run)
    BY <1>6, <1>0 DEF PlanApproveHash, At, JobOK, RunOK, Idle
  <2> QED
    BY <1>6, <2>1, <2>2, ReadInv DEF PlanApproveHash
<1> QED
  BY <1>1, <1>2, <1>3, <1>4, <1>5, <1>6

(* So do the reads of its reviews. *)
LEMMA PlanReviewReads ==
  ASSUME ChainInv, NEW p \in Procs,
         PlanReviewRead(p) \/ PlanReviewHash(p) \/ PlanCouncilRead(p) \/ PlanCouncilSee(p)
  PROVE  ChainInv'
<1>0. /\ job[p] \in Job /\ JobOK(job[p], run)
      /\ run \in RunDir /\ RunOK(run)
  BY DEF ChainInv, TypeOK
<1>1. ASSUME PlanReviewRead(p)
      PROVE  ChainInv'
  <2> DEFINE j == IF run.plan.status = "approved"
                 THEN [pc |-> "planHash", draft |-> run.plan.draft]
                 ELSE [pc |-> "planWrite", plan |-> [run.plan EXCEPT !.status = "under_review"],
                       then |-> "reviewed"]
  <2>1. j \in Job
    BY <1>1, <1>0, JobFields, Present DEF PlanReviewRead, At, Job, Plan, PlanReview, SpecReview, Then, TypeOK, RunDir
  <2>2. JobOK(j, run)
    BY <1>1, <1>0 DEF PlanReviewRead, At, JobOK, RunOK, Idle
  <2> QED
    BY <1>1, <2>1, <2>2, ReadInv DEF PlanReviewRead
<1>2. ASSUME PlanReviewHash(p)
      PROVE  ChainInv'
  <2> DEFINE j == [pc |-> "planReview", hash |-> run.plan, pass |-> job[p].draft \in Fit]
  <2>1. j \in Job
    BY <1>2, <1>0, JobFields, Present DEF PlanReviewHash, At, Job, Plan, PlanReview, SpecReview, Then, TypeOK, RunDir
  <2>2. JobOK(j, run)
    BY <1>2, <1>0 DEF PlanReviewHash, At, JobOK, RunOK, Idle
  <2> QED
    BY <1>2, <2>1, <2>2, ReadInv DEF PlanReviewHash
<1>3. ASSUME PlanCouncilRead(p)
      PROVE  ChainInv'
  <2> DEFINE j == [pc |-> "planCouncil", hash |-> run.planReview.hash]
  <2> DEFINE ok == run.planReview.pass
  <2>1. ok => j \in Job
    BY <1>3, <1>0, JobFields, Present DEF PlanCouncilRead, At, Job, Plan, PlanReview, SpecReview, Then
  <2>2. ok => JobOK(j, run)
    BY <1>3, <1>0, Present DEF PlanCouncilRead, At, JobOK, RunOK, Plan, Approvable
  <2>3. ok \in BOOLEAN
    BY <1>3, <1>0, Present DEF PlanCouncilRead, PlanReview
  <2>4. Checks(p, ok, j)
    BY <1>3 DEF PlanCouncilRead
  <2> HIDE DEF j, ok
  <2> QED
    BY <2>1, <2>2, <2>3, <2>4, CheckInv
<1>4. ASSUME PlanCouncilSee(p)
      PROVE  ChainInv'
  <2> DEFINE j == [pc |-> "planVerdict", hash |-> job[p].hash, saw |-> run.md]
  <2>1. j \in Job
    BY <1>4, <1>0, JobFields, Present DEF PlanCouncilSee, At, Job, Plan, PlanReview, SpecReview, Then, TypeOK, RunDir
  <2>2. JobOK(j, run)
    BY <1>4, <1>0 DEF PlanCouncilSee, At, JobOK, RunOK, Idle
  <2> QED
    BY <1>4, <2>1, <2>2, ReadInv DEF PlanCouncilSee
<1> QED
  BY <1>1, <1>2, <1>3, <1>4

(* So do the writes of the plan, its rendering and its approval. *)
LEMMA PlanWrites ==
  ASSUME ChainInv, NEW p \in Procs,
         PlanWrite(p) \/ MdWrite(p) \/ PlanApprovalWrite(p)
  PROVE  ChainInv'
<1>0. /\ job[p] \in Job /\ JobOK(job[p], run)
      /\ run \in RunDir /\ RunOK(run)
  BY DEF ChainInv, TypeOK
<1>1. ASSUME PlanWrite(p)
      PROVE  ChainInv'
  <2> DEFINE j == [pc |-> "md", draft |-> job[p].plan.draft, then |-> job[p].then]
             r == [run EXCEPT !.plan = job[p].plan]
  <2>1. j \in Job
    BY <1>1, <1>0, JobFields DEF PlanWrite, At, Job, Plan, Idle, Then
  <2>2. r \in RunDir
    BY <1>1, <1>0, JobFields DEF PlanWrite, At, RunDir, SpecReview, PlanReview, Artifact, Tickets, Plan
  <2>3. RunOK(r) /\ Grows(run, r)
    BY <1>1, <1>0, JobFields, LifecycleAssumption DEF PlanWrite, At, RunDir, RunOK, JobOK, Grows, Drafts, Tickets
  <2>4. JobOK(j, r)
    BY <1>1, <1>0, <2>3, JobFields DEF PlanWrite, At, JobOK, Idle, Grows, RunDir, Drafts
  <2>5. Writes(p, r, j)
    BY <1>1 DEF PlanWrite
  <2> HIDE DEF j, r
  <2> QED
    BY <2>1, <2>2, <2>3, <2>4, <2>5, WriteInv
<1>2. ASSUME MdWrite(p)
      PROVE  ChainInv'
  <2> DEFINE j == CASE job[p].then = "drafted" -> Idle
                   [] job[p].then = "reviewed" -> [pc |-> "planHash", draft |-> job[p].draft]
                   [] job[p].then = "approved" -> [pc |-> "planRehash"]
             r == [run EXCEPT !.md = job[p].draft]
  <2>1. j \in Job
    BY <1>2, <1>0, JobFields DEF MdWrite, At, Job, Plan, Idle, Then
  <2>2. r \in RunDir
    BY <1>2, <1>0, JobFields DEF MdWrite, At, RunDir, SpecReview, PlanReview, Artifact, Tickets, Plan
  <2>3. RunOK(r) /\ Grows(run, r)
    BY <1>2, <1>0, JobFields, LifecycleAssumption DEF MdWrite, At, RunDir, RunOK, JobOK, Grows, Drafts, Tickets
  <2>4. JobOK(j, r)
    <3>1. job[p].then \in Then
      BY <1>2, <1>0, JobFields DEF MdWrite, At
    <3>2. j.pc \in {"idle", "planHash", "planRehash"}
      BY <3>1 DEF Then, Idle
    <3> QED
      BY <3>2 DEF JobOK
  <2>5. Writes(p, r, j)
    BY <1>2 DEF MdWrite
  <2> HIDE DEF j, r
  <2> QED
    BY <2>1, <2>2, <2>3, <2>4, <2>5, WriteInv
<1>3. ASSUME PlanApprovalWrite(p)
      PROVE  ChainInv'
  <2> DEFINE j == Idle
             r == [run EXCEPT !.planApproval = job[p].hash]
  <2>1. j \in Job
    BY <1>3, <1>0, JobFields DEF PlanApprovalWrite, At, Job, Plan, Idle, Then
  <2>2. r \in RunDir
    BY <1>3, <1>0, JobFields DEF PlanApprovalWrite, At, RunDir, SpecReview, PlanReview, Artifact, Tickets, Plan
  <2>3. RunOK(r) /\ Grows(run, r)
    BY <1>3, <1>0, JobFields, LifecycleAssumption DEF PlanApprovalWrite, At, RunDir, RunOK, JobOK, Grows, Drafts, Tickets
  <2>4. JobOK(j, r)
    BY <1>3, <1>0, <2>3, JobFields DEF PlanApprovalWrite, At, JobOK, Idle, Grows, RunDir, Drafts
  <2>5. Writes(p, r, j)
    BY <1>3 DEF PlanApprovalWrite
  <2> HIDE DEF j, r
  <2> QED
    BY <2>1, <2>2, <2>3, <2>4, <2>5, WriteInv
<1> QED
  BY <1>1, <1>2, <1>3

(* The reads and checks of approving and compiling keep the invariant. *)
LEMMA RunReads ==
  ASSUME ChainInv, NEW p \in Procs,
         ApproveRead(p) \/ CompileRead(p) \/ GateApproval(p) \/ GatePlan(p) \/ GateHash(p)
         \/ LineageApproval(p) \/ LineageSpec(p) \/ BoundsRead(p)
  PROVE  ChainInv'
<1>0. /\ job[p] \in Job /\ JobOK(job[p], run)
      /\ run \in RunDir /\ RunOK(run)
  BY DEF ChainInv, TypeOK
<1>1. ASSUME ApproveRead(p)
      PROVE  ChainInv'
  <2> DEFINE j == [pc |-> "gate", cmd |-> "approve", art |-> run.artifact]
  <2>1. j \in Job
    BY <1>1, <1>0, JobFields, Present DEF ApproveRead, At, Job, Plan, PlanReview, SpecReview, Then, TypeOK, RunDir
  <2>2. JobOK(j, run)
    BY <1>1, <1>0 DEF ApproveRead, At, JobOK, RunOK, Idle
  <2> QED
    BY <1>1, <2>1, <2>2, ReadInv DEF ApproveRead
<1>2. ASSUME CompileRead(p)
      PROVE  ChainInv'
  <2> DEFINE j == [pc |-> "gate", cmd |-> "compile", art |-> run.artifact]
  <2>1. j \in Job
    BY <1>2, <1>0, JobFields, Present DEF CompileRead, At, Job, Plan, PlanReview, SpecReview, Then, TypeOK, RunDir
  <2>2. JobOK(j, run)
    BY <1>2, <1>0 DEF CompileRead, At, JobOK, RunOK, Idle
  <2> QED
    BY <1>2, <2>1, <2>2, ReadInv DEF CompileRead
<1>3. ASSUME GateApproval(p)
      PROVE  ChainInv'
  <2> DEFINE j == [pc |-> "gatePlan", cmd |-> job[p].cmd, art |-> job[p].art,
                   hash |-> run.planApproval]
  <2> DEFINE ok == run.planApproval # None
  <2>1. ok => j \in Job
    BY <1>3, <1>0, JobFields, Present DEF GateApproval, At, Job, Plan, PlanReview, SpecReview, Then
  <2>2. ok => JobOK(j, run)
    BY <1>3, <1>0, Present DEF GateApproval, At, JobOK, RunOK, Plan, Approvable
  <2>3. ok \in BOOLEAN
    OBVIOUS
  <2>4. Checks(p, ok, j)
    BY <1>3 DEF GateApproval
  <2> HIDE DEF j, ok
  <2> QED
    BY <2>1, <2>2, <2>3, <2>4, CheckInv
<1>4. ASSUME GatePlan(p)
      PROVE  ChainInv'
  <2> DEFINE j == [pc |-> "gateHash", cmd |-> job[p].cmd, art |-> job[p].art,
                   hash |-> job[p].hash, plan |-> run.plan]
  <2>1. j \in Job
    BY <1>4, <1>0, JobFields, Present DEF GatePlan, At, Job, Plan, PlanReview, SpecReview, Then, TypeOK, RunDir
  <2>2. JobOK(j, run)
    BY <1>4, <1>0 DEF GatePlan, At, JobOK, RunOK, Idle
  <2> QED
    BY <1>4, <2>1, <2>2, ReadInv DEF GatePlan
<1>5. ASSUME GateHash(p)
      PROVE  ChainInv'
  <2> DEFINE j == IF job[p].cmd = "approve"
                 THEN [pc |-> "approve", art |-> job[p].art]
                 ELSE [pc |-> "lineage", art |-> job[p].art, plan |-> job[p].plan]
  <2> DEFINE ok == job[p].plan.status = "approved" /\ run.plan = job[p].hash
  <2>1. ok => j \in Job
    BY <1>5, <1>0, JobFields, Present DEF GateHash, At, Job, Plan, PlanReview, SpecReview, Then
  <2>2. ok => JobOK(j, run)
    BY <1>5, <1>0, Present DEF GateHash, At, JobOK, RunOK, Plan, Approvable
  <2>3. ok \in BOOLEAN
    OBVIOUS
  <2>4. Checks(p, ok, j)
    BY <1>5 DEF GateHash
  <2> HIDE DEF j, ok
  <2> QED
    BY <2>1, <2>2, <2>3, <2>4, CheckInv
<1>6. ASSUME LineageApproval(p)
      PROVE  ChainInv'
  <2> DEFINE j == [pc |-> "lineageSpec", art |-> job[p].art, plan |-> job[p].plan,
                   spec |-> run.specApproval]
  <2> DEFINE ok == run.specApproval # None
  <2>1. ok => j \in Job
    BY <1>6, <1>0, JobFields, Present DEF LineageApproval, At, Job, Plan, PlanReview, SpecReview, Then
  <2>2. ok => JobOK(j, run)
    BY <1>6, <1>0, Present DEF LineageApproval, At, JobOK, RunOK, Plan, Approvable
  <2>3. ok \in BOOLEAN
    OBVIOUS
  <2>4. Checks(p, ok, j)
    BY <1>6 DEF LineageApproval
  <2> HIDE DEF j, ok
  <2> QED
    BY <2>1, <2>2, <2>3, <2>4, CheckInv
<1>7. ASSUME LineageSpec(p)
      PROVE  ChainInv'
  <2> DEFINE j == [pc |-> "tickets", art |-> job[p].art, plan |-> job[p].plan]
  <2> DEFINE ok == run.spec = job[p].spec /\ job[p].plan.src = run.spec
  <2>1. ok => j \in Job
    BY <1>7, <1>0, JobFields, Present DEF LineageSpec, At, Job, Plan, PlanReview, SpecReview, Then
  <2>2. ok => JobOK(j, run)
    BY <1>7, <1>0, Present DEF LineageSpec, At, JobOK, RunOK, Plan, Approvable
  <2>3. ok \in BOOLEAN
    OBVIOUS
  <2>4. Checks(p, ok, j)
    BY <1>7 DEF LineageSpec
  <2> HIDE DEF j, ok
  <2> QED
    BY <2>1, <2>2, <2>3, <2>4, CheckInv
<1>8. ASSUME BoundsRead(p)
      PROVE  ChainInv'
  <2> DEFINE j == [pc |-> "bounds", art |-> run.artifact]
  <2>1. j \in Job
    BY <1>8, <1>0, JobFields, Present DEF BoundsRead, At, Job, Plan, PlanReview, SpecReview, Then, TypeOK, RunDir
  <2>2. JobOK(j, run)
    BY <1>8, <1>0 DEF BoundsRead, At, JobOK, RunOK, Idle
  <2> QED
    BY <1>8, <2>1, <2>2, ReadInv DEF BoundsRead
<1> QED
  BY <1>1, <1>2, <1>3, <1>4, <1>5, <1>6, <1>7, <1>8

(* So do their writes. *)
LEMMA RunWrites ==
  ASSUME ChainInv, NEW p \in Procs, NEW b \in Bounds,
         ApproveWrite(p) \/ CompileTickets(p) \/ CompileCoverage(p) \/ BoundsWrite(p, b)
  PROVE  ChainInv'
<1>0. /\ job[p] \in Job /\ JobOK(job[p], run)
      /\ run \in RunDir /\ RunOK(run)
  BY DEF ChainInv, TypeOK
<1>1. ASSUME ApproveWrite(p)
      PROVE  ChainInv'
  <2> DEFINE j == [pc |-> "statusApproved"]
             r == [run EXCEPT !.artifact =
                     [bounds |-> job[p].art.bounds, hash |-> job[p].art.bounds]]
  <2>1. j \in Job
    BY <1>1, <1>0, JobFields DEF ApproveWrite, At, Job, Plan, Idle, Then
  <2>2. r \in RunDir
    BY <1>1, <1>0, JobFields DEF ApproveWrite, At, RunDir, SpecReview, PlanReview, Artifact, Tickets, Plan
  <2>3. RunOK(r) /\ Grows(run, r)
    BY <1>1, <1>0, JobFields, LifecycleAssumption DEF ApproveWrite, At, RunDir, RunOK, JobOK, Grows, Drafts, Tickets
  <2>4. JobOK(j, r)
    BY <1>1, <1>0, <2>3, JobFields DEF ApproveWrite, At, JobOK, Idle, Grows, RunDir, Drafts
  <2>5. Writes(p, r, j)
    BY <1>1 DEF ApproveWrite
  <2> HIDE DEF j, r
  <2> QED
    BY <2>1, <2>2, <2>3, <2>4, <2>5, WriteInv
<1>2. ASSUME CompileTickets(p)
      PROVE  ChainInv'
  <2> DEFINE j == [pc |-> "coverage", draft |-> job[p].plan.draft]
             r == [run EXCEPT !.tickets =
                     [plan |-> job[p].plan, bounds |-> job[p].art.bounds]]
  <2>1. j \in Job
    BY <1>2, <1>0, JobFields DEF CompileTickets, At, Job, Plan, Idle, Then
  <2>2. r \in RunDir
    BY <1>2, <1>0, JobFields DEF CompileTickets, At, RunDir, SpecReview, PlanReview, Artifact, Tickets, Plan
  <2>3. r.tickets # None /\ r.tickets.plan.src \in Approvable
    <3>1. [plan |-> job[p].plan, bounds |-> job[p].art.bounds] \in Tickets
      BY <1>2, <1>0, JobFields DEF CompileTickets, At, Artifact, Tickets
    <3>2. job[p].plan.src \in Approvable
      BY <1>2, <1>0 DEF CompileTickets, At, JobOK
    <3> QED
      BY <3>1, <3>2, <1>0, LifecycleAssumption DEF RunDir
  <2>4. RunOK(r) /\ Grows(run, r) /\ JobOK(j, r)
    BY <2>3, <1>0 DEF RunDir, RunOK, JobOK, Grows
  <2>5. Writes(p, r, j)
    BY <1>2 DEF CompileTickets
  <2> HIDE DEF j, r
  <2> QED
    BY <2>1, <2>2, <2>3, <2>4, <2>5, WriteInv
<1>3. ASSUME CompileCoverage(p)
      PROVE  ChainInv'
  <2> DEFINE j == [pc |-> "statusRunning"]
             r == [run EXCEPT !.coverage = job[p].draft]
  <2>1. j \in Job
    BY <1>3, <1>0, JobFields DEF CompileCoverage, At, Job, Plan, Idle, Then
  <2>2. r \in RunDir
    BY <1>3, <1>0, JobFields DEF CompileCoverage, At, RunDir, SpecReview, PlanReview, Artifact, Tickets, Plan
  <2>3. RunOK(r) /\ Grows(run, r)
    BY <1>3, <1>0, JobFields, LifecycleAssumption DEF CompileCoverage, At, RunDir, RunOK, JobOK, Grows, Drafts, Tickets
  <2>4. JobOK(j, r)
    BY <1>3, <1>0, <2>3, JobFields DEF CompileCoverage, At, JobOK, Idle, Grows, RunDir, Drafts
  <2>5. run' = r /\ Goes(p, j) /\ drafts' = drafts /\ refused' = refused /\ torn' = FALSE
    BY <1>3 DEF CompileCoverage
  <2> HIDE DEF j, r
  <2> QED
    BY <2>1, <2>2, <2>3, <2>4, <2>5, MoveInv DEF ChainInv, TypeOK
<1>4. ASSUME BoundsWrite(p, b)
      PROVE  ChainInv'
  <2> DEFINE j == Idle
             r == [run EXCEPT !.artifact = [job[p].art EXCEPT !.bounds = b]]
  <2>1. j \in Job
    BY <1>4, <1>0, JobFields DEF BoundsWrite, At, Job, Plan, Idle, Then
  <2>2. r \in RunDir
    BY <1>4, <1>0, JobFields DEF BoundsWrite, At, RunDir, SpecReview, PlanReview, Artifact, Tickets, Plan
  <2>3. RunOK(r) /\ Grows(run, r)
    BY <1>4, <1>0, JobFields, LifecycleAssumption DEF BoundsWrite, At, RunDir, RunOK, JobOK, Grows, Drafts, Tickets
  <2>4. JobOK(j, r)
    BY <1>4, <1>0, <2>3, JobFields DEF BoundsWrite, At, JobOK, Idle, Grows, RunDir, Drafts
  <2>5. Writes(p, r, j)
    BY <1>4 DEF BoundsWrite
  <2> HIDE DEF j, r
  <2> QED
    BY <2>1, <2>2, <2>3, <2>4, <2>5, WriteInv
<1> QED
  BY <1>1, <1>2, <1>3, <1>4

(* The status is refreshed with what is true of the tickets, or nothing    *)
(* about them.                                                             *)
LEMMA RefreshInv ==
  ASSUME ChainInv, NEW p \in Procs, NEW s \in Statuses, NEW j \in Job,
         Refresh(p, s, j), j.pc \in {"idle", "compile"},
         s \in OfTickets => run.tickets # None
  PROVE  ChainInv'
<1>1. PICK v \in {s} \cup (IF run.tickets = None THEN {} ELSE {"completed"}) :
         Writes(p, [run EXCEPT !.status = v], j)
  BY DEF Refresh
<1> DEFINE r == [run EXCEPT !.status = v]
<1>2. v \in Statuses /\ (v \in OfTickets => run.tickets # None)
  BY <1>1 DEF Statuses, OfTickets
<1>3. run \in RunDir /\ RunOK(run)
  BY DEF ChainInv, TypeOK
<1>4. r \in RunDir /\ RunOK(r) /\ Grows(run, r)
  BY <1>2, <1>3 DEF RunDir, RunOK, Grows
<1>5. JobOK(j, r)
  BY DEF JobOK
<1>6. Writes(p, r, j)
  BY <1>1
<1> HIDE DEF r
<1> QED
  BY <1>4, <1>5, <1>6, WriteInv

(* The actions that count drafts or refusals, or refresh the status. *)
LEMMA OtherSteps ==
  ASSUME ChainInv, NEW p \in Procs,
         \/ PlanDraftRead(p) \/ PlanReviewWrite(p)
         \/ \E pass \in BOOLEAN : PlanCouncilWrite(p, pass)
         \/ ApproveStatus(p) \/ CompileStatus(p) \/ Crash(p)
  PROVE  ChainInv'
<1>0. /\ job[p] \in Job /\ JobOK(job[p], run)
      /\ run \in RunDir /\ RunOK(run)
      /\ drafts \in 0 .. MaxDrafts /\ refused \in SUBSET Drafts /\ torn \in BOOLEAN
  BY DEF ChainInv, TypeOK
<1>1. ASSUME PlanDraftRead(p)
      PROVE  ChainInv'
  <2> DEFINE j == [pc |-> "planDraft", draft |-> drafts + 1, spec |-> run.specApproval]
  <2>1. drafts + 1 \in Drafts
    BY <1>1, <1>0, LifecycleAssumption DEF PlanDraftRead, Drafts
  <2>2. j \in Job /\ JobOK(j, run)
    BY <2>1, <1>1, <1>0, Present DEF PlanDraftRead, Job, JobOK, RunOK
  <2>3. drafts' \in 0 .. MaxDrafts /\ refused' \in SUBSET Drafts /\ torn' \in BOOLEAN
    BY <2>1, <1>1, <1>0, LifecycleAssumption DEF PlanDraftRead, Drafts
  <2>4. run' = run /\ Goes(p, j)
    BY <1>1 DEF PlanDraftRead
  <2> HIDE DEF j
  <2> QED
    BY <2>2, <2>3, <2>4, <1>0, MoveInv DEF Grows
<1>2. ASSUME PlanReviewWrite(p)
      PROVE  ChainInv'
  <2> DEFINE rev == [hash |-> job[p].hash, pass |-> job[p].pass]
             r == [run EXCEPT !.planReview = rev]
  <2>1. PICK next \in {Idle, [pc |-> "council"]} : Writes(p, r, next)
    BY <1>2 DEF PlanReviewWrite
  <2>2. next \in Job /\ JobOK(next, r)
    BY <2>1 DEF Job, JobOK, Idle
  <2>3. rev \in PlanReview
    BY <1>2, <1>0, JobFields, ReviewTypes DEF PlanReviewWrite, At
  <2>4. r \in RunDir /\ RunOK(r) /\ Grows(run, r)
    BY <2>3, <1>0 DEF RunDir, RunOK, Grows
  <2> HIDE DEF r
  <2> QED
    BY <2>1, <2>2, <2>4, WriteInv
<1>3. ASSUME NEW pass \in BOOLEAN, PlanCouncilWrite(p, pass)
      PROVE  ChainInv'
  <2> DEFINE rev == [hash |-> job[p].hash, pass |-> pass]
             r == [run EXCEPT !.planReview = rev]
  <2>1. job[p].hash \in Plan /\ rev \in PlanReview
    BY <1>3, <1>0, JobFields, ReviewTypes DEF PlanCouncilWrite, At
  <2>2. r \in RunDir /\ RunOK(r) /\ Grows(run, r)
    BY <2>1, <1>0 DEF RunDir, RunOK, Grows
  <2>3. drafts' \in 0 .. MaxDrafts /\ refused' \in SUBSET Drafts /\ torn' \in BOOLEAN
    BY <2>1, <1>3, <1>0 DEF PlanCouncilWrite, Plan
  <2>4. Idle \in Job /\ JobOK(Idle, r)
    BY DEF Job, Idle, JobOK
  <2>5. run' = r /\ Goes(p, Idle)
    BY <1>3 DEF PlanCouncilWrite
  <2> HIDE DEF r
  <2> QED
    BY <2>2, <2>3, <2>4, <2>5, MoveInv
<1>5. ASSUME ApproveStatus(p)
      PROVE  ChainInv'
  <2> DEFINE j == [pc |-> "compile"]
  <2>1. j \in Job /\ j.pc = "compile" /\ Refresh(p, "approved", j)
    BY <1>5 DEF ApproveStatus, Job
  <2> HIDE DEF j
  <2> QED
    BY <2>1, RefreshInv DEF Statuses, OfTickets
<1>6. ASSUME CompileStatus(p)
      PROVE  ChainInv'
  <2>1. run.tickets # None
    BY <1>6, <1>0 DEF CompileStatus, At, JobOK
  <2>2. Idle \in Job /\ Idle.pc = "idle" /\ Refresh(p, "running", Idle)
    BY <1>6 DEF CompileStatus, Job, Idle
  <2> QED
    BY <2>1, <2>2, RefreshInv DEF Statuses, OfTickets
<1>7. ASSUME Crash(p)
      PROVE  ChainInv'
  <2>1. Idle \in Job /\ JobOK(Idle, run)
    BY DEF Job, Idle, JobOK
  <2>2. run' = run /\ Goes(p, Idle) /\ drafts' = drafts /\ refused' = refused
    BY <1>7 DEF Crash
  <2>3. torn' \in BOOLEAN
    BY <1>7, <1>0 DEF Crash
  <2> QED
    BY <2>1, <2>2, <2>3, <1>0, MoveInv DEF Grows
<1> QED
  BY <1>1, <1>2, <1>3, <1>5, <1>6, <1>7

(* The commands on tickets: what they make the status say is of tickets    *)
(* that are there, and coverage is only written where there was some.      *)
LEMMA TaskInv ==
  ASSUME ChainInv, NEW p \in Procs, TaskStep(p)
  PROVE  ChainInv'
<1>0. /\ job[p] \in Job /\ JobOK(job[p], run)
      /\ run \in RunDir /\ RunOK(run)
  BY DEF ChainInv, TypeOK
<1>1. ASSUME NEW says \in OfTickets \cup {None}, run.tickets # None
      PROVE  /\ AfterSync(says) \in Job
             /\ \A r \in RunDir : Grows(run, r) => JobOK(AfterSync(says), r)
  <2>1. CASE says = None
    BY <2>1 DEF AfterSync, Job, Idle, JobOK
  <2>2. CASE says # None
    <3> DEFINE j == [pc |-> "refresh", says |-> says]
    <3>1. j \in Job
      BY <1>1, <2>2 DEF Job, Statuses
    <3>2. \A r \in RunDir : Grows(run, r) => JobOK(j, r)
      BY <1>1 DEF JobOK, Grows
    <3> QED
      BY <2>2, <3>1, <3>2 DEF AfterSync
  <2> QED
    BY <2>1, <2>2
<1>2. ASSUME NEW says \in {"running", "blocked", None}, TaskStart(p, says)
      PROVE  ChainInv'
  <2> DEFINE j == [pc |-> "sync", says |-> says]
  <2>1. j \in Job /\ JobOK(j, run)
    BY <1>2 DEF TaskStart, Job, JobOK, OfTickets
  <2> QED
    BY <1>2, <2>1, ReadInv DEF TaskStart
<1>3. ASSUME SyncRead(p)
      PROVE  ChainInv'
  <2>1. job[p].says \in OfTickets \cup {None} /\ run.tickets # None
    BY <1>3, <1>0, JobFields DEF SyncRead, At, JobOK
  <2> DEFINE a == AfterSync(job[p].says)
             c == [pc |-> "cover", draft |-> run.coverage, says |-> job[p].says]
  <2>2. a \in Job /\ JobOK(a, run)
    BY <2>1, <1>1, <1>0 DEF Grows
  <2>3. CASE run.coverage = 0
    <3>1. Reads(p, a)
      BY <1>3, <2>3 DEF SyncRead
    <3> HIDE DEF a
    <3> QED
      BY <2>2, <3>1, ReadInv
  <2>4. CASE run.coverage # 0
    <3>1. Reads(p, c)
      BY <1>3, <2>4 DEF SyncRead
    <3>2. run.coverage \in Drafts
      BY <2>4, <1>0 DEF RunDir
    <3>3. c \in Job /\ JobOK(c, run)
      BY <2>1, <3>2 DEF Job, JobOK
    <3> HIDE DEF c
    <3> QED
      BY <3>1, <3>3, ReadInv
  <2> QED
    BY <2>3, <2>4
<1>4. ASSUME SyncWrite(p)
      PROVE  ChainInv'
  <2>1. /\ job[p].says \in OfTickets \cup {None} /\ job[p].draft \in Drafts
        /\ run.tickets # None
    BY <1>4, <1>0, JobFields DEF SyncWrite, At, JobOK
  <2> DEFINE j == AfterSync(job[p].says)
             r == [run EXCEPT !.coverage = job[p].draft]
  <2>2. r \in RunDir /\ RunOK(r) /\ Grows(run, r)
    BY <2>1, <1>0 DEF RunDir, RunOK, Grows
  <2>3. j \in Job /\ JobOK(j, r)
    BY <2>1, <2>2, <1>1
  <2>4. Writes(p, r, j)
    BY <1>4 DEF SyncWrite
  <2> HIDE DEF r, j
  <2> QED
    BY <2>2, <2>3, <2>4, WriteInv
<1>5. ASSUME RefreshStatus(p)
      PROVE  ChainInv'
  <2>1. job[p].says \in Statuses /\ (job[p].says \in OfTickets => run.tickets # None)
    BY <1>5, <1>0, JobFields DEF RefreshStatus, At, JobOK
  <2>2. Idle \in Job /\ Idle.pc = "idle"
    BY DEF Job, Idle
  <2> QED
    BY <1>5, <2>1, <2>2, RefreshInv DEF RefreshStatus
<1>6. ASSUME ReconcileRead(p)
      PROVE  ChainInv'
  <2> DEFINE j == [pc |-> "reconcile", saw |-> run.status]
  <2>1. j \in Job /\ JobOK(j, run)
    BY <1>0 DEF RunDir, Job, JobOK
  <2> QED
    BY <1>6, <2>1, ReadInv DEF ReconcileRead
<1>7. ASSUME ReconcileArtifact(p)
      PROVE  ChainInv'
  <2> DEFINE ok == run.artifact.hash # None
             j == [pc |-> "infer", saw |-> job[p].saw, approved |-> ok]
  <2>1. ok \in BOOLEAN /\ job[p].saw \in Statuses
    BY <1>7, <1>0, JobFields DEF ReconcileArtifact, At
  <2>2. Reads(p, j)
    BY <1>7 DEF ReconcileArtifact
  <2> HIDE DEF ok
  <2>3. j \in Job /\ JobOK(j, run)
    BY <2>1 DEF Job, JobOK
  <2> QED
    BY <2>2, <2>3, ReadInv
<1>8. ASSUME ReconcileInfer(p)
      PROVE  ChainInv'
  <2>1. PICK says \in Inferred(job[p].approved) :
           Reads(p, [pc |-> "refresh", says |-> says]) \/ Reads(p, Idle)
    BY <1>8 DEF ReconcileInfer
  <2>2. says \in Statuses /\ (says \in OfTickets => run.tickets # None)
    BY <2>1 DEF Inferred, Statuses, OfTickets
  <2> DEFINE j == [pc |-> "refresh", says |-> says]
  <2>3. /\ Idle \in Job /\ JobOK(Idle, run)
        /\ j \in Job /\ JobOK(j, run)
    BY <2>2 DEF Job, Idle, JobOK
  <2> QED
    BY <2>1, <2>3, ReadInv
<1> QED
  BY <1>2, <1>3, <1>4, <1>5, <1>6, <1>7, <1>8 DEF TaskStep

(* The invariant holds of a prepared run and through every step. *)
LEMMA ChainInductive ==
  /\ Init => ChainInv
  /\ ChainInv /\ [Next]_vars => ChainInv'
<1>1. ASSUME Init
      PROVE  ChainInv
  <2>1. run \in RunDir /\ RunOK(run)
    BY <1>1, LifecycleAssumption DEF Init, RunDir, RunOK, Artifact, Statuses, OfTickets
  <2>2. \A p \in Procs : job[p] = Idle /\ JobOK(Idle, run)
    BY <1>1 DEF Init, JobOK, Idle
  <2>3. job \in [Procs -> Job] /\ drafts \in 0 .. MaxDrafts /\ refused \in SUBSET Drafts
    BY <1>1, LifecycleAssumption DEF Init, Job
  <2>4. torn \in BOOLEAN
    BY <1>1 DEF Init
  <2>5. TypeOK
    BY <2>1, <2>3, <2>4 DEF TypeOK
  <2> QED
    BY <2>1, <2>2, <2>5 DEF ChainInv
<1>2. ASSUME ChainInv, UNCHANGED vars
      PROVE  ChainInv'
  BY <1>2 DEF ChainInv, TypeOK, RunOK, JobOK, vars
<1>3. ASSUME ChainInv, NEW p \in Procs, SpecStep(p)
      PROVE  ChainInv'
  <2>1. ASSUME NEW s \in Specs, SpecDraft(p, s) \/ SpecCouncilWrite(p, s)
        PROVE  ChainInv'
    BY <1>3, <2>1, SpecWrites
  <2>2. ASSUME SpecReviewWrite(p) \/ SpecApproveWrite(p)
        PROVE  ChainInv'
    <3>1. job[p] \in Job /\ job[p].spec \in Specs
      BY <1>3, <2>2, JobFields DEF ChainInv, TypeOK, SpecReviewWrite, SpecApproveWrite, At
    <3> QED
      BY <1>3, <2>2, <3>1, SpecWrites
  <2> QED
    BY <1>3, <2>1, <2>2, SpecReads DEF SpecStep
<1>4. ASSUME ChainInv, NEW p \in Procs, PlanStep(p)
      PROVE  ChainInv'
  BY <1>4, PlanReads, PlanReviewReads, PlanWrites, OtherSteps DEF PlanStep
<1>5. ASSUME ChainInv, NEW p \in Procs, RunStep(p)
      PROVE  ChainInv'
  BY <1>5, RunReads, RunWrites, OtherSteps, LifecycleAssumption DEF RunStep
<1>6. ASSUME ChainInv, [Next]_vars
      PROVE  ChainInv'
  BY <1>2, <1>3, <1>4, <1>5, <1>6, OtherSteps, TaskInv DEF Next, Command
<1> QED
  BY <1>1, <1>6

-----------------------------------------------------------------------------
(* Tickets lack their coverage only where StatusHasWork says. *)
Covering ==
  run.tickets # None /\ run.coverage = 0 => torn \/ \E p \in Procs : At(p, "coverage")

(* A step of p that takes no tickets away from their coverage. *)
Quiet(p) ==
  /\ ~At(p, "coverage")
  /\ \A q \in Procs : q # p => job'[q] = job[q]
  /\ torn' = torn
  /\ run'.tickets = run.tickets
  /\ run'.coverage = run.coverage \/ run'.coverage # 0

(* Every step is one, but for the two writes of a compilation and deaths. *)
LEMMA OthersAreQuiet ==
  ASSUME ChainInv, NEW p \in Procs, Command(p), ~CompileTickets(p), ~CompileCoverage(p)
  PROVE  Quiet(p)
<1>0. run \in RunDir /\ job \in [Procs -> Job] /\ Idle.pc = "idle"
  BY DEF ChainInv, TypeOK, Idle
<1>1. \A j : Goes(p, j) => \A q \in Procs : q # p => job'[q] = job[q]
  BY <1>0 DEF Goes
<1>2. \A j : Reads(p, j) /\ ~At(p, "coverage") => Quiet(p)
  BY <1>1 DEF Reads, Quiet
<1>3. \A ok, j : Checks(p, ok, j) /\ ~At(p, "coverage") => Quiet(p)
  BY <1>2 DEF Checks
<1>4. ASSUME NEW r, NEW j, Writes(p, r, j), ~At(p, "coverage"),
             r.tickets = run.tickets, r.coverage = run.coverage \/ r.coverage # 0
      PROVE  Quiet(p)
  BY <1>1, <1>4 DEF Writes, Quiet
<1>5. \A s, j : Refresh(p, s, j) /\ ~At(p, "coverage") => Quiet(p)
  BY <1>0, <1>4 DEF Refresh, RunDir
<1>6. CASE SpecStep(p)
  BY <1>0, <1>2, <1>3, <1>4, <1>6 DEF SpecStep, At, RunDir, SpecDraft, SpecCouncilWrite,
     SpecReviewRead, SpecReviewWrite, SpecCouncilRead, SpecApproveRead, SpecApproveCheck,
     SpecApproveWrite
<1>7. CASE PlanStep(p)
  <2>1. ASSUME PlanDraftRead(p)
        PROVE  Quiet(p)
    BY <1>0, <1>1, <2>1 DEF PlanDraftRead, Quiet, At
  <2>2. ASSUME NEW pass \in BOOLEAN, PlanCouncilWrite(p, pass)
        PROVE  Quiet(p)
    BY <1>0, <1>1, <2>2 DEF PlanCouncilWrite, Quiet, At, RunDir
  <2>3. ASSUME PlanReviewWrite(p)
        PROVE  Quiet(p)
    BY <1>0, <1>4, <2>3 DEF PlanReviewWrite, At, RunDir
  <2>4. ASSUME PlanWrite(p) \/ MdWrite(p) \/ PlanApprovalWrite(p)
        PROVE  Quiet(p)
    BY <1>0, <1>4, <2>4 DEF PlanWrite, MdWrite, PlanApprovalWrite, At, RunDir
  <2> QED
    BY <1>0, <1>2, <1>3, <1>7, <2>1, <2>2, <2>3, <2>4 DEF PlanStep, At, PlanDraftCheck,
       PlanDraftBuild, PlanReviewRead, PlanReviewHash, PlanCouncilRead, PlanCouncilSee,
       PlanApproveRead, PlanApprovePlan, PlanApproveCheck, PlanApproveHash
<1>8. CASE RunStep(p)
  <2>1. ASSUME ApproveWrite(p) \/ \E b \in Bounds : BoundsWrite(p, b)
        PROVE  Quiet(p)
    BY <1>0, <1>4, <2>1 DEF ApproveWrite, BoundsWrite, At, RunDir
  <2> QED
    BY <1>0, <1>2, <1>3, <1>5, <1>8, <2>1 DEF RunStep, At, ApproveRead, GateApproval, GatePlan,
       GateHash, ApproveStatus, CompileRead, LineageApproval, LineageSpec, CompileStatus, BoundsRead
<1>9. CASE TaskStep(p)
  <2>1. ASSUME SyncWrite(p)
        PROVE  Quiet(p)
    <3>1. job[p].draft \in Drafts /\ At(p, "cover")
      BY <1>0, <2>1, JobFields DEF SyncWrite, At
    <3> QED
      BY <1>0, <1>4, <2>1, <3>1 DEF SyncWrite, At, RunDir, Drafts
  <2> QED
    BY <1>0, <1>2, <1>5, <1>9, <2>1 DEF TaskStep, At, TaskStart, SyncRead, RefreshStatus,
       ReconcileRead, ReconcileArtifact, ReconcileInfer
<1> QED
  BY <1>6, <1>7, <1>8, <1>9 DEF Command

(* A compilation is at its coverage once its tickets are there, and one    *)
(* that ends there is remembered.                                          *)
LEMMA CoverInductive ==
  /\ Init => Covering
  /\ ChainInv /\ Covering /\ [Next]_vars => Covering'
<1>1. Init => Covering
  BY LifecycleAssumption DEF Init, Covering
<1>2. ASSUME Covering, UNCHANGED vars
      PROVE  Covering'
  BY <1>2 DEF Covering, vars, At
<1>3. ASSUME ChainInv, Covering, NEW p \in Procs, CompileTickets(p)
      PROVE  Covering'
  BY <1>3 DEF ChainInv, TypeOK, CompileTickets, Writes, Goes, Covering, At
<1>4. ASSUME ChainInv, Covering, NEW p \in Procs, CompileCoverage(p)
      PROVE  Covering'
  <2>1. run \in RunDir /\ job[p].draft \in Drafts
    BY <1>4, JobFields DEF ChainInv, TypeOK, CompileCoverage, At
  <2> QED
    BY <1>4, <2>1 DEF CompileCoverage, Covering, RunDir, Drafts
<1>5. ASSUME ChainInv, Covering, NEW p \in Procs, Crash(p)
      PROVE  Covering'
  BY <1>5 DEF ChainInv, TypeOK, Crash, Goes, Covering, At
<1>6. ASSUME Covering, NEW p \in Procs, Quiet(p)
      PROVE  Covering'
  BY <1>6 DEF Quiet, Covering, At
<1> QED
  BY <1>1, <1>2, <1>3, <1>4, <1>5, <1>6, OthersAreQuiet DEF Next

-----------------------------------------------------------------------------
(* The files and what every command carries between them are well formed,  *)
(* and good: ChainInv is inductive.                                        *)
THEOREM Chain == Spec => []ChainInv
BY ChainInductive, PTL DEF Spec

(* Whatever commands interleave and wherever they die, the run directory   *)
(* and what the commands carry keep their types.                           *)
THEOREM ChainTypes == Spec => []TypeOK
<1>1. ChainInv => TypeOK
  BY DEF ChainInv
<1> QED
  BY <1>1, Chain, PTL

(* No interleaving of drafts, reviews, councils and approvals, with any    *)
(* crashes, approves a specification that lacks a section or holds an open *)
(* annotation: the hash ties what is approved to what was reviewed.        *)
THEOREM SpecApproval == Spec => []ApprovedSpecIsSound
<1>1. ChainInv => ApprovedSpecIsSound
  BY DEF ChainInv, RunOK, Approvable, ApprovedSpecIsSound
<1> QED
  BY <1>1, Chain, PTL

(* Every compiled ticket stems from such a specification. *)
THEOREM Traceability == Spec => []TicketsAreTraceable
<1>1. ChainInv => TicketsAreTraceable
  BY DEF ChainInv, RunOK, Approvable, TicketsAreTraceable
<1> QED
  BY <1>1, Chain, PTL

(* Whichever commands read what before the others wrote, and wherever they *)
(* die, status and coverage are never ahead of the tickets, and tickets    *)
(* are without coverage only where a compilation is between the two or     *)
(* ended there.                                                            *)
THEOREM StatusFollows == Spec => []StatusHasWork
<1>1. ChainInv /\ Covering => StatusHasWork
  BY DEF ChainInv, RunOK, Covering, StatusHasWork
<1> QED
  BY <1>1, ChainInductive, CoverInductive, PTL DEF Spec

-----------------------------------------------------------------------------
(* One command at a time.                                                  *)

(* No plan and no review of it is about draft d yet. *)
Fresh(d, r) ==
  /\ r.plan # None => r.plan.draft # d
  /\ r.planReview # None => r.planReview.hash.draft # d

(* The draft the plan file holds. *)
Holds(r, d) == r.plan # None /\ r.plan.draft = d

(* The files, between commands and wherever one died.  A review or an      *)
(* approval is of a fit draft; a plan that has been reviewed, or approved, *)
(* is the one that was rendered last.                                      *)
ReviewOK(r, n) ==
  /\ r.plan # None => r.plan.draft <= n
  /\ r.planReview # None => r.planReview.hash.draft <= n
  /\ r.planReview # None /\ r.planReview.pass => r.planReview.hash.draft \in Fit
  /\ r.planApproval # None => r.planApproval.draft \in Fit
  /\ r.planReview # None /\ Holds(r, r.planReview.hash.draft) => r.md = r.planReview.hash.draft
  /\ r.plan # None /\ r.plan.status = "approved" => r.md = r.plan.draft

(* A draft on its way to the file is new; one written again is the file's. *)
DraftJob(j, r, n) ==
  /\ j.pc \in {"planDraft", "planBuild"} => j.draft <= n /\ Fresh(j.draft, r)
  /\ j.pc = "planWrite" /\ j.then = "drafted" =>
       j.plan.draft <= n /\ Fresh(j.plan.draft, r) /\ j.plan.status = "drafted"
  /\ j.pc = "planWrite" /\ j.then = "reviewed" =>
       Holds(r, j.plan.draft) /\ j.plan.status = "under_review"
  /\ j.pc = "planWrite" /\ j.then = "approved" =>
       Holds(r, j.plan.draft) /\ r.md = j.plan.draft /\ j.plan.draft \in Fit
  /\ j.pc = "md" => Holds(r, j.draft)
  /\ j.pc = "md" /\ j.then = "approved" => j.draft \in Fit

(* A review goes on about the plan that was rendered. *)
ReviewJob(j, r, n) ==
  /\ j.pc = "planHash" => Holds(r, j.draft) /\ r.md = j.draft
  /\ j.pc = "planReview" => j.hash.draft = r.md /\ j.hash.draft <= n
  /\ j.pc = "planReview" /\ j.pass => j.hash.draft \in Fit
  /\ j.pc = "council" /\ r.planReview # None => r.planReview.hash.draft = r.md
  /\ j.pc \in {"planCouncil", "planVerdict"} =>
       j.hash.draft = r.md /\ j.hash.draft <= n /\ j.hash.draft \in Fit
  /\ j.pc = "planVerdict" => j.saw = j.hash.draft

(* An approval is about the plan that was reviewed, tickets about the      *)
(* specification that was approved.                                        *)
ApproveJob(j, r) ==
  /\ j.pc \in {"planApprove", "planCompare"} =>
       r.planReview # None /\ r.planReview.hash = j.hash /\ j.hash.draft \in Fit
  /\ j.pc = "planCompare" => r.plan # None /\ r.plan = j.plan
  /\ j.pc = "planRehash" /\ r.plan # None => r.plan.draft \in Fit
  /\ j.pc = "planApproval" => j.hash.draft \in Fit
  /\ j.pc = "lineageSpec" => r.specApproval = j.spec
  /\ j.pc = "tickets" => r.spec = j.plan.src /\ r.specApproval = r.spec

AloneJob(j, r, n) == DraftJob(j, r, n) /\ ReviewJob(j, r, n) /\ ApproveJob(j, r)

AloneInv == ReviewOK(run, drafts) /\ \A p \in Procs : AloneJob(job[p], run, drafts)

(* Commands are given one at a time. *)
Alone == \A p, q \in Procs : p = q

(* Steps at which a command carries something AloneJob speaks of. *)
Carrying ==
  {"planDraft", "planBuild", "planWrite", "md", "planHash", "planReview", "council", "planCouncil",
   "planVerdict", "planApprove", "planCompare", "planRehash", "planApproval", "lineageSpec",
   "tickets"}

(* Elsewhere a command carries nothing AloneJob speaks of.                 *)
LEMMA CarriesNothing ==
  ASSUME NEW j, j.pc \notin Carrying, NEW r, NEW n
  PROVE  AloneJob(j, r, n)
BY DEF Carrying, AloneJob, DraftJob, ReviewJob, ApproveJob

(* Between commands nothing is carried.                                    *)
LEMMA IdleCarries == \A r, n : AloneJob(Idle, r, n)
<1>1. Idle.pc \notin Carrying BY DEF Idle, Carrying
<1> QED BY <1>1, CarriesNothing

(* The only process moves: it is its job that has to be good. *)
LEMMA AloneMove ==
  ASSUME Alone, ChainInv, NEW p \in Procs, NEW j, NEW r, NEW n, Goes(p, j), run' = r, drafts' = n,
         ReviewOK(r, n), AloneJob(j, r, n)
  PROVE  AloneInv'
<1>1. \A q \in Procs : q = p /\ job'[q] = j BY DEF Alone, Goes, ChainInv, TypeOK
<1> QED BY <1>1 DEF AloneInv

(* A command that has read a file.                                         *)
LEMMA AloneRead ==
  ASSUME Alone, ChainInv, AloneInv, NEW p \in Procs, NEW j, Reads(p, j), AloneJob(j, run, drafts)
  PROVE  AloneInv'
BY AloneMove DEF Reads, AloneInv

(* A command that has passed or failed a check.                            *)
LEMMA AloneCheck ==
  ASSUME Alone, ChainInv, AloneInv, NEW p \in Procs, NEW ok, NEW j, Checks(p, ok, j),
         ok => AloneJob(j, run, drafts)
  PROVE  AloneInv'
<1>1. CASE ok BY <1>1, AloneRead DEF Checks
<1>2. CASE ~ok BY <1>2, AloneRead, IdleCarries DEF Checks
<1> QED BY <1>1, <1>2

(* A command that has written a file.                                      *)
LEMMA AloneWrite ==
  ASSUME Alone, ChainInv, NEW p \in Procs, NEW j, NEW r, Writes(p, r, j),
         ReviewOK(r, drafts), AloneJob(j, r, drafts)
  PROVE  AloneInv'
BY AloneMove DEF Writes

(* Writing files that no review is about, on the way to a step without     *)
(* memory, changes nothing.                                                *)
LEMMA AloneQuiet ==
  ASSUME Alone, ChainInv, AloneInv, NEW p \in Procs, NEW j, NEW r, Writes(p, r, j),
         j.pc \notin Carrying, r.plan = run.plan, r.md = run.md,
         r.planReview = run.planReview, r.planApproval = run.planApproval
  PROVE  AloneInv'
<1>1. ReviewOK(r, drafts) BY DEF AloneInv, ReviewOK, Holds
<1> QED BY <1>1, CarriesNothing, AloneWrite

(* The technical specification is no matter of a plan's review. *)
LEMMA SpecAlone ==
  ASSUME Alone, ChainInv, AloneInv, NEW p \in Procs, SpecStep(p)
  PROVE  AloneInv'
<1>1. run \in RunDir BY DEF ChainInv, TypeOK
<1>2. ASSUME NEW s \in Specs, SpecDraft(p, s) PROVE AloneInv'
  BY <1>1, <1>2, AloneQuiet DEF SpecDraft, RunDir, Idle, Carrying
<1>3. ASSUME NEW s \in Specs, SpecCouncilWrite(p, s) PROVE AloneInv'
  BY <1>1, <1>3, AloneQuiet DEF SpecCouncilWrite, RunDir, Carrying
<1>4. ASSUME SpecReviewRead(p) PROVE AloneInv'
  BY <1>4, AloneRead, CarriesNothing DEF SpecReviewRead, Carrying
<1>5. ASSUME SpecReviewWrite(p) PROVE AloneInv'
  BY <1>1, <1>5, AloneQuiet DEF SpecReviewWrite, RunDir, Idle, Carrying
<1>6. ASSUME SpecCouncilRead(p) PROVE AloneInv'
  BY <1>6, AloneRead, CarriesNothing DEF SpecCouncilRead, Carrying
<1>7. ASSUME SpecApproveRead(p) PROVE AloneInv'
  BY <1>7, AloneRead, CarriesNothing DEF SpecApproveRead, Carrying
<1>8. ASSUME SpecApproveCheck(p) PROVE AloneInv'
  BY <1>8, AloneCheck, CarriesNothing DEF SpecApproveCheck, Carrying
<1>9. ASSUME SpecApproveWrite(p) PROVE AloneInv'
  BY <1>1, <1>9, AloneQuiet DEF SpecApproveWrite, RunDir, Idle, Carrying
<1> QED BY <1>2, <1>3, <1>4, <1>5, <1>6, <1>7, <1>8, <1>9 DEF SpecStep

(* Approving a run and compiling it write none of the plan's files.  The   *)
(* specification approved, and the plan's, stay what they were read to be. *)
LEMMA RunAlone ==
  ASSUME Alone, ChainInv, AloneInv, NEW p \in Procs, RunStep(p)
  PROVE  AloneInv'
<1>1. run \in RunDir /\ AloneJob(job[p], run, drafts) BY DEF ChainInv, TypeOK, AloneInv
<1>2. ASSUME ApproveRead(p) PROVE AloneInv'
  BY <1>2, AloneRead, CarriesNothing DEF ApproveRead, Carrying
<1>3. ASSUME GateApproval(p) PROVE AloneInv'
  BY <1>3, AloneCheck, CarriesNothing DEF GateApproval, Carrying
<1>4. ASSUME GatePlan(p) PROVE AloneInv'
  BY <1>4, AloneRead, CarriesNothing DEF GatePlan, Carrying
<1>5. ASSUME GateHash(p) PROVE AloneInv'
  <2> DEFINE j == IF job[p].cmd = "approve"
                  THEN [pc |-> "approve", art |-> job[p].art]
                  ELSE [pc |-> "lineage", art |-> job[p].art, plan |-> job[p].plan]
  <2>1. AloneJob(j, run, drafts)
    <3>1. j.pc \notin Carrying BY DEF Carrying
    <3> QED BY <3>1, CarriesNothing
  <2> QED BY <1>5, <2>1, AloneCheck DEF GateHash
<1>6. ASSUME ApproveWrite(p) PROVE AloneInv'
  BY <1>1, <1>6, AloneQuiet DEF ApproveWrite, RunDir, Carrying
<1>7. ASSUME NEW s, NEW j, Refresh(p, s, j), j.pc \notin Carrying PROVE AloneInv'
  BY <1>1, <1>7, AloneQuiet DEF Refresh, RunDir
<1>8. ASSUME ApproveStatus(p) PROVE AloneInv'
  BY <1>7, <1>8 DEF ApproveStatus, Carrying
<1>9. ASSUME CompileRead(p) PROVE AloneInv'
  BY <1>9, AloneRead, CarriesNothing DEF CompileRead, Carrying
<1>10. ASSUME LineageApproval(p) PROVE AloneInv'
  <2> DEFINE j == [pc |-> "lineageSpec", art |-> job[p].art, plan |-> job[p].plan,
                   spec |-> run.specApproval]
  <2>1. AloneJob(j, run, drafts) BY DEF AloneJob, DraftJob, ReviewJob, ApproveJob
  <2> QED BY <1>10, <2>1, AloneCheck DEF LineageApproval
<1>11. ASSUME LineageSpec(p) PROVE AloneInv'
  <2> DEFINE j == [pc |-> "tickets", art |-> job[p].art, plan |-> job[p].plan]
             ok == run.spec = job[p].spec /\ job[p].plan.src = run.spec
  <2>1. run.specApproval = job[p].spec
    BY <1>1, <1>11 DEF LineageSpec, At, AloneJob, ApproveJob
  <2>2. ok => AloneJob(j, run, drafts) BY <2>1 DEF AloneJob, DraftJob, ReviewJob, ApproveJob
  <2>3. Checks(p, ok, j) BY <1>11 DEF LineageSpec
  <2> QED BY <2>2, <2>3, AloneCheck
<1>12. ASSUME CompileTickets(p) PROVE AloneInv'
  BY <1>1, <1>12, AloneQuiet DEF CompileTickets, RunDir, Carrying
<1>13. ASSUME CompileCoverage(p) PROVE AloneInv'
  <2> DEFINE r == [run EXCEPT !.coverage = job[p].draft]
             j == [pc |-> "statusRunning"]
  <2>1. ReviewOK(r, drafts) BY <1>1 DEF RunDir, AloneInv, ReviewOK, Holds
  <2>2. AloneJob(j, r, drafts) BY CarriesNothing DEF Carrying
  <2>3. run' = r /\ drafts' = drafts /\ Goes(p, j) BY <1>13 DEF CompileCoverage
  <2> HIDE DEF r, j
  <2> QED BY <2>1, <2>2, <2>3, AloneMove
<1>14. ASSUME CompileStatus(p) PROVE AloneInv'
  BY <1>7, <1>14 DEF CompileStatus, Carrying, Idle
<1>15. ASSUME BoundsRead(p) PROVE AloneInv'
  BY <1>15, AloneRead, CarriesNothing DEF BoundsRead, Carrying
<1>16. ASSUME NEW b \in Bounds, BoundsWrite(p, b) PROVE AloneInv'
  BY <1>1, <1>16, AloneQuiet DEF BoundsWrite, RunDir, Carrying, Idle
<1> QED
  BY <1>2, <1>3, <1>4, <1>5, <1>6, <1>8, <1>9, <1>10, <1>11, <1>12, <1>13, <1>14, <1>15, <1>16
  DEF RunStep

(* The commands on tickets write none of the plan's files either. *)
LEMMA TaskAlone ==
  ASSUME Alone, ChainInv, AloneInv, NEW p \in Procs, TaskStep(p)
  PROVE  AloneInv'
<1>1. run \in RunDir BY DEF ChainInv, TypeOK
<1>2. \A says : AfterSync(says).pc \notin Carrying BY DEF AfterSync, Idle, Carrying
<1>3. ASSUME NEW says, TaskStart(p, says) PROVE AloneInv'
  BY <1>3, AloneRead, CarriesNothing DEF TaskStart, Carrying
<1>4. ASSUME SyncRead(p) PROVE AloneInv'
  <2> DEFINE j == IF run.coverage = 0 THEN AfterSync(job[p].says)
                  ELSE [pc |-> "cover", draft |-> run.coverage, says |-> job[p].says]
  <2>1. j.pc \notin Carrying BY <1>2 DEF Carrying
  <2>2. Reads(p, j) BY <1>4 DEF SyncRead
  <2> HIDE DEF j
  <2> QED BY <2>1, <2>2, AloneRead, CarriesNothing
<1>5. ASSUME SyncWrite(p) PROVE AloneInv'
  BY <1>1, <1>2, <1>5, AloneQuiet DEF SyncWrite, RunDir
<1>6. ASSUME RefreshStatus(p) PROVE AloneInv'
  BY <1>1, <1>6, AloneQuiet DEF RefreshStatus, Refresh, RunDir, Idle, Carrying
<1>7. ASSUME ReconcileRead(p) PROVE AloneInv'
  BY <1>7, AloneRead, CarriesNothing DEF ReconcileRead, Carrying
<1>8. ASSUME ReconcileArtifact(p) PROVE AloneInv'
  BY <1>8, AloneRead, CarriesNothing DEF ReconcileArtifact, Carrying
<1>9. ASSUME ReconcileInfer(p) PROVE AloneInv'
  <2>1. PICK says \in Inferred(job[p].approved) :
           Reads(p, [pc |-> "refresh", says |-> says]) \/ Reads(p, Idle)
    BY <1>9 DEF ReconcileInfer
  <2>2. [pc |-> "refresh", says |-> says].pc \notin Carrying BY DEF Carrying
  <2> QED BY <2>1, <2>2, AloneRead, CarriesNothing, IdleCarries
<1> QED BY <1>3, <1>4, <1>5, <1>6, <1>7, <1>8, <1>9 DEF TaskStep

(* Drafting and rendering a plan. *)
LEMMA DraftAlone ==
  ASSUME Alone, ChainInv, AloneInv, NEW p \in Procs,
         PlanDraftRead(p) \/ PlanDraftCheck(p) \/ PlanDraftBuild(p) \/ PlanWrite(p) \/ MdWrite(p)
  PROVE  AloneInv'
<1>1. /\ run \in RunDir /\ ReviewOK(run, drafts)
      /\ job[p] \in Job /\ AloneJob(job[p], run, drafts)
      /\ drafts \in Nat
  BY DEF ChainInv, TypeOK, AloneInv
<1>2. ASSUME PlanDraftRead(p) PROVE AloneInv'
  <2> DEFINE j == [pc |-> "planDraft", draft |-> drafts + 1, spec |-> run.specApproval]
  <2>1. /\ run.plan # None => run.plan.draft \in Nat
        /\ run.planReview # None => run.planReview.hash.draft \in Nat
    BY <1>1, Present DEF Plan, PlanReview, Drafts
  <2>2. \A d, n \in Nat : d <= n => d <= n + 1 /\ d # n + 1 OBVIOUS
  <2>3. ReviewOK(run, drafts + 1) BY <1>1, <2>1, <2>2, Zenon DEF ReviewOK
  <2>4. Fresh(drafts + 1, run) /\ drafts + 1 <= drafts + 1 BY <1>1, <2>1, <2>2 DEF ReviewOK, Fresh
  <2>5. AloneJob(j, run, drafts + 1) BY <2>4 DEF AloneJob, DraftJob, ReviewJob, ApproveJob
  <2>6. run' = run /\ drafts' = drafts + 1 /\ Goes(p, j) BY <1>2 DEF PlanDraftRead
  <2> HIDE DEF j
  <2> QED BY <2>3, <2>5, <2>6, AloneMove
<1>3. ASSUME PlanDraftCheck(p) PROVE AloneInv'
  <2> DEFINE j == [pc |-> "planBuild", draft |-> job[p].draft, spec |-> job[p].spec]
  <2>1. AloneJob(j, run, drafts)
    BY <1>1, <1>3 DEF PlanDraftCheck, At, AloneJob, DraftJob, ReviewJob, ApproveJob
  <2> QED BY <1>3, <2>1, AloneCheck DEF PlanDraftCheck
<1>4. ASSUME PlanDraftBuild(p) PROVE AloneInv'
  <2> DEFINE j == [pc |-> "planWrite", then |-> "drafted",
                   plan |-> [draft |-> job[p].draft, src |-> job[p].spec, status |-> "drafted"]]
  <2>1. AloneJob(j, run, drafts)
    BY <1>1, <1>4 DEF PlanDraftBuild, At, AloneJob, DraftJob, ReviewJob, ApproveJob
  <2> QED BY <1>4, <2>1, AloneCheck DEF PlanDraftBuild
<1>5. ASSUME PlanWrite(p) PROVE AloneInv'
  <2> DEFINE plan == job[p].plan
             j == [pc |-> "md", draft |-> plan.draft, then |-> job[p].then]
             r == [run EXCEPT !.plan = plan]
  <2>1. plan \in Plan /\ plan # None /\ job[p].then \in Then /\ At(p, "planWrite")
    BY <1>1, <1>5, JobFields, LifecycleAssumption DEF PlanWrite, At
  <2>2. /\ r.plan = plan /\ r.md = run.md
        /\ r.planReview = run.planReview /\ r.planApproval = run.planApproval
    BY <1>1 DEF RunDir
  <2>3. AloneJob(j, r, drafts)
    <3>1. Holds(r, j.draft) BY <2>1, <2>2 DEF Holds
    <3>2. j.then = "approved" => j.draft \in Fit
      BY <1>1, <2>1 DEF At, AloneJob, DraftJob
    <3> QED BY <3>1, <3>2 DEF AloneJob, DraftJob, ReviewJob, ApproveJob
  <2>4. ReviewOK(r, drafts)
    <3>1. CASE job[p].then = "drafted"
      <4>1. plan.draft <= drafts /\ Fresh(plan.draft, run) /\ plan.status = "drafted"
        BY <1>1, <2>1, <3>1 DEF At, AloneJob, DraftJob
      <4> QED BY <1>1, <2>1, <2>2, <4>1 DEF ReviewOK, Fresh, Holds
    <3>2. CASE job[p].then = "reviewed"
      <4>1. Holds(run, plan.draft) /\ plan.status = "under_review"
        BY <1>1, <2>1, <3>2 DEF At, AloneJob, DraftJob
      <4> QED BY <1>1, <2>1, <2>2, <4>1 DEF ReviewOK, Holds
    <3>3. CASE job[p].then = "approved"
      <4>1. Holds(run, plan.draft) /\ run.md = plan.draft
        BY <1>1, <2>1, <3>3 DEF At, AloneJob, DraftJob
      <4> QED BY <1>1, <2>1, <2>2, <4>1 DEF ReviewOK, Holds
    <3> QED BY <2>1, <3>1, <3>2, <3>3 DEF Then
  <2>5. Writes(p, r, j) BY <1>5 DEF PlanWrite
  <2> HIDE DEF r, j
  <2> QED BY <2>3, <2>4, <2>5, AloneWrite
<1>6. ASSUME MdWrite(p) PROVE AloneInv'
  <2> DEFINE d == job[p].draft
             j == CASE job[p].then = "drafted" -> Idle
                    [] job[p].then = "reviewed" -> [pc |-> "planHash", draft |-> d]
                    [] job[p].then = "approved" -> [pc |-> "planRehash"]
             r == [run EXCEPT !.md = d]
  <2>1. job[p].then \in Then /\ At(p, "md") BY <1>1, <1>6, JobFields DEF MdWrite, At
  <2>2. /\ Holds(run, d) /\ (job[p].then = "approved" => d \in Fit)
    BY <1>1, <2>1 DEF At, AloneJob, DraftJob
  <2>3. /\ r.plan = run.plan /\ r.md = d
        /\ r.planReview = run.planReview /\ r.planApproval = run.planApproval
    BY <1>1 DEF RunDir
  <2>4. ReviewOK(r, drafts) BY <1>1, <2>2, <2>3 DEF ReviewOK, Holds
  <2>5. AloneJob(j, r, drafts)
    <3>1. CASE job[p].then = "drafted" BY <3>1, IdleCarries
    <3>2. CASE job[p].then = "reviewed"
      <4>1. j = [pc |-> "planHash", draft |-> d] BY <3>2
      <4>2. Holds(r, d) /\ r.md = d BY <2>2, <2>3 DEF Holds
      <4> HIDE DEF r, j
      <4> QED BY <4>1, <4>2 DEF AloneJob, DraftJob, ReviewJob, ApproveJob
    <3>3. CASE job[p].then = "approved"
      <4>1. j = [pc |-> "planRehash"] BY <3>3
      <4> QED BY <2>2, <2>3, <3>3, <4>1 DEF AloneJob, DraftJob, ReviewJob, ApproveJob, Holds
    <3> QED BY <2>1, <3>1, <3>2, <3>3 DEF Then
  <2>6. Writes(p, r, j) BY <1>6 DEF MdWrite
  <2> HIDE DEF r, j
  <2> QED BY <2>4, <2>5, <2>6, AloneWrite
<1> QED BY <1>2, <1>3, <1>4, <1>5, <1>6

(* Reviewing it. *)
LEMMA ReviewAlone ==
  ASSUME Alone, ChainInv, AloneInv, NEW p \in Procs,
         \/ PlanReviewRead(p) \/ PlanReviewHash(p) \/ PlanReviewWrite(p)
         \/ PlanCouncilRead(p) \/ PlanCouncilSee(p) \/ \E pass \in BOOLEAN : PlanCouncilWrite(p, pass)
  PROVE  AloneInv'
<1>1. /\ run \in RunDir /\ ReviewOK(run, drafts)
      /\ job[p] \in Job /\ AloneJob(job[p], run, drafts)
  BY DEF ChainInv, TypeOK, AloneInv
<1>2. ASSUME PlanReviewRead(p) PROVE AloneInv'
  <2> DEFINE again == [pc |-> "planHash", draft |-> run.plan.draft]
             mark == [pc |-> "planWrite", plan |-> [run.plan EXCEPT !.status = "under_review"],
                      then |-> "reviewed"]
  <2>1. run.plan # None /\ run.plan \in Plan BY <1>1, <1>2, Present DEF PlanReviewRead
  <2>2. CASE run.plan.status = "approved"
    <3>1. AloneJob(again, run, drafts)
      BY <1>1, <2>1, <2>2 DEF AloneJob, DraftJob, ReviewJob, ApproveJob, Holds, ReviewOK
    <3> QED BY <1>2, <2>2, <3>1, AloneRead DEF PlanReviewRead
  <2>3. CASE run.plan.status # "approved"
    <3>1. AloneJob(mark, run, drafts)
      BY <1>1, <2>1 DEF AloneJob, DraftJob, ReviewJob, ApproveJob, Holds, Plan
    <3> QED BY <1>2, <2>3, <3>1, AloneRead DEF PlanReviewRead
  <2> QED BY <2>2, <2>3
<1>3. ASSUME PlanReviewHash(p) PROVE AloneInv'
  <2> DEFINE pass == job[p].draft \in Fit
             j == [pc |-> "planReview", hash |-> run.plan, pass |-> pass]
  <2>1. Holds(run, job[p].draft) /\ run.md = job[p].draft
    BY <1>1, <1>3 DEF PlanReviewHash, At, AloneJob, ReviewJob
  <2>2. /\ run.plan.draft = run.md /\ run.plan.draft <= drafts
        /\ pass => run.plan.draft \in Fit
    BY <1>1, <2>1 DEF Holds, ReviewOK
  <2>3. Reads(p, j) BY <1>3 DEF PlanReviewHash
  <2> HIDE DEF pass
  <2>4. AloneJob(j, run, drafts) BY <2>2 DEF AloneJob, DraftJob, ReviewJob, ApproveJob
  <2> QED BY <2>3, <2>4, AloneRead
<1>4. ASSUME PlanReviewWrite(p) PROVE AloneInv'
  <2> DEFINE rev == [hash |-> job[p].hash, pass |-> job[p].pass]
             r == [run EXCEPT !.planReview = rev]
  <2>1. PICK next \in {Idle, [pc |-> "council"]} : Writes(p, r, next) BY <1>4 DEF PlanReviewWrite
  <2>2. /\ job[p].hash.draft = run.md /\ job[p].hash.draft <= drafts
        /\ job[p].pass => job[p].hash.draft \in Fit
    BY <1>1, <1>4 DEF PlanReviewWrite, At, AloneJob, ReviewJob
  <2>3. /\ r.plan = run.plan /\ r.md = run.md
        /\ r.planReview = rev /\ r.planApproval = run.planApproval
    BY <1>1 DEF RunDir
  <2>4. ReviewOK(r, drafts) BY <1>1, <2>2, <2>3 DEF ReviewOK, Holds
  <2>5. AloneJob(next, r, drafts)
    <3>1. CASE next = Idle BY <3>1, IdleCarries
    <3>2. CASE next = [pc |-> "council"]
      BY <2>2, <2>3, <3>2 DEF AloneJob, DraftJob, ReviewJob, ApproveJob
    <3> QED BY <2>1, <3>1, <3>2
  <2> HIDE DEF r
  <2> QED BY <2>1, <2>4, <2>5, AloneWrite
<1>5. ASSUME PlanCouncilRead(p) PROVE AloneInv'
  <2> DEFINE j == [pc |-> "planCouncil", hash |-> run.planReview.hash]
  <2>1. run.planReview # None /\ run.planReview.hash.draft = run.md
    BY <1>1, <1>5 DEF PlanCouncilRead, At, AloneJob, ReviewJob
  <2>2. run.planReview.pass => AloneJob(j, run, drafts)
    BY <1>1, <2>1 DEF AloneJob, DraftJob, ReviewJob, ApproveJob, ReviewOK
  <2> QED BY <1>5, <2>2, AloneCheck DEF PlanCouncilRead
<1>6. ASSUME PlanCouncilSee(p) PROVE AloneInv'
  <2> DEFINE j == [pc |-> "planVerdict", hash |-> job[p].hash, saw |-> run.md]
  <2>1. AloneJob(j, run, drafts)
    BY <1>1, <1>6 DEF PlanCouncilSee, At, AloneJob, DraftJob, ReviewJob, ApproveJob
  <2> QED BY <1>6, <2>1, AloneRead DEF PlanCouncilSee
<1>7. ASSUME NEW pass \in BOOLEAN, PlanCouncilWrite(p, pass) PROVE AloneInv'
  <2> DEFINE rev == [hash |-> job[p].hash, pass |-> pass]
             r == [run EXCEPT !.planReview = rev]
  <2>1. /\ job[p].hash.draft = run.md /\ job[p].hash.draft <= drafts
        /\ job[p].hash.draft \in Fit
    BY <1>1, <1>7 DEF PlanCouncilWrite, At, AloneJob, ReviewJob
  <2>2. /\ r.plan = run.plan /\ r.md = run.md
        /\ r.planReview = rev /\ r.planApproval = run.planApproval
    BY <1>1 DEF RunDir
  <2>3. ReviewOK(r, drafts) BY <1>1, <2>1, <2>2 DEF ReviewOK, Holds
  <2>4. run' = r /\ drafts' = drafts /\ Goes(p, Idle) BY <1>7 DEF PlanCouncilWrite
  <2> HIDE DEF r
  <2> QED BY <2>3, <2>4, IdleCarries, AloneMove
<1> QED BY <1>2, <1>3, <1>4, <1>5, <1>6, <1>7

(* Approving it. *)
LEMMA ApproveAlone ==
  ASSUME Alone, ChainInv, AloneInv, NEW p \in Procs,
         \/ PlanApproveRead(p) \/ PlanApprovePlan(p) \/ PlanApproveCheck(p)
         \/ PlanApproveHash(p) \/ PlanApprovalWrite(p)
  PROVE  AloneInv'
<1>1. /\ run \in RunDir /\ ReviewOK(run, drafts)
      /\ job[p] \in Job /\ AloneJob(job[p], run, drafts)
  BY DEF ChainInv, TypeOK, AloneInv
<1>2. ASSUME PlanApproveRead(p) PROVE AloneInv'
  <2> DEFINE j == [pc |-> "planApprove", hash |-> run.planReview.hash]
  <2>1. AloneJob(j, run, drafts)
    BY <1>1, <1>2 DEF PlanApproveRead, AloneJob, DraftJob, ReviewJob, ApproveJob, ReviewOK
  <2> QED BY <1>2, <2>1, AloneRead DEF PlanApproveRead
<1>3. ASSUME PlanApprovePlan(p) PROVE AloneInv'
  <2> DEFINE j == [pc |-> "planCompare", hash |-> job[p].hash, plan |-> run.plan]
  <2>1. AloneJob(j, run, drafts)
    BY <1>1, <1>3 DEF PlanApprovePlan, At, AloneJob, DraftJob, ReviewJob, ApproveJob
  <2> QED BY <1>3, <2>1, AloneRead DEF PlanApprovePlan
<1>4. ASSUME PlanApproveCheck(p) PROVE AloneInv'
  <2> DEFINE plan == [job[p].plan EXCEPT !.status = "approved"]
             j == [pc |-> "planWrite", plan |-> plan, then |-> "approved"]
             ok == run.plan = job[p].hash
  <2>1. /\ job[p].plan \in Plan /\ run.plan # None /\ run.plan = job[p].plan
        /\ run.planReview # None /\ run.planReview.hash = job[p].hash
        /\ job[p].hash.draft \in Fit
    BY <1>1, <1>4, JobFields DEF PlanApproveCheck, At, AloneJob, ApproveJob
  <2>2. plan.draft = run.plan.draft BY <2>1 DEF Plan
  <2>3. ok => Holds(run, plan.draft) /\ run.md = plan.draft /\ plan.draft \in Fit
    BY <1>1, <2>1, <2>2 DEF ReviewOK, Holds
  <2>4. Checks(p, ok, j) BY <1>4 DEF PlanApproveCheck
  <2> HIDE DEF plan, ok
  <2>5. ok => AloneJob(j, run, drafts)
    BY <2>3 DEF AloneJob, DraftJob, ReviewJob, ApproveJob
  <2> QED BY <2>4, <2>5, AloneCheck
<1>5. ASSUME PlanApproveHash(p) PROVE AloneInv'
  <2> DEFINE j == [pc |-> "planApproval", hash |-> run.plan]
  <2>1. AloneJob(j, run, drafts)
    BY <1>1, <1>5 DEF PlanApproveHash, At, AloneJob, DraftJob, ReviewJob, ApproveJob
  <2> QED BY <1>5, <2>1, AloneRead DEF PlanApproveHash
<1>6. ASSUME PlanApprovalWrite(p) PROVE AloneInv'
  <2> DEFINE r == [run EXCEPT !.planApproval = job[p].hash]
  <2>1. job[p].hash.draft \in Fit
    BY <1>1, <1>6 DEF PlanApprovalWrite, At, AloneJob, ApproveJob
  <2>2. /\ r.plan = run.plan /\ r.md = run.md
        /\ r.planReview = run.planReview /\ r.planApproval = job[p].hash
    BY <1>1 DEF RunDir
  <2>3. ReviewOK(r, drafts) BY <1>1, <2>1, <2>2 DEF ReviewOK, Holds
  <2>4. Writes(p, r, Idle) BY <1>6 DEF PlanApprovalWrite
  <2> HIDE DEF r
  <2> QED BY <2>3, <2>4, IdleCarries, AloneWrite
<1> QED BY <1>2, <1>3, <1>4, <1>5, <1>6

(* AloneInv is inductive together with ChainInv.                           *)
LEMMA AloneInductive ==
  ASSUME Alone
  PROVE  /\ Init => AloneInv
         /\ ChainInv /\ AloneInv /\ [Next]_vars => AloneInv'
<1>1. ASSUME Init PROVE AloneInv
  <2>1. ReviewOK(run, drafts) BY <1>1 DEF Init, ReviewOK, Holds
  <2>2. \A p \in Procs : job[p] = Idle BY <1>1 DEF Init
  <2> QED BY <2>1, <2>2, IdleCarries DEF AloneInv
<1>2. ASSUME AloneInv, UNCHANGED vars PROVE AloneInv'
  BY <1>2 DEF AloneInv, vars
<1>3. ASSUME ChainInv, AloneInv, NEW p \in Procs, Crash(p) PROVE AloneInv'
  BY <1>3, AloneMove, IdleCarries DEF Crash, AloneInv
<1>4. ASSUME ChainInv, AloneInv, NEW p \in Procs, PlanStep(p) PROVE AloneInv'
  BY <1>4, DraftAlone, ReviewAlone, ApproveAlone DEF PlanStep
<1> QED BY <1>1, <1>2, <1>3, <1>4, SpecAlone, RunAlone, TaskAlone DEF Next, Command

(* With one process the invariant of the chain has its second half, on     *)
(* what the commands read and are about to write: both hold always.        *)
THEOREM AloneHolds ==
  ASSUME Alone
  PROVE  Spec => [](ChainInv /\ AloneInv)
BY ChainInductive, AloneInductive, PTL DEF Spec

(* Where commands are given one at a time, no crash between the writes of  *)
(* plan, rendering, review and approval gets a plan approved that failed   *)
(* its structural review.                                                  *)
THEOREM ApprovalIsFit ==
  ASSUME Alone
  PROVE  Spec => []ApprovedPlanIsFit
<1>1. AloneInv => ApprovedPlanIsFit BY DEF AloneInv, ReviewOK, ApprovedPlanIsFit
<1> QED BY <1>1, AloneHolds, PTL

(* Nor has the council judge another rendering than that of the plan whose *)
(* review it writes.                                                       *)
THEOREM CouncilJudgesIt ==
  ASSUME Alone
  PROVE  Spec => []CouncilSeesReviewedPlan
<1>1. AloneInv => CouncilSeesReviewedPlan
  BY DEF AloneInv, AloneJob, ReviewJob, CouncilSeesReviewedPlan, At
<1> QED BY <1>1, AloneHolds, PTL

(* Nor do tickets come from a specification other than the approved one.   *)
THEOREM TicketsOfTheSpec ==
  ASSUME Alone
  PROVE  Spec => TicketsFollowSpec
<1> DEFINE Follows == run'.tickets # run.tickets =>
                        run'.tickets.plan.src = run.spec /\ run.specApproval = run.spec
<1>1. ChainInv /\ AloneInv /\ [Next]_vars => [Follows]_vars
  <2> SUFFICES ASSUME ChainInv, AloneInv, Next, run'.tickets # run.tickets
               PROVE  run'.tickets.plan.src = run.spec /\ run.specApproval = run.spec
    OBVIOUS
  <2>1. run \in RunDir BY DEF ChainInv, TypeOK
  <2>2. PICK p \in Procs : CompileTickets(p)
    BY <2>1 DEF Next, Command, SpecStep, PlanStep, RunStep, TaskStep, Crash, Writes, Reads, Checks, Refresh, RunDir,
       SpecDraft, SpecCouncilWrite, SpecReviewRead, SpecReviewWrite, SpecCouncilRead,
       SpecApproveRead, SpecApproveCheck, SpecApproveWrite, PlanDraftRead, PlanDraftCheck,
       PlanDraftBuild, PlanWrite, MdWrite, PlanReviewRead, PlanReviewHash, PlanReviewWrite,
       PlanCouncilRead, PlanCouncilSee, PlanCouncilWrite, PlanApproveRead, PlanApprovePlan,
       PlanApproveCheck, PlanApproveHash, PlanApprovalWrite, ApproveRead, GateApproval, GatePlan,
       GateHash, ApproveWrite, ApproveStatus, CompileRead, LineageApproval, LineageSpec,
       CompileCoverage, CompileStatus, BoundsRead, BoundsWrite, TaskStart, SyncRead, SyncWrite,
       RefreshStatus, ReconcileRead, ReconcileArtifact, ReconcileInfer
  <2>3. AloneJob(job[p], run, drafts) /\ At(p, "tickets") BY <2>2 DEF AloneInv, CompileTickets
  <2>4. run'.tickets.plan = job[p].plan BY <2>1, <2>2 DEF CompileTickets, Writes, RunDir
  <2> QED BY <2>3, <2>4 DEF AloneJob, ApproveJob, At
<1> QED BY <1>1, AloneHolds, PTL DEF Spec, TicketsFollowSpec
=============================================================================
