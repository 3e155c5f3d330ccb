------------------------- MODULE TicketStoreProofs --------------------------
(* Typing and invariants of the ticket store, and the proof that its claim *)
(* API implements the atomic leases of ClaimLease.                         *)
EXTENDS TicketStore, TLAPS

USE OwnersAssumption, GrainAssumption, NoFileAssumption, StoreAssumption

-----------------------------------------------------------------------------
(* Typing of the file operators.                                           *)

(* A truncated lease end is a number. *)
LEMMA TruncType ==
  ASSUME NEW u \in Nat
  PROVE  Trunc(u) \in Nat
<1>1. u % Grain \in 0 .. (Grain - 1) /\ u % Grain <= u
  OBVIOUS
<1> QED
  BY <1>1 DEF Trunc

(* The functions on a ticket file return well-formed tickets. *)
LEMMA FileTypes ==
  ASSUME NEW tk \in Ticket
  PROVE  /\ AsTask(tk) \in Task
         /\ \A task \in Task : Unclaimed(task) \in Ticket /\ UpdateFrontmatter(tk, task) \in Ticket
         /\ \A s \in Status : WithStatus(tk, s) \in Ticket /\ ReleasedTo(tk, s) \in Ticket
         /\ \A ds \in SUBSET Tasks : WithDeps(tk, ds) \in Ticket
         /\ \A o \in Owners, u \in Nat : SetClaim(tk, o, u) \in Ticket
         /\ \A u \in Nat : Renewed(tk, u) \in Ticket
         /\ ClaimCleared(tk) \in Ticket
<1>1. AsTask(tk) \in Task
  BY DEF Ticket, Task, AsTask
<1>2. \A task \in Task : Unclaimed(task) \in Ticket /\ UpdateFrontmatter(tk, task) \in Ticket
  BY DEF Ticket, Task, Unclaimed, UpdateFrontmatter
<1>3. \A s \in Status : [AsTask(tk) EXCEPT !.status = s] \in Task
  BY <1>1 DEF Task
<1>4. \A ds \in SUBSET Tasks : [AsTask(tk) EXCEPT !.deps = ds] \in Task
  BY <1>1 DEF Task
<1>5. \A s \in Status : ReleasedTo(tk, s) \in Ticket
  BY DEF Ticket, ReleasedTo
<1>6. \A o \in Owners, u \in Nat : SetClaim(tk, o, u) \in Ticket
  <2> TAKE o \in Owners, u \in Nat
  <2> "claimed" \in Status
    BY DEF Status
  <2> QED
    BY TruncType DEF Ticket, SetClaim
<1>7. \A u \in Nat : Renewed(tk, u) \in Ticket
  BY TruncType DEF Ticket, Renewed
<1>8. "pending" \in Status
  BY DEF Status
<1> QED
  BY <1>1, <1>2, <1>3, <1>4, <1>5, <1>6, <1>7, <1>8 DEF WithStatus, WithDeps, ClaimCleared

-----------------------------------------------------------------------------
(* The control points of a process are told apart by pc.                   *)

(* What a well-formed job holds, by the step it is at. *)
LEMMA JobTypes ==
  ASSUME NEW j \in Job
  PROVE  /\ j.pc = "write" => j \in WriteJob
         /\ j.pc = "sweep" => j \in SweepJob
         /\ j.pc = "retry" => j.task \in Tasks
         /\ j.pc = "verify" => j.task \in Tasks /\ j.seen \in Task
         /\ j.pc = "persist" => j.task \in Tasks /\ j.put \in Task
         /\ j.pc = "compile" => j \in [pc : {"compile"}, plan : SUBSET Tasks, todo : SUBSET Tasks]
         /\ j.pc = "scan" => j.plan \in SUBSET Tasks
         /\ j.pc = "orphans" => j \in [pc : {"orphans"}, todo : SUBSET Tasks]
BY DEF Job, WriteJob, SweepJob, Idle

(* A process that takes up a well-formed job leaves all jobs well formed. *)
LEMMA BecomeType ==
  ASSUME TypeOK, NEW p \in Procs, NEW j \in Job, Become(p, j)
  PROVE  job' \in [Procs -> Job]
BY DEF TypeOK, Become

(* A sweep of any tasks is a well-formed job to go on with. *)
LEMMA SweepType ==
  ASSUME NEW ts \in SUBSET Tasks, NEW c \in Nat
  PROVE  Sweep(ts, c) \in {Idle} \cup SweepJob
BY DEF Sweep, SweepJob

(* Giving up the locks of a process leaves the locks typed. *)
LEMMA UnlockedType ==
  ASSUME TypeOK, NEW p \in Procs, Unlocked(p)
  PROVE  lock' \in [Tasks -> Procs \cup {NoProc}]
BY DEF TypeOK, Unlocked

(* Every locked operation prepares a typed write. *)
LEMMA PrepareType ==
  ASSUME TypeOK, NEW p \in Procs, NEW t \in Tasks, NEW op \in LockedOps,
         NEW buf \in Ticket, NEW o \in Owners \cup {NoOwner}, NEW u \in Nat,
         NEW then \in {Idle} \cup SweepJob,
         Prepare(p, t, op, buf, o, u, then)
  PROVE  TypeOK'
<1> DEFINE j == [pc |-> "write", op |-> op, task |-> t, seen |-> file[t], buf |-> buf,
                 owner |-> o, until |-> u, then |-> then]
<1>1. file[t] \in Ticket \cup {NoFile}
  BY DEF TypeOK
<1>2. j \in WriteJob
  BY <1>1 DEF WriteJob
<1>3. j \in Job
  BY <1>2 DEF Job
<1>4. job' \in [Procs -> Job]
  BY <1>3, BecomeType DEF Prepare
<1> QED
  BY <1>4 DEF TypeOK, Prepare
-----------------------------------------------------------------------------
(* Every action keeps the types.                                           *)

(* A file that exists holds a ticket. *)
LEMMA ReadType ==
  ASSUME TypeOK, NEW t \in Tasks, Exists(file, t)
  PROVE  file[t] \in Ticket
BY DEF TypeOK, Exists

(* The write, its failure and the crash end a step of p. *)
LEMMA FinishType ==
  ASSUME TypeOK, NEW p \in Procs, WriteAndUnlock(p) \/ WriteFails(p) \/ Crash(p)
  PROVE  TypeOK'
<1> DEFINE j == job[p]
<1>1. j \in Job /\ Idle \in Job
  BY DEF TypeOK, Job
<1>2. j.pc = "write" => j \in WriteJob /\ j.then \in Job
  BY <1>1, JobTypes DEF WriteJob, Job
<1>3. CASE WriteAndUnlock(p)
  <2>1. j \in WriteJob /\ j.then \in Job
    BY <1>2, <1>3 DEF WriteAndUnlock
  <2>2. job' \in [Procs -> Job] /\ lock' \in [Tasks -> Procs \cup {NoProc}]
    BY <1>3, <2>1, BecomeType, UnlockedType DEF WriteAndUnlock
  <2>3. file' \in [Tasks -> Ticket \cup {NoFile}]
    BY <1>3, <2>1 DEF TypeOK, WriteAndUnlock, WriteJob
  <2>4. nominal' \in [Owners -> [Tasks -> Nat]]
    BY <1>3, <2>1 DEF TypeOK, WriteAndUnlock, WriteJob
  <2> QED
    BY <1>3, <2>2, <2>3, <2>4 DEF TypeOK, WriteAndUnlock
<1>4. CASE WriteFails(p)
  <2>1. job' \in [Procs -> Job] /\ lock' \in [Tasks -> Procs \cup {NoProc}]
    BY <1>2, <1>4, BecomeType, UnlockedType DEF WriteFails
  <2> QED
    BY <1>4, <2>1 DEF TypeOK, WriteFails
<1>5. CASE Crash(p)
  <2>1. job' \in [Procs -> Job] /\ lock' \in [Tasks -> Procs \cup {NoProc}]
    BY <1>1, <1>5, BecomeType, UnlockedType DEF Crash
  <2> QED
    BY <1>5, <2>1 DEF TypeOK, Crash
<1> QED
  BY <1>3, <1>4, <1>5

(* ClaimTask and RenewClaim keep the types. *)
LEMMA ClaimType ==
  ASSUME TypeOK, NEW p \in Procs, NEW t \in Tasks, NEW o \in Owners, NEW d \in Leases,
         ClaimTask(p, t, o, d) \/ RenewClaim(p, t, o, d)
  PROVE  TypeOK'
<1>1. file[t] \in Ticket /\ now + d \in Nat
  BY ReadType DEF ClaimTask, RenewClaim, TypeOK
<1>2. SetClaim(file[t], o, now + d) \in Ticket /\ Renewed(file[t], now + d) \in Ticket
  BY <1>1, FileTypes
<1>3. "claim" \in LockedOps /\ "renew" \in LockedOps
  BY DEF LockedOps
<1> QED
  BY <1>1, <1>2, <1>3, PrepareType DEF ClaimTask, RenewClaim

(* ReleaseClaim keeps the types. *)
LEMMA ReleaseType ==
  ASSUME TypeOK, NEW p \in Procs, NEW t \in Tasks, NEW o \in Owners, NEW s \in Status,
         ReleaseClaim(p, t, o, s)
  PROVE  TypeOK'
<1>1. ReleasedTo(file[t], s) \in Ticket
  BY ReadType, FileTypes DEF ReleaseClaim
<1> QED
  BY <1>1, PrepareType DEF ReleaseClaim, LockedOps

(* The steps of a sweep keep the types. *)
LEMMA ReclaimType ==
  ASSUME TypeOK, NEW p \in Procs, NEW t \in Tasks,
         ReclaimScan(p) \/ ReclaimOne(p, t) \/ ReclaimSkip(p, t)
  PROVE  TypeOK'
<1>1. job[p] \in Job /\ now \in Nat
  BY DEF TypeOK
<1>2. job[p].pc = "sweep" =>
        /\ job[p] \in SweepJob
        /\ Sweep(job[p].todo \ {t}, job[p].cut) \in {Idle} \cup SweepJob
  <2>1. ASSUME job[p].pc = "sweep"
        PROVE job[p] \in SweepJob /\ job[p].todo \ {t} \in SUBSET Tasks /\ job[p].cut \in Nat
    BY <1>1, <2>1, JobTypes DEF SweepJob
  <2> QED
    BY <2>1, SweepType
<1>3. CASE ReclaimScan(p)
  <2> DEFINE expired == {t1 \in Tasks : Exists(file, t1) /\ Reclaimable(file[t1], now)}
  <2>1. Sweep(expired, now) \in Job
    BY <1>1, SweepType DEF Job
  <2>2. job' \in [Procs -> Job]
    BY <1>3, <2>1, BecomeType DEF ReclaimScan
  <2> QED
    BY <1>3, <2>2 DEF TypeOK, ReclaimScan
<1>4. CASE ReclaimOne(p, t)
  <2>1. ClaimCleared(file[t]) \in Ticket
    BY <1>4, ReadType, FileTypes DEF ReclaimOne
  <2> QED
    BY <1>2, <1>4, <2>1, PrepareType DEF ReclaimOne, LockedOps
<1>5. CASE ReclaimSkip(p, t)
  <2>1. Sweep(job[p].todo \ {t}, job[p].cut) \in Job
    BY <1>2, <1>5 DEF ReclaimSkip, Job
  <2>2. job' \in [Procs -> Job]
    BY <1>5, <2>1, BecomeType DEF ReclaimSkip
  <2> QED
    BY <1>5, <2>2 DEF TypeOK, ReclaimSkip
<1> QED
  BY <1>3, <1>4, <1>5

(* The scan of a sweep keeps the types: it finds at least one task. *)
LEMMA ReclaimTypeScan ==
  ASSUME TypeOK, NEW p \in Procs, ReclaimScan(p)
  PROVE  TypeOK'
<1> PICK t \in Tasks : TRUE
  BY DEF ReclaimScan
<1> QED
  BY ReclaimType

(* Every rewrite of a file by a well-formed ticket keeps the types. *)
LEMMA RewriteType ==
  ASSUME TypeOK, NEW p \in Procs, NEW t \in Tasks, NEW op \in LockedOps,
         NEW buf \in Ticket, Rewrite(p, t, op, buf)
  PROVE  TypeOK'
<1> Idle \in {Idle} \cup SweepJob
  OBVIOUS
<1> QED
  BY PrepareType DEF Rewrite

(* UpdateStatus keeps the types. *)
LEMMA UpdateStatusType ==
  ASSUME TypeOK, NEW p \in Procs, NEW t \in Tasks, NEW s \in Status, UpdateStatus(p, t, s)
  PROVE  TypeOK'
BY ReadType, FileTypes, RewriteType DEF UpdateStatus, LockedOps

(* AddNote keeps the types. *)
LEMMA AddNoteType ==
  ASSUME TypeOK, NEW p \in Procs, NEW t \in Tasks, AddNote(p, t)
  PROVE  TypeOK'
BY ReadType, RewriteType DEF AddNote, LockedOps

(* AddDep and RemoveDep keep the types. *)
LEMMA DepType ==
  ASSUME TypeOK, NEW p \in Procs, NEW t \in Tasks, NEW d \in Tasks,
         AddDep(p, t, d) \/ RemoveDep(p, t, d)
  PROVE  TypeOK'
<1>1. file[t] \in Ticket
  BY ReadType DEF AddDep, RemoveDep
<1>2. file[t].deps \cup {d} \in SUBSET Tasks /\ file[t].deps \ {d} \in SUBSET Tasks
  BY <1>1 DEF Ticket
<1>3. /\ WithDeps(file[t], file[t].deps \cup {d}) \in Ticket
      /\ WithDeps(file[t], file[t].deps \ {d}) \in Ticket
  BY <1>1, <1>2, FileTypes
<1> QED
  BY <1>3, RewriteType DEF AddDep, RemoveDep, LockedOps

(* Both steps of RetryTask keep the types. *)
LEMMA RetryType ==
  ASSUME TypeOK, NEW p \in Procs, NEW t \in Tasks, RetryCheck(p, t) \/ RetryUpdate(p)
  PROVE  TypeOK'
<1>1. CASE RetryCheck(p, t)
  <2>1. [pc |-> "retry", task |-> t] \in Job
    BY DEF Job
  <2>2. job' \in [Procs -> Job]
    BY <1>1, <2>1, BecomeType DEF RetryCheck
  <2> QED
    BY <1>1, <2>2 DEF TypeOK, RetryCheck
<1>2. CASE RetryUpdate(p)
  <2>1. job[p].task \in Tasks /\ Idle \in Job
    BY <1>2, JobTypes DEF TypeOK, RetryUpdate, Job
  <2>2. CASE Exists(file, job[p].task)
    <3>1. WithStatus(file[job[p].task], "pending") \in Ticket
      BY <2>1, <2>2, ReadType, FileTypes DEF Status
    <3> QED
      BY <1>2, <2>1, <2>2, <3>1, RewriteType DEF RetryUpdate, LockedOps
  <2>3. CASE ~Exists(file, job[p].task)
    <3>1. job' \in [Procs -> Job]
      BY <1>2, <2>1, <2>3, BecomeType DEF RetryUpdate
    <3> QED
      BY <1>2, <2>3, <3>1 DEF TypeOK, RetryUpdate
  <2> QED
    BY <2>2, <2>3
<1> QED
  BY <1>1, <1>2

(* The three steps of VerifyTask keep the types. *)
LEMMA VerifyType ==
  ASSUME TypeOK, NEW p \in Procs, NEW t \in Tasks, NEW v \in {"done", "blocked"},
         VerifyStart(p, t) \/ PersistRead(p, v) \/ PersistWrite(p)
  PROVE  TypeOK'
<1>1. job[p] \in Job
  BY DEF TypeOK
<1>2. CASE VerifyStart(p, t)
  <2>1. [pc |-> "verify", task |-> t, seen |-> AsTask(file[t])] \in Job
    BY <1>2, ReadType, FileTypes DEF VerifyStart, Job
  <2>2. job' \in [Procs -> Job]
    BY <1>2, <2>1, BecomeType DEF VerifyStart
  <2> QED
    BY <1>2, <2>2 DEF TypeOK, VerifyStart
<1>3. CASE PersistRead(p, v)
  <2> DEFINE t0 == job[p].task
             task == IF Exists(file, t0) THEN AsTask(file[t0]) ELSE job[p].seen
             put == [task EXCEPT !.status = v]
  <2>1. t0 \in Tasks /\ job[p].seen \in Task
    BY <1>1, <1>3, JobTypes DEF PersistRead
  <2>2. task \in Task
    BY <2>1, ReadType, FileTypes
  <2>3. put \in Task
    BY <2>2 DEF Task, Status
  <2>4. [pc |-> "persist", task |-> t0, put |-> put] \in Job
    BY <2>1, <2>3 DEF Job
  <2>5. job' \in [Procs -> Job]
    BY <1>3, <2>4, BecomeType DEF PersistRead
  <2> QED
    BY <1>3, <2>5 DEF TypeOK, PersistRead
<1>4. CASE PersistWrite(p)
  <2> DEFINE t0 == job[p].task
             put == job[p].put
             buf == IF Exists(file, t0) THEN UpdateFrontmatter(file[t0], put)
                    ELSE Unclaimed(put)
  <2>1. t0 \in Tasks /\ put \in Task
    BY <1>1, <1>4, JobTypes DEF PersistWrite
  <2>2. Unclaimed(put) \in Ticket
    BY <2>1 DEF Unclaimed, Task, Ticket
  <2>3. buf \in Ticket
    BY <2>1, <2>2, ReadType, FileTypes
  <2>4. Rewrite(p, t0, "put", buf)
    BY <1>4 DEF PersistWrite
  <2> QED
    BY <2>1, <2>3, <2>4, RewriteType DEF LockedOps
<1> QED
  BY <1>2, <1>3, <1>4

(* The steps of WriteTasks keep the types. *)
LEMMA CompileType ==
  ASSUME TypeOK, NEW p \in Procs, NEW t \in Tasks, NEW plan \in SUBSET Tasks,
         CompileStart(p, plan) \/ CompileWrite(p, t) \/ OrphanScan(p) \/ OrphanRemove(p, t)
  PROVE  TypeOK'
<1>1. job[p] \in Job /\ Idle \in Job
  BY DEF TypeOK, Job
<1>2. CASE CompileStart(p, plan)
  <2>1. [pc |-> "compile", plan |-> plan, todo |-> plan] \in Job
    BY DEF Job
  <2>2. job' \in [Procs -> Job]
    BY <1>2, <2>1, BecomeType DEF CompileStart
  <2> QED
    BY <1>2, <2>2 DEF TypeOK, CompileStart
<1>3. CASE CompileWrite(p, t)
  <2>1. job[p] \in [pc : {"compile"}, plan : SUBSET Tasks, todo : SUBSET Tasks]
    BY <1>1, <1>3, JobTypes DEF CompileWrite
  <2>2. [pc |-> "scan", plan |-> job[p].plan] \in Job
    BY <2>1 DEF Job
  <2>3. [job[p] EXCEPT !.todo = @ \ {t}] \in Job
    BY <2>1 DEF Job
  <2>4. job' \in [Procs -> Job]
    BY <1>3, <2>2, <2>3, BecomeType DEF CompileWrite
  <2>5. Unclaimed([status |-> "pending", deps |-> PlanDeps[t] \cap job[p].plan]) \in Ticket
    BY <2>1 DEF Unclaimed, Ticket, Status
  <2> QED
    BY <1>3, <2>4, <2>5 DEF TypeOK, CompileWrite
<1>4. CASE OrphanScan(p)
  <2> DEFINE old == {t1 \in Tasks \ job[p].plan : Exists(file, t1)}
  <2>1. [pc |-> "orphans", todo |-> old] \in Job
    BY DEF Job
  <2>2. job' \in [Procs -> Job]
    BY <1>1, <1>4, <2>1, BecomeType DEF OrphanScan
  <2> QED
    BY <1>4, <2>2 DEF TypeOK, OrphanScan
<1>5. CASE OrphanRemove(p, t)
  <2>1. job[p] \in [pc : {"orphans"}, todo : SUBSET Tasks]
    BY <1>1, <1>5, JobTypes DEF OrphanRemove
  <2>2. [job[p] EXCEPT !.todo = @ \ {t}] \in Job
    BY <2>1 DEF Job
  <2>3. job' \in [Procs -> Job]
    BY <1>1, <1>5, <2>2, BecomeType DEF OrphanRemove
  <2> QED
    BY <1>5, <2>3 DEF TypeOK, OrphanRemove
<1> QED
  BY <1>2, <1>3, <1>4, <1>5
(* Every step of either specification keeps the types. *)
LEMMA StepType == TypeOK /\ [Next]_vars => TypeOK'
<1> SUFFICES ASSUME TypeOK, [Next]_vars
             PROVE  TypeOK'
  OBVIOUS
<1>1. CASE UNCHANGED vars
  BY <1>1 DEF TypeOK, vars
<1>2. CASE Tick
  BY <1>2 DEF TypeOK, Tick
<1>3. ASSUME NEW p \in Procs, ClaimStep(p)
      PROVE  TypeOK'
  <2> SUFFICES ASSUME ~(WriteAndUnlock(p) \/ WriteFails(p) \/ Crash(p)), ~ReclaimScan(p)
               PROVE  TypeOK'
    BY FinishType, ReclaimTypeScan
  <2>1. CASE \E t \in Tasks, o \in Owners, d \in Leases :
                ClaimTask(p, t, o, d) \/ RenewClaim(p, t, o, d)
    BY <2>1, ClaimType
  <2>2. CASE \E t \in Tasks, o \in Owners, s \in ReleaseStatuses : ReleaseClaim(p, t, o, s)
    BY <2>2, ReleaseType
  <2>3. CASE \E t \in Tasks : ReclaimOne(p, t) \/ ReclaimSkip(p, t)
    BY <2>3, ReclaimType
  <2>4. CASE \E t \in Tasks, o \in Owners, s \in SetStatuses \cap Active :
                nominal[o][t] # 0 /\ UpdateStatus(p, t, s)
    BY <2>4, UpdateStatusType
  <2>5. CASE \E t \in Tasks : AddNote(p, t)
    BY <2>5, AddNoteType
  <2>6. CASE \E e \in DepEdits : AddDep(p, e[1], e[2]) \/ RemoveDep(p, e[1], e[2])
    BY <2>6, DepType
  <2> QED
    BY <1>3, <2>1, <2>2, <2>3, <2>4, <2>5, <2>6 DEF ClaimStep
<1>4. ASSUME NEW p \in Procs, EngineStep(p)
      PROVE  TypeOK'
  <2>1. CASE \E t \in Tasks, s \in SetStatuses : UpdateStatus(p, t, s)
    BY <2>1, UpdateStatusType
  <2>2. CASE \E t \in Tasks : RetryCheck(p, t) \/ VerifyStart(p, t)
    BY <2>2, RetryType, VerifyType
  <2>3. CASE RetryUpdate(p) \/ PersistWrite(p) \/ \E v \in {"done", "blocked"} : PersistRead(p, v)
    <3>1. job[p].task \in Tasks
      BY <2>3, JobTypes DEF TypeOK, RetryUpdate, PersistWrite, PersistRead
    <3> QED
      BY <2>3, <3>1, RetryType, VerifyType
  <2>4. CASE \E plan \in (SUBSET Tasks) \ {{}} : CompileStart(p, plan)
    <3>1. PICK plan \in SUBSET Tasks, t \in Tasks : CompileStart(p, plan)
      BY <2>4
    <3> QED
      BY <3>1, CompileType
  <2>5. CASE OrphanScan(p)
    <3>1. CASE Tasks = {}
      BY <2>5, <3>1 DEF OrphanScan, TypeOK, Become, Job
    <3>2. CASE \E t \in Tasks : TRUE
      BY <2>5, <3>2, CompileType
    <3> QED
      BY <3>1, <3>2
  <2>6. CASE \E t \in Tasks : CompileWrite(p, t) \/ OrphanRemove(p, t)
    BY <2>6, CompileType
  <2> QED
    BY <1>4, <2>1, <2>2, <2>3, <2>4, <2>5, <2>6 DEF EngineStep
<1> QED
  BY <1>1, <1>2, <1>3, <1>4 DEF Next

(* The directory starts well typed. *)
LEMMA InitType == Init => TypeOK
<1> SUFFICES ASSUME Init PROVE TypeOK
  OBVIOUS
<1>1. \A t \in Tasks : Unclaimed([status |-> "pending", deps |-> PlanDeps[t]]) \in Ticket
  BY DEF Unclaimed, Ticket, Status
<1> QED
  BY <1>1 DEF Init, TypeOK, Job

(* Type correctness, with every operation of the package in play: what a   *)
(* process carries across its unlocked steps stays well formed.            *)
THEOREM Typing == Spec => []TypeOK
BY InitType, StepType, PTL DEF Spec
-----------------------------------------------------------------------------
(* The invariant of all writers.                                           *)

(* What UpdateFrontmatter and the claim operations leave in a file. *)
Sane(tk) == IF tk.owner = NoOwner THEN tk.expires = 0 ELSE tk.status \in Active

FilesSane == \A t \in Tasks : Exists(file, t) => Sane(file[t])

BufsSane == \A p \in Procs : job[p].pc = "write" => Sane(job[p].buf)

(* A process that is about to write holds the lock of its file. *)
LockHeld == \A p \in Procs : job[p].pc = "write" => lock[job[p].task] = p

(* A sweep compares leases with a time that has passed. *)
CutPast(j) == j.pc = "sweep" => j.cut <= now

CutsPast == \A p \in Procs :
              CutPast(job[p]) /\ (job[p].pc = "write" => CutPast(job[p].then))

(* The task that o may take from its owner, at any later time too. *)
Takeable(t, o) == Exists(file, t) => ~Live(file[t], now) \/ file[t].owner = o

(* A claim or a sweep that passed its check under the lock may still write: *)
(* whoever writes the file without the lock leaves no claim in it.          *)
LeasesEnded ==
  \A p \in Procs :
    job[p].pc = "write" /\ job[p].op \in {"claim", "reclaim"}
    => Takeable(job[p].task, job[p].owner)

StoreInv == /\ TypeOK /\ FilesSane /\ BufsSane
            /\ LockHeld /\ CutsPast /\ LeasesEnded

-----------------------------------------------------------------------------
(* The kinds of steps.                                                     *)

(* p acquires a lock and prepares a write. *)
Prepares(p) ==
  /\ job[p].pc # "write"
  /\ \E t \in Tasks, op \in LockedOps, buf \in Ticket, o \in Owners \cup {NoOwner},
        u \in Nat, then \in {Idle} \cup SweepJob :
        /\ Prepare(p, t, op, buf, o, u, then)
        /\ Sane(buf)
        /\ CutPast(then)
        /\ op \in {"claim", "reclaim"} => Takeable(t, o)

(* p moves on without a lock; files it touches end up without a claim. *)
Unlocks(p) ==
  /\ job[p].pc # "write"
  /\ \E j \in Job : Become(p, j) /\ j.pc # "write" /\ CutPast(j)
  /\ \A t \in Tasks : \/ file'[t] = file[t]
                      \/ file'[t] = NoFile
                      \/ file'[t].owner = NoOwner /\ file'[t].expires = 0
  /\ UNCHANGED <<lock, now>>

(* Whatever an operation writes is sane, a renewal if it was before. *)
LEMMA SaneFiles ==
  ASSUME NEW tk \in Ticket
  PROVE  /\ \A task \in Task : Sane(Unclaimed(task)) /\ Sane(UpdateFrontmatter(tk, task))
         /\ \A s \in Status : Sane(WithStatus(tk, s)) /\ Sane(ReleasedTo(tk, s))
         /\ \A ds \in SUBSET Tasks : Sane(WithDeps(tk, ds))
         /\ \A o \in Owners, u \in Nat : Sane(SetClaim(tk, o, u))
         /\ \A u \in Nat : Sane(tk) /\ tk.owner # NoOwner => Sane(Renewed(tk, u))
         /\ Sane(ClaimCleared(tk))
<1>1. \A task \in Task : Sane(Unclaimed(task)) /\ Sane(UpdateFrontmatter(tk, task))
  BY DEF Ticket, Task, Unclaimed, UpdateFrontmatter, Sane
<1>2. \A s \in Status : Sane(WithStatus(tk, s))
  <2> TAKE s \in Status
  <2>1. [AsTask(tk) EXCEPT !.status = s] \in Task
    BY FileTypes DEF Task
  <2> QED
    BY <1>1, <2>1 DEF WithStatus
<1>3. \A ds \in SUBSET Tasks : Sane(WithDeps(tk, ds))
  <2> TAKE ds \in SUBSET Tasks
  <2>1. [AsTask(tk) EXCEPT !.deps = ds] \in Task
    BY FileTypes DEF Task
  <2> QED
    BY <1>1, <2>1 DEF WithDeps
<1>4. \A s \in Status : Sane(ReleasedTo(tk, s))
  BY DEF Ticket, ReleasedTo, Sane
<1>5. \A o \in Owners, u \in Nat : Sane(SetClaim(tk, o, u))
  BY DEF Ticket, SetClaim, Sane, Active
<1>6. \A u \in Nat : Sane(tk) /\ tk.owner # NoOwner => Sane(Renewed(tk, u))
  BY DEF Ticket, Renewed, Sane
<1>7. Sane(ClaimCleared(tk))
  BY <1>4 DEF ClaimCleared, Status
<1> QED
  BY <1>1, <1>2, <1>3, <1>4, <1>5, <1>6, <1>7

(* A claim or a renewal prepares a write that respects running leases. *)
LEMMA ClaimPrepares ==
  ASSUME StoreInv, NEW p \in Procs, NEW t \in Tasks, NEW o \in Owners, NEW d \in Leases,
         ClaimTask(p, t, o, d) \/ RenewClaim(p, t, o, d)
  PROVE  Prepares(p)
<1>1. file[t] \in Ticket /\ Sane(file[t]) /\ now \in Nat /\ now + d \in Nat
  BY ReadType DEF StoreInv, FilesSane, ClaimTask, RenewClaim, TypeOK
<1>2. CutPast(Idle) /\ Idle.pc # "write"
  BY DEF CutPast, Idle
<1>3. CASE ClaimTask(p, t, o, d)
  <2> DEFINE buf == SetClaim(file[t], o, now + d)
  <2>1. buf \in Ticket /\ Sane(buf)
    BY <1>1, FileTypes, SaneFiles
  <2>2. Takeable(t, o)
    BY <1>1, <1>3 DEF ClaimTask, ClaimEligible, Takeable, Live
  <2> QED
    BY <1>1, <1>2, <1>3, <2>1, <2>2 DEF ClaimTask, Prepares, LockedOps
<1>4. CASE RenewClaim(p, t, o, d)
  <2> DEFINE buf == Renewed(file[t], now + d)
  <2>1. buf \in Ticket /\ Sane(buf)
    BY <1>1, <1>4, FileTypes, SaneFiles DEF RenewClaim
  <2> QED
    BY <1>1, <1>2, <1>4, <2>1 DEF RenewClaim, Prepares, LockedOps
<1> QED
  BY <1>3, <1>4

(* So does every operation that neither claims nor sweeps. *)
LEMMA RewritePrepares ==
  ASSUME NEW p \in Procs, NEW t \in Tasks, NEW op \in LockedOps \ {"claim", "reclaim"},
         NEW buf \in Ticket, NEW o \in Owners \cup {NoOwner}, Sane(buf),
         job[p].pc # "write", Prepare(p, t, op, buf, o, 0, Idle)
  PROVE  Prepares(p)
BY DEF Prepares, CutPast, Idle

(* So does reclaimOne: a lease that ended before the scan stays ended. *)
LEMMA ReclaimPrepares ==
  ASSUME StoreInv, NEW p \in Procs, NEW t \in Tasks, ReclaimOne(p, t)
  PROVE  Prepares(p)
<1> DEFINE then == Sweep(job[p].todo \ {t}, job[p].cut)
<1>1. file[t] \in Ticket /\ now \in Nat /\ job[p] \in SweepJob /\ job[p].cut <= now
  BY ReadType, JobTypes DEF StoreInv, TypeOK, CutsPast, CutPast, ReclaimOne
<1>2. then \in {Idle} \cup SweepJob
  <2>1. job[p].todo \ {t} \in SUBSET Tasks /\ job[p].cut \in Nat
    BY <1>1 DEF SweepJob
  <2> QED
    BY <2>1, SweepType
<1>3. CutPast(then)
  BY <1>1 DEF CutPast, Sweep, Idle
<1>4. Takeable(t, NoOwner)
  <2>1. \A e, n, c \in Nat : e < c /\ c <= n => ~(n < e)
    OBVIOUS
  <2>2. file[t].expires \in Nat /\ job[p].cut \in Nat /\ file[t].expires < job[p].cut
    BY <1>1 DEF Ticket, SweepJob, ReclaimOne, Reclaimable
  <2> QED
    BY <1>1, <2>1, <2>2 DEF Takeable, Live
<1>5. ClaimCleared(file[t]) \in Ticket /\ Sane(ClaimCleared(file[t]))
  BY <1>1, FileTypes, SaneFiles
<1> QED
  BY <1>2, <1>3, <1>4, <1>5 DEF ReclaimOne, Prepares, LockedOps

(* Every step of the claim API is of one of five kinds. *)
LEMMA ClaimStepKinds ==
  ASSUME StoreInv, NEW p \in Procs, ClaimStep(p)
  PROVE  Prepares(p) \/ Unlocks(p) \/ WriteAndUnlock(p) \/ WriteFails(p) \/ Crash(p)
<1> USE DEF StoreInv
<1>0. job[p] \in Job /\ now \in Nat
  BY DEF TypeOK
<1>1. CASE \E t \in Tasks, o \in Owners, d \in Leases :
              ClaimTask(p, t, o, d) \/ RenewClaim(p, t, o, d)
  BY <1>1, ClaimPrepares
<1>2. ASSUME NEW t \in Tasks, NEW o \in Owners, NEW s \in ReleaseStatuses,
             ReleaseClaim(p, t, o, s)
      PROVE  Prepares(p)
  <2>1. file[t] \in Ticket /\ s \in Status
    BY <1>2, ReadType DEF ReleaseClaim
  <2>2. ReleasedTo(file[t], s) \in Ticket /\ Sane(ReleasedTo(file[t], s))
    BY <2>1, FileTypes, SaneFiles
  <2> QED
    BY <1>2, <2>2, RewritePrepares DEF ReleaseClaim, LockedOps, Idle
<1>3. CASE ReclaimScan(p)
  <2> DEFINE expired == {t1 \in Tasks : Exists(file, t1) /\ Reclaimable(file[t1], now)}
  <2>1. Sweep(expired, now) \in Job /\ Sweep(expired, now).pc # "write"
    BY <1>0, SweepType DEF Job, Sweep, Idle
  <2>2. CutPast(Sweep(expired, now))
    BY <1>0 DEF CutPast, Sweep, Idle
  <2> QED
    BY <1>3, <2>1, <2>2 DEF ReclaimScan, Unlocks, Idle
<1>4. ASSUME NEW t \in Tasks, ReclaimOne(p, t) \/ ReclaimSkip(p, t)
      PROVE  Prepares(p) \/ Unlocks(p)
  <2> DEFINE then == Sweep(job[p].todo \ {t}, job[p].cut)
  <2>1. CASE ReclaimSkip(p, t)
    <3>1. job[p] \in SweepJob /\ job[p].cut <= now
      BY <1>0, <2>1, JobTypes DEF CutsPast, CutPast, ReclaimSkip
    <3>2. job[p].todo \ {t} \in SUBSET Tasks /\ job[p].cut \in Nat
      BY <3>1 DEF SweepJob
    <3>3. then \in Job
      BY <3>2, SweepType DEF Job
    <3>4. then.pc # "write" /\ CutPast(then)
      BY <3>1 DEF CutPast, Sweep, Idle
    <3> QED
      BY <2>1, <3>3, <3>4 DEF ReclaimSkip, Unlocks
  <2> QED
    BY <1>4, <2>1, ReclaimPrepares
<1>5. ASSUME NEW t \in Tasks, NEW s \in SetStatuses, UpdateStatus(p, t, s)
      PROVE  Prepares(p)
  <2>1. file[t] \in Ticket /\ s \in Status
    BY <1>5, ReadType DEF UpdateStatus
  <2>2. WithStatus(file[t], s) \in Ticket /\ Sane(WithStatus(file[t], s))
    BY <2>1, FileTypes, SaneFiles
  <2> QED
    BY <1>5, <2>2, RewritePrepares DEF UpdateStatus, Rewrite, LockedOps, Idle
<1>6. ASSUME NEW t \in Tasks, AddNote(p, t)
      PROVE  Prepares(p)
  <2>1. file[t] \in Ticket /\ Sane(file[t])
    BY <1>6, ReadType DEF AddNote, FilesSane
  <2> QED
    BY <1>6, <2>1, RewritePrepares DEF AddNote, Rewrite, LockedOps, Idle
<1>7. ASSUME NEW t \in Tasks, NEW d \in Tasks, AddDep(p, t, d) \/ RemoveDep(p, t, d)
      PROVE  Prepares(p)
  <2>1. file[t] \in Ticket
    BY <1>7, ReadType DEF AddDep, RemoveDep
  <2>2. file[t].deps \cup {d} \in SUBSET Tasks /\ file[t].deps \ {d} \in SUBSET Tasks
    BY <2>1 DEF Ticket
  <2>3. \A ds \in SUBSET Tasks : WithDeps(file[t], ds) \in Ticket /\ Sane(WithDeps(file[t], ds))
    BY <2>1, FileTypes, SaneFiles
  <2> QED
    BY <1>7, <2>2, <2>3, RewritePrepares DEF AddDep, RemoveDep, Rewrite, LockedOps, Idle
<1>8. ASSUME NEW e \in DepEdits, AddDep(p, e[1], e[2]) \/ RemoveDep(p, e[1], e[2])
      PROVE  Prepares(p)
  BY <1>7, <1>8
<1> QED
  BY <1>1, <1>2, <1>3, <1>4, <1>5, <1>6, <1>8 DEF ClaimStep

(* Every other step prepares a write or works without a lock. *)
LEMMA EngineStepKinds ==
  ASSUME StoreInv, NEW p \in Procs, EngineStep(p)
  PROVE  Prepares(p) \/ Unlocks(p)
<1> USE DEF StoreInv
<1>0. job[p] \in Job /\ job' \in [Procs -> Job]
  <2>1. TypeOK'
    BY StepType DEF Next
  <2> QED
    BY <2>1 DEF TypeOK
<1>1. ASSUME NEW t \in Tasks, NEW s \in Status, NEW op \in {"status", "retry"},
             Exists(file, t), job[p].pc # "write", Rewrite(p, t, op, WithStatus(file[t], s))
      PROVE  Prepares(p)
  <2>1. file[t] \in Ticket
    BY <1>1, ReadType
  <2>2. WithStatus(file[t], s) \in Ticket /\ Sane(WithStatus(file[t], s))
    BY <2>1, FileTypes, SaneFiles
  <2> QED
    BY <1>1, <2>2, RewritePrepares DEF Rewrite, LockedOps
<1>2. CASE \E t \in Tasks, s \in SetStatuses : UpdateStatus(p, t, s)
  BY <1>1, <1>2 DEF UpdateStatus, Idle
<1>3. ASSUME NEW j, Become(p, j), job[p].pc # "write", j.pc \notin {"write", "sweep"},
             UNCHANGED <<file, lock, now>>
      PROVE  Unlocks(p)
  <2>1. j \in Job
    BY <1>0, <1>3 DEF Become, TypeOK
  <2> QED
    BY <1>3, <2>1 DEF Unlocks, CutPast
<1>4. CASE \E t \in Tasks : RetryCheck(p, t) \/ VerifyStart(p, t)
  BY <1>3, <1>4 DEF RetryCheck, VerifyStart, Idle
<1>5. CASE RetryUpdate(p)
  <2>1. job[p].task \in Tasks
    BY <1>0, <1>5, JobTypes DEF RetryUpdate
  <2>2. CASE Exists(file, job[p].task)
    BY <1>1, <1>5, <2>1, <2>2 DEF RetryUpdate, Status
  <2>3. CASE ~Exists(file, job[p].task)
    BY <1>3, <1>5, <2>3 DEF RetryUpdate, Idle
  <2> QED
    BY <2>2, <2>3
<1>6. CASE PersistWrite(p)
  <2> DEFINE t0 == job[p].task
             put == job[p].put
             buf == IF Exists(file, t0) THEN UpdateFrontmatter(file[t0], put)
                    ELSE Unclaimed(put)
  <2>1. t0 \in Tasks /\ put \in Task
    BY <1>0, <1>6, JobTypes DEF PersistWrite
  <2>2. Unclaimed(put) \in Ticket /\ Sane(Unclaimed(put))
    BY <2>1 DEF Unclaimed, Task, Ticket, Sane
  <2>3. buf \in Ticket /\ Sane(buf)
    BY <2>1, <2>2, ReadType, FileTypes, SaneFiles
  <2>4. Prepare(p, t0, "put", buf, NoOwner, 0, Idle)
    BY <1>6 DEF PersistWrite, Rewrite
  <2> QED
    BY <1>6, <2>1, <2>3, <2>4, RewritePrepares DEF PersistWrite, LockedOps
<1>7. CASE \E v \in {"done", "blocked"} : PersistRead(p, v)
  BY <1>3, <1>7 DEF PersistRead
<1>8. CASE \E plan \in (SUBSET Tasks) \ {{}} : CompileStart(p, plan)
  BY <1>3, <1>8 DEF CompileStart, Idle
<1>9. CASE OrphanScan(p)
  BY <1>3, <1>9 DEF OrphanScan, Idle
<1>10. ASSUME NEW t \in Tasks, CompileWrite(p, t) \/ OrphanRemove(p, t)
       PROVE  Unlocks(p)
  <2>1. CASE CompileWrite(p, t)
    <3> DEFINE j == IF job[p].todo = {t} THEN [pc |-> "scan", plan |-> job[p].plan]
                    ELSE [job[p] EXCEPT !.todo = @ \ {t}]
    <3>1. job[p] \in [pc : {"compile"}, plan : SUBSET Tasks, todo : SUBSET Tasks]
      BY <1>0, <2>1, JobTypes DEF CompileWrite
    <3>2. j \in Job /\ j.pc # "write" /\ CutPast(j)
      BY <3>1 DEF Job, CutPast
    <3>3. \A t1 \in Tasks : \/ file'[t1] = file[t1]
                            \/ file'[t1].owner = NoOwner /\ file'[t1].expires = 0
      BY <2>1 DEF CompileWrite, TypeOK, Unclaimed
    <3>4. Become(p, j) /\ job[p].pc # "write" /\ UNCHANGED <<lock, now>>
      BY <2>1 DEF CompileWrite
    <3> QED
      BY <3>2, <3>3, <3>4 DEF Unlocks
  <2>2. CASE OrphanRemove(p, t)
    <3> DEFINE j == IF job[p].todo = {t} THEN Idle ELSE [job[p] EXCEPT !.todo = @ \ {t}]
    <3>1. job[p] \in [pc : {"orphans"}, todo : SUBSET Tasks]
      BY <1>0, <2>2, JobTypes DEF OrphanRemove
    <3>2. j \in Job /\ j.pc # "write" /\ CutPast(j)
      BY <3>1 DEF Job, CutPast, Idle
    <3>3. \A t1 \in Tasks : file'[t1] = file[t1] \/ file'[t1] = NoFile
      BY <2>2 DEF OrphanRemove, TypeOK
    <3>4. Become(p, j) /\ job[p].pc # "write" /\ UNCHANGED <<lock, now>>
      BY <2>2 DEF OrphanRemove
    <3> QED
      BY <3>2, <3>3, <3>4 DEF Unlocks
  <2> QED
    BY <1>10, <2>1, <2>2
<1> QED
  BY <1>2, <1>4, <1>5, <1>6, <1>7, <1>8, <1>9, <1>10 DEF EngineStep
-----------------------------------------------------------------------------
(* Each kind of step keeps the invariant.                                  *)

(* Preparing a write keeps the invariant. *)
LEMMA PreparesInv ==
  ASSUME StoreInv, TypeOK', NEW p \in Procs, Prepares(p)
  PROVE  StoreInv'
<1> USE DEF StoreInv
<1>1. PICK t \in Tasks, op \in LockedOps, buf \in Ticket, o \in Owners \cup {NoOwner},
           u \in Nat, then \in {Idle} \cup SweepJob :
        /\ Prepare(p, t, op, buf, o, u, then)
        /\ Sane(buf)
        /\ CutPast(then)
        /\ op \in {"claim", "reclaim"} => Takeable(t, o)
  BY DEF Prepares
<1> DEFINE j == [pc |-> "write", op |-> op, task |-> t, seen |-> file[t], buf |-> buf,
                 owner |-> o, until |-> u, then |-> then]
<1>2. /\ lock[t] = NoProc
      /\ lock' = [lock EXCEPT ![t] = p]
      /\ job' = [job EXCEPT ![p] = j]
      /\ UNCHANGED <<file, now>>
  BY <1>1 DEF Prepare, Become
<1>3. job'[p] = j /\ \A q \in Procs \ {p} : job'[q] = job[q]
  BY <1>2 DEF TypeOK
<1>4. FilesSane'
  BY <1>2 DEF FilesSane, Exists, Sane
<1>5. BufsSane'
  <2>1. Sane(j.buf)
    BY <1>1
  <2> QED
    BY <1>3, <2>1 DEF BufsSane, Sane
<1>6. LockHeld'
  <2> SUFFICES ASSUME NEW q \in Procs, job'[q].pc = "write"
               PROVE  lock'[job'[q].task] = q
    BY DEF LockHeld
  <2>1. CASE q = p
    BY <1>2, <1>3, <2>1 DEF TypeOK
  <2>2. CASE q # p
    <3>1. job'[q] = job[q] /\ lock[job[q].task] = q
      BY <1>3, <2>2 DEF LockHeld
    <3>2. job[q].task # t
      BY <1>2, <3>1
    <3> QED
      BY <1>2, <3>1, <3>2 DEF TypeOK
  <2> QED
    BY <2>1, <2>2
<1>7. CutsPast'
  BY <1>1, <1>2, <1>3 DEF CutsPast, CutPast
<1>8. LeasesEnded'
  <2> SUFFICES ASSUME NEW q \in Procs, job'[q].pc = "write",
                      job'[q].op \in {"claim", "reclaim"}
               PROVE  Takeable(job[q].task, job[q].owner)'
    BY DEF LeasesEnded
  <2>1. Takeable(job'[q].task, job'[q].owner)
    BY <1>1, <1>3 DEF LeasesEnded
  <2> QED
    BY <1>2, <2>1 DEF Takeable, Exists, Live
<1> QED
  BY <1>4, <1>5, <1>6, <1>7, <1>8

(* A step without a lock keeps the invariant. *)
LEMMA UnlocksInv ==
  ASSUME StoreInv, TypeOK', NEW p \in Procs, Unlocks(p)
  PROVE  StoreInv'
<1> USE DEF StoreInv
<1>1. PICK j \in Job : Become(p, j) /\ j.pc # "write" /\ CutPast(j)
  BY DEF Unlocks
<1>2. /\ job'[p] = j
      /\ \A q \in Procs \ {p} : job'[q] = job[q]
      /\ UNCHANGED <<lock, now>>
  BY <1>1 DEF Unlocks, Become, TypeOK
<1>3. \A t \in Tasks : \/ file'[t] = file[t]
                       \/ file'[t] = NoFile
                       \/ file'[t].owner = NoOwner /\ file'[t].expires = 0
  BY DEF Unlocks
<1>4. FilesSane'
  BY <1>3 DEF FilesSane, Exists, Sane
<1>5. BufsSane'
  BY <1>1, <1>2 DEF BufsSane
<1>6. LockHeld'
  BY <1>1, <1>2 DEF LockHeld
<1>7. CutsPast'
  BY <1>1, <1>2 DEF CutsPast, CutPast
<1>8. LeasesEnded'
  <2> SUFFICES ASSUME NEW q \in Procs, job'[q].pc = "write",
                      job'[q].op \in {"claim", "reclaim"}
               PROVE  Takeable(job[q].task, job[q].owner)'
    BY DEF LeasesEnded
  <2>1. job'[q] = job[q] /\ Takeable(job[q].task, job[q].owner)
    BY <1>1, <1>2 DEF LeasesEnded
  <2>2. job[q].task \in Tasks
    BY <1>1, <1>2, JobTypes DEF TypeOK, WriteJob
  <2> QED
    BY <1>2, <1>3, <2>1, <2>2 DEF Takeable, Exists, Live
<1> QED
  BY <1>4, <1>5, <1>6, <1>7, <1>8

(* A write, its failure and a crash keep the invariant. *)
LEMMA FinishInv ==
  ASSUME StoreInv, TypeOK', NEW p \in Procs,
         WriteAndUnlock(p) \/ WriteFails(p) \/ Crash(p)
  PROVE  StoreInv'
<1> USE DEF StoreInv
<1>0. job[p] \in Job
  BY DEF TypeOK
<1>1. PICK j : /\ Become(p, j) /\ Unlocked(p) /\ UNCHANGED now
               /\ j = Idle \/ (job[p].pc = "write" /\ j = job[p].then)
  BY DEF WriteAndUnlock, WriteFails, Crash
<1>2. j.pc # "write" /\ CutPast(j)
  <2>1. CASE j = Idle
    BY <2>1 DEF Idle, CutPast
  <2>2. CASE job[p].pc = "write" /\ j = job[p].then
    BY <1>0, <2>2, JobTypes DEF WriteJob, SweepJob, Idle, CutsPast
  <2> QED
    BY <1>1, <2>1, <2>2
<1>3. job'[p] = j /\ \A q \in Procs \ {p} : job'[q] = job[q]
  BY <1>1 DEF Become, TypeOK
<1>4. \A t \in Tasks : \/ file'[t] = file[t]
                       \/ job[p].pc = "write" /\ t = job[p].task /\ file'[t] = job[p].buf
  BY DEF WriteAndUnlock, WriteFails, Crash, TypeOK
<1>5. FilesSane'
  BY <1>4 DEF FilesSane, BufsSane, Exists, Sane
<1>6. BufsSane'
  BY <1>2, <1>3 DEF BufsSane
<1>7. \A q \in Procs : job'[q].pc = "write" =>
         /\ q # p /\ job'[q] = job[q] /\ job[q].task \in Tasks
         /\ lock[job[q].task] = q
  <2> SUFFICES ASSUME NEW q \in Procs, job'[q].pc = "write"
               PROVE  /\ q # p /\ job'[q] = job[q] /\ job[q].task \in Tasks
                      /\ lock[job[q].task] = q
    OBVIOUS
  <2>1. q # p /\ job'[q] = job[q]
    BY <1>2, <1>3
  <2> QED
    BY <2>1, JobTypes DEF TypeOK, WriteJob, LockHeld
<1>8. LockHeld'
  BY <1>1, <1>7 DEF LockHeld, Unlocked
<1>9. CutsPast'
  BY <1>1, <1>2, <1>3 DEF CutsPast, CutPast
<1>10. LeasesEnded'
  <2> SUFFICES ASSUME NEW q \in Procs, job'[q].pc = "write",
                      job'[q].op \in {"claim", "reclaim"}
               PROVE  Takeable(job[q].task, job[q].owner)'
    BY DEF LeasesEnded
  <2>1. job'[q] = job[q] /\ Takeable(job[q].task, job[q].owner)
    BY <1>7 DEF LeasesEnded
  <2>2. file'[job[q].task] = file[job[q].task]
    BY <1>4, <1>7 DEF LockHeld
  <2> QED
    BY <1>1, <2>1, <2>2 DEF Takeable, Exists, Live
<1> QED
  BY <1>5, <1>6, <1>8, <1>9, <1>10

(* The clock keeps the invariant: ended leases stay ended. *)
LEMMA TickInv ==
  ASSUME StoreInv, TypeOK', Tick
  PROVE  StoreInv'
<1> USE DEF StoreInv
<1>0. now \in Nat /\ now' = now + 1 /\ UNCHANGED <<file, lock, job>>
  BY DEF Tick, TypeOK
<1>1. FilesSane' /\ BufsSane' /\ LockHeld'
  BY <1>0 DEF FilesSane, BufsSane, LockHeld, Exists, Sane
<1>2. CutsPast'
  <2>1. \A j \in Job \cup SweepJob : CutPast(j) => CutPast(j)'
    <3> SUFFICES ASSUME NEW j \in Job \cup SweepJob, j.pc = "sweep", j.cut <= now
                 PROVE  j.cut <= now'
      BY DEF CutPast
    <3>1. j.cut \in Nat
      BY JobTypes DEF SweepJob
    <3> QED
      BY <1>0, <3>1
  <2>2. \A p \in Procs : job[p] \in Job /\ (job[p].pc = "write" => job[p].then \in Job)
    BY JobTypes DEF TypeOK, WriteJob, Job
  <2> QED
    BY <1>0, <2>1, <2>2 DEF CutsPast
<1>3. LeasesEnded'
  <2> SUFFICES ASSUME NEW q \in Procs, job[q].pc = "write",
                      job[q].op \in {"claim", "reclaim"}
               PROVE  Takeable(job[q].task, job[q].owner)'
    BY <1>0 DEF LeasesEnded
  <2> DEFINE t == job[q].task
  <2>1. Takeable(t, job[q].owner) /\ t \in Tasks
    BY JobTypes DEF LeasesEnded, TypeOK, WriteJob
  <2>2. Exists(file, t) => file[t].expires \in Nat
    BY <2>1, ReadType DEF Ticket
  <2>3. \A e, n \in Nat : ~(n < e) => ~(n + 1 < e)
    OBVIOUS
  <2> QED
    BY <1>0, <2>1, <2>2, <2>3 DEF Takeable, Exists, Live
<1> QED
  BY <1>1, <1>2, <1>3

(* StoreInv is inductive under every operation of the package. *)
LEMMA StepInv == StoreInv /\ [Next]_vars => StoreInv'
<1> SUFFICES ASSUME StoreInv, [Next]_vars
             PROVE  StoreInv'
  OBVIOUS
<1>1. TypeOK'
  BY StepType DEF StoreInv
<1>2. CASE UNCHANGED vars
  BY <1>1, <1>2 DEF vars, StoreInv, FilesSane, BufsSane, LockHeld, CutsPast, LeasesEnded,
                    Exists, Sane, CutPast, Takeable, Live
<1>3. CASE Next
  BY <1>1, <1>3, ClaimStepKinds, EngineStepKinds, PreparesInv, UnlocksInv, FinishInv, TickInv
     DEF Next
<1> QED
  BY <1>2, <1>3

(* The invariant holds at first. *)
LEMMA InitInv == Init => StoreInv
<1> SUFFICES ASSUME Init PROVE StoreInv
  OBVIOUS
<1>1. TypeOK
  BY InitType
<1>2. FilesSane
  BY DEF Init, FilesSane, Sane, Unclaimed
<1>3. \A p \in Procs : job[p].pc = "idle"
  BY DEF Init, Idle
<1> QED
  BY <1>1, <1>2, <1>3 DEF StoreInv, BufsSane, LockHeld, CutsPast, CutPast, LeasesEnded

(* Files and prepared writes are sane, locks are held by their writers, and
   no prepared claim or sweep ends a running lease of another owner. *)
THEOREM StoreInvariant == Spec => []StoreInv
BY InitInv, StepInv, PTL DEF Spec

(* No claim is left on a task that counts as free, finished or stuck,      *)
(* whatever claims, sweeps, verdicts, retries and compilations interleave. *)
THEOREM Activeness == Spec => []ClaimedIsActive
<1>1. StoreInv => ClaimedIsActive
  BY DEF StoreInv, FilesSane, Sane, ClaimedIsActive
<1> QED
  BY <1>1, StoreInvariant, PTL

(* A claim or a sweep never ends another owner's running lease, also when  *)
(* compilations rewrite or remove the file between its check and its write. *)
THEOREM LeaseKept == Spec => LiveLeaseKept
<1>1. StoreInv => [\A p \in Procs, t \in Tasks :
                      /\ Writes(p, t)
                      /\ job[p].op \in {"claim", "reclaim"}
                      /\ Exists(file, t)
                      => ~Live(file[t], now) \/ file[t].owner = job[p].owner]_vars
  BY DEF StoreInv, LeasesEnded, Takeable, Writes
<1> QED
  BY <1>1, StoreInvariant, PTL DEF LiveLeaseKept
-----------------------------------------------------------------------------
(* The claim API alone.                                                    *)

AllExist == \A t \in Tasks : Exists(file, t)

(* What a prepared write is going to do to the lease and the dependencies  *)
(* of its task, which is still as the operation read it.                   *)
Ready(j) ==
  /\ j.seen = file[j.task]
  /\ j.op \notin {"retry", "put"}
  /\ j.op \in {"claim", "renew"} =>
       /\ j.owner \in Owners
       /\ j.until \in LeaseEnds
       /\ j.buf.owner = j.owner
       /\ j.buf.expires = Trunc(j.until)
  /\ j.op = "renew" => j.seen.owner = j.owner
  /\ j.op = "release" => j.owner \in Owners /\ j.seen.owner = j.owner /\ j.until = 0
  /\ j.op = "reclaim" => j.seen.owner # NoOwner /\ j.seen.expires < now
  /\ j.op \in {"release", "reclaim"} => j.buf.owner = NoOwner /\ j.buf.expires = 0
  /\ j.op \in {"status", "note", "adddep", "removedep"} =>
       j.buf.owner = j.seen.owner /\ j.buf.expires = j.seen.expires
  /\ j.op # "removedep" => j.seen.deps \subseteq j.buf.deps

ClaimJobs ==
  \A p \in Procs : /\ job[p].pc \in {"idle", "sweep", "write"}
                   /\ job[p].pc = "write" => Ready(job[p])

ClaimInv == StoreInv /\ AllExist /\ ClaimJobs

(* What p writes, when this step is the one in which it prepares the write. *)
Writing(p, t, op, buf, o, u, then) ==
  [pc |-> "write", op |-> op, task |-> t, seen |-> file[t], buf |-> buf,
   owner |-> o, until |-> u, then |-> then]

GetsReady(p) ==
  \E t \in Tasks, op \in LockedOps, buf \in Ticket, o \in Owners \cup {NoOwner},
     u \in Nat, then \in {Idle} \cup SweepJob :
     /\ Prepare(p, t, op, buf, o, u, then)
     /\ Ready(Writing(p, t, op, buf, o, u, then))

(* p looks for expired leases, or skips one. *)
Sweeps(p) ==
  /\ \E j \in {Idle} \cup SweepJob : Become(p, j)
  /\ UNCHANGED <<file, lock, now, nominal>>

(* Progress reports, dependency edits and renewals keep a sane file sane
   and its claim as it was, and progress reports its dependencies. *)
LEMMA SaneKept ==
  ASSUME NEW tk \in Ticket, Sane(tk)
  PROVE  /\ \A s \in Status \cap Active :
              /\ WithStatus(tk, s).owner = tk.owner
              /\ WithStatus(tk, s).expires = tk.expires
              /\ WithStatus(tk, s).deps = tk.deps
         /\ \A ds \in SUBSET Tasks :
              /\ WithDeps(tk, ds).owner = tk.owner
              /\ WithDeps(tk, ds).expires = tk.expires
              /\ WithDeps(tk, ds).deps = ds
<1>1. \A task \in Task :
        /\ UpdateFrontmatter(tk, task).deps = task.deps
        /\ task.status \in Active \/ task.status = tk.status
           => /\ UpdateFrontmatter(tk, task).owner = tk.owner
              /\ UpdateFrontmatter(tk, task).expires = tk.expires
  BY DEF Sane, UpdateFrontmatter, Unclaimed
<1>2. ASSUME NEW s \in Status
      PROVE  /\ [AsTask(tk) EXCEPT !.status = s] \in Task
             /\ [AsTask(tk) EXCEPT !.status = s].status = s
             /\ [AsTask(tk) EXCEPT !.status = s].deps = tk.deps
  BY FileTypes DEF Task, AsTask
<1>3. ASSUME NEW ds \in SUBSET Tasks
      PROVE  /\ [AsTask(tk) EXCEPT !.deps = ds] \in Task
             /\ [AsTask(tk) EXCEPT !.deps = ds].status = tk.status
             /\ [AsTask(tk) EXCEPT !.deps = ds].deps = ds
  BY FileTypes DEF Task, AsTask
<1>4. ASSUME NEW s \in Status \cap Active
      PROVE  /\ WithStatus(tk, s).owner = tk.owner
             /\ WithStatus(tk, s).expires = tk.expires
             /\ WithStatus(tk, s).deps = tk.deps
  <2> DEFINE task == [AsTask(tk) EXCEPT !.status = s]
  <2>1. task \in Task /\ task.status \in Active /\ task.deps = tk.deps
    BY <1>2
  <2> HIDE DEF task
  <2>2. /\ UpdateFrontmatter(tk, task).deps = tk.deps
        /\ UpdateFrontmatter(tk, task).owner = tk.owner
        /\ UpdateFrontmatter(tk, task).expires = tk.expires
    BY <1>1, <2>1
  <2> QED
    BY <2>2 DEF WithStatus, task
<1>5. ASSUME NEW ds \in SUBSET Tasks
      PROVE  /\ WithDeps(tk, ds).owner = tk.owner
             /\ WithDeps(tk, ds).expires = tk.expires
             /\ WithDeps(tk, ds).deps = ds
  <2> DEFINE task == [AsTask(tk) EXCEPT !.deps = ds]
  <2>1. task \in Task /\ task.status = tk.status /\ task.deps = ds
    BY <1>3
  <2> HIDE DEF task
  <2>2. /\ UpdateFrontmatter(tk, task).deps = ds
        /\ UpdateFrontmatter(tk, task).owner = tk.owner
        /\ UpdateFrontmatter(tk, task).expires = tk.expires
    BY <1>1, <2>1
  <2> QED
    BY <2>2 DEF WithDeps, task
<1> QED
  BY <1>4, <1>5

(* A rewrite that keeps the claim is ready to be written. *)
LEMMA RewriteReady ==
  ASSUME NEW p \in Procs, NEW t \in Tasks,
         NEW op \in {"status", "note", "adddep", "removedep"}, NEW buf \in Ticket,
         Rewrite(p, t, op, buf), buf.owner = file[t].owner, buf.expires = file[t].expires,
         op = "removedep" \/ file[t].deps \subseteq buf.deps
  PROVE  GetsReady(p)
<1>1. Prepare(p, t, op, buf, NoOwner, 0, Idle) /\ op \in LockedOps
  BY DEF Rewrite, LockedOps
<1>2. Ready(Writing(p, t, op, buf, NoOwner, 0, Idle))
  BY DEF Ready, Writing
<1> QED
  BY <1>1, <1>2 DEF GetsReady

(* So is a claim or a renewal. *)
LEMMA ClaimReady ==
  ASSUME ClaimInv, NEW p \in Procs, NEW t \in Tasks, NEW o \in Owners, NEW d \in Leases,
         ClaimTask(p, t, o, d) \/ RenewClaim(p, t, o, d)
  PROVE  GetsReady(p)
<1>1. /\ file[t] \in Ticket /\ now \in 0 .. MaxTime /\ now + d \in Nat
      /\ now + d \in LeaseEnds
  <2>1. now \in 0 .. MaxTime /\ d \in Nat
    BY DEF ClaimInv, StoreInv, TypeOK
  <2>2. now + d \in Nat /\ now + d \in LeaseEnds
    BY <2>1 DEF LeaseEnds
  <2>3. file[t] \in Ticket
    BY ReadType DEF ClaimInv, StoreInv, ClaimTask, RenewClaim
  <2> QED
    BY <2>1, <2>2, <2>3
<1>2. CASE ClaimTask(p, t, o, d)
  <2> DEFINE buf == SetClaim(file[t], o, now + d)
  <2>1. /\ buf \in Ticket /\ buf.owner = o /\ buf.expires = Trunc(now + d)
        /\ buf.deps = file[t].deps
    BY <1>1, FileTypes DEF SetClaim, Ticket
  <2>2. Ready(Writing(p, t, "claim", buf, o, now + d, Idle))
    BY <1>1, <2>1 DEF Ready, Writing
  <2> QED
    BY <1>1, <1>2, <2>1, <2>2 DEF ClaimTask, GetsReady, LockedOps
<1>3. CASE RenewClaim(p, t, o, d)
  <2> DEFINE buf == Renewed(file[t], now + d)
  <2>1. /\ buf \in Ticket /\ buf.owner = o /\ buf.expires = Trunc(now + d)
        /\ buf.deps = file[t].deps
    BY <1>1, <1>3, FileTypes DEF Renewed, Ticket, RenewClaim
  <2>2. Ready(Writing(p, t, "renew", buf, o, now + d, Idle))
    BY <1>1, <1>3, <2>1 DEF Ready, Writing, RenewClaim
  <2> QED
    BY <1>1, <1>3, <2>1, <2>2 DEF RenewClaim, GetsReady, LockedOps
<1> QED
  BY <1>2, <1>3

(* So is a release. *)
LEMMA ReleaseReady ==
  ASSUME ClaimInv, NEW p \in Procs, NEW t \in Tasks, NEW o \in Owners,
         NEW s \in ReleaseStatuses, ReleaseClaim(p, t, o, s)
  PROVE  GetsReady(p)
<1> DEFINE buf == ReleasedTo(file[t], s)
<1>1. file[t] \in Ticket /\ s \in Status
  BY ReadType DEF ClaimInv, StoreInv, ReleaseClaim
<1>2. buf \in Ticket /\ buf.owner = NoOwner /\ buf.expires = 0 /\ buf.deps = file[t].deps
  BY <1>1, FileTypes DEF ReleasedTo, Ticket
<1>3. Ready(Writing(p, t, "release", buf, o, 0, Idle))
  BY <1>2 DEF Ready, Writing, ReleaseClaim
<1> QED
  BY <1>2, <1>3 DEF ReleaseClaim, GetsReady, LockedOps

(* A sweep gets a write ready, or moves on without a lock. *)
LEMMA SweepReady ==
  ASSUME ClaimInv, NEW p \in Procs, NEW t \in Tasks,
         ReclaimScan(p) \/ ReclaimOne(p, t) \/ ReclaimSkip(p, t)
  PROVE  GetsReady(p) \/ Sweeps(p)
<1> USE DEF ClaimInv, StoreInv
<1>0. job[p] \in Job /\ now \in Nat
  BY DEF TypeOK
<1>1. CASE ReclaimScan(p)
  BY <1>0, <1>1, SweepType DEF ReclaimScan, Sweeps
<1>2. job[p].pc = "sweep" =>
        /\ job[p] \in SweepJob
        /\ Sweep(job[p].todo \ {t}, job[p].cut) \in {Idle} \cup SweepJob
        /\ job[p].cut <= now
  <2>1. ASSUME job[p].pc = "sweep"
        PROVE  /\ job[p] \in SweepJob /\ job[p].todo \ {t} \in SUBSET Tasks
               /\ job[p].cut \in Nat /\ job[p].cut <= now
    BY <1>0, <2>1, JobTypes DEF SweepJob, CutsPast, CutPast
  <2> QED
    BY <2>1, SweepType
<1>3. CASE ReclaimSkip(p, t)
  BY <1>2, <1>3 DEF ReclaimSkip, Sweeps
<1>4. CASE ReclaimOne(p, t)
  <2> DEFINE buf == ClaimCleared(file[t])
             then == Sweep(job[p].todo \ {t}, job[p].cut)
  <2>1. file[t] \in Ticket
    BY <1>4, ReadType DEF ReclaimOne
  <2>2. buf \in Ticket /\ buf.owner = NoOwner /\ buf.expires = 0 /\ buf.deps = file[t].deps
    BY <2>1, FileTypes DEF ClaimCleared, ReleasedTo, Ticket
  <2>3. file[t].owner # NoOwner /\ file[t].expires < now
    <3>1. \A e, c, n \in Nat : e < c /\ c <= n => e < n
      OBVIOUS
    <3>2. file[t].expires \in Nat /\ job[p].cut \in Nat
      BY <1>2, <1>4, <2>1 DEF Ticket, SweepJob, ReclaimOne
    <3> QED
      BY <1>0, <1>2, <1>4, <3>1, <3>2 DEF ReclaimOne, Reclaimable
  <2>4. Ready(Writing(p, t, "reclaim", buf, NoOwner, 0, then))
    BY <2>2, <2>3 DEF Ready, Writing
  <2> QED
    BY <1>2, <1>4, <2>2, <2>4 DEF ReclaimOne, GetsReady, LockedOps
<1> QED
  BY <1>1, <1>3, <1>4

(* Progress reports, notes and dependency edits get a write ready. *)
LEMMA OtherReady ==
  ASSUME ClaimInv, NEW p \in Procs, NEW t \in Tasks,
         \/ \E s \in SetStatuses \cap Active : UpdateStatus(p, t, s)
         \/ AddNote(p, t)
         \/ \E d \in Tasks : AddDep(p, t, d) \/ RemoveDep(p, t, d)
  PROVE  GetsReady(p)
<1>1. file[t] \in Ticket /\ Sane(file[t])
  BY ReadType DEF ClaimInv, StoreInv, AllExist, FilesSane
<1>2. ASSUME NEW s \in SetStatuses \cap Active, UpdateStatus(p, t, s)
      PROVE  GetsReady(p)
  BY <1>1, <1>2, FileTypes, SaneKept, RewriteReady DEF UpdateStatus
<1>3. CASE AddNote(p, t)
  BY <1>1, <1>3, RewriteReady DEF AddNote
<1>4. ASSUME NEW d \in Tasks, AddDep(p, t, d) \/ RemoveDep(p, t, d)
      PROVE  GetsReady(p)
  <2>1. file[t].deps \cup {d} \in SUBSET Tasks /\ file[t].deps \ {d} \in SUBSET Tasks
    BY <1>1 DEF Ticket
  <2>2. CASE AddDep(p, t, d)
    <3> DEFINE ds == file[t].deps \cup {d}
               buf == WithDeps(file[t], ds)
    <3>1. Rewrite(p, t, "adddep", buf) /\ buf \in Ticket
      BY <1>1, <2>1, <2>2, FileTypes DEF AddDep
    <3>2. /\ buf.owner = file[t].owner /\ buf.expires = file[t].expires
          /\ file[t].deps \subseteq buf.deps
      BY <1>1, <2>1, SaneKept
    <3> HIDE DEF buf
    <3> QED
      BY <3>1, <3>2, RewriteReady
  <2>3. CASE RemoveDep(p, t, d)
    <3> DEFINE ds == file[t].deps \ {d}
               buf == WithDeps(file[t], ds)
    <3>1. Rewrite(p, t, "removedep", buf) /\ buf \in Ticket
      BY <1>1, <2>1, <2>3, FileTypes DEF RemoveDep
    <3>2. buf.owner = file[t].owner /\ buf.expires = file[t].expires
      BY <1>1, <2>1, SaneKept
    <3> HIDE DEF buf
    <3> QED
      BY <3>1, <3>2, RewriteReady
  <2> QED
    BY <1>4, <2>2, <2>3
<1> QED
  BY <1>2, <1>3, <1>4

(* Every step of the claim API gets a write ready, moves a sweep on, or
   ends an operation. *)
LEMMA ClaimStepReady ==
  ASSUME ClaimInv, NEW p \in Procs, ClaimStep(p)
  PROVE  GetsReady(p) \/ Sweeps(p) \/ WriteAndUnlock(p) \/ WriteFails(p) \/ Crash(p)
<1>1. ASSUME ReclaimScan(p)
      PROVE  Sweeps(p) \/ GetsReady(p)
  <2> PICK t \in Tasks : TRUE
    BY <1>1 DEF ReclaimScan
  <2> QED
    BY <1>1, SweepReady
<1>2. CASE \E t \in Tasks, o \in Owners, d \in Leases :
              ClaimTask(p, t, o, d) \/ RenewClaim(p, t, o, d)
  BY <1>2, ClaimReady
<1>3. CASE \E t \in Tasks, o \in Owners, s \in ReleaseStatuses : ReleaseClaim(p, t, o, s)
  BY <1>3, ReleaseReady
<1>4. CASE \E t \in Tasks : ReclaimOne(p, t) \/ ReclaimSkip(p, t)
  BY <1>4, SweepReady
<1>5. CASE \E t \in Tasks, o \in Owners, s \in SetStatuses \cap Active :
              nominal[o][t] # 0 /\ UpdateStatus(p, t, s)
  BY <1>5, OtherReady
<1>6. CASE \E t \in Tasks : AddNote(p, t)
  BY <1>6, OtherReady
<1>7. CASE \E e \in DepEdits : AddDep(p, e[1], e[2]) \/ RemoveDep(p, e[1], e[2])
  BY <1>7, OtherReady
<1> QED
  BY <1>1, <1>2, <1>3, <1>4, <1>5, <1>6, <1>7 DEF ClaimStep

(* ClaimInv is inductive: under the claim API a locked file stays as its   *)
(* holder read it.                                                         *)
LEMMA ClaimStepInv == ClaimInv /\ [ClaimNext]_vars => ClaimInv'
<1> SUFFICES ASSUME ClaimInv, [ClaimNext]_vars
             PROVE  AllExist' /\ ClaimJobs'
  <2>1. StoreInv /\ [ClaimNext]_vars => StoreInv'
    BY StepInv DEF ClaimNext, Next
  <2> QED
    BY <2>1 DEF ClaimInv
<1> USE DEF ClaimInv, StoreInv
<1>1. CASE UNCHANGED vars
  BY <1>1 DEF vars, AllExist, ClaimJobs, Exists, Ready
<1>2. CASE Tick
  <2>1. now \in Nat /\ now' = now + 1 /\ UNCHANGED <<file, job>>
    BY <1>2 DEF Tick, TypeOK
  <2>2. ASSUME NEW p \in Procs, job[p].pc = "write"
        PROVE  Ready(job[p])'
    <3>1. Ready(job[p]) /\ job[p] \in WriteJob
      BY <2>2, JobTypes DEF ClaimJobs, TypeOK
    <3>2. job[p].op = "reclaim" => job[p].seen.expires < now + 1
      <4>1. job[p].op = "reclaim" => job[p].seen \in Ticket
        BY <3>1 DEF Ready, WriteJob, AllExist, Exists
      <4>2. \A e, n \in Nat : e < n => e < n + 1
        OBVIOUS
      <4>3. job[p].op = "reclaim" => job[p].seen.expires \in Nat
        BY <4>1 DEF Ticket
      <4> QED
        BY <2>1, <3>1, <4>2, <4>3 DEF Ready
    <3> QED
      BY <2>1, <3>1, <3>2 DEF Ready
  <2> QED
    BY <2>1, <2>2 DEF AllExist, ClaimJobs, Exists
<1>3. ASSUME NEW p \in Procs, GetsReady(p)
      PROVE  AllExist' /\ ClaimJobs'
  <2>1. PICK j : Become(p, j) /\ j.pc = "write" /\ Ready(j) /\ UNCHANGED <<file, now>>
    BY <1>3 DEF GetsReady, Prepare, Writing
  <2>2. job'[p] = j /\ \A q \in Procs \ {p} : job'[q] = job[q]
    BY <2>1 DEF Become, TypeOK
  <2>3. \A q \in Procs : job'[q].pc = "write" => Ready(job'[q])
    BY <2>1, <2>2 DEF ClaimJobs
  <2> QED
    BY <2>1, <2>2, <2>3 DEF AllExist, ClaimJobs, Exists, Ready
<1>4. ASSUME NEW p \in Procs, Sweeps(p)
      PROVE  AllExist' /\ ClaimJobs'
  <2>1. PICK j \in {Idle} \cup SweepJob : Become(p, j)
    BY <1>4 DEF Sweeps
  <2>2. job'[p] = j /\ \A q \in Procs \ {p} : job'[q] = job[q]
    BY <2>1 DEF Become, TypeOK
  <2>3. j.pc \in {"idle", "sweep"}
    BY DEF Idle, SweepJob
  <2> QED
    BY <1>4, <2>2, <2>3 DEF Sweeps, AllExist, ClaimJobs, Exists, Ready
<1>5. ASSUME NEW p \in Procs, WriteAndUnlock(p) \/ WriteFails(p) \/ Crash(p)
      PROVE  AllExist' /\ ClaimJobs'
  <2>1. PICK j : /\ Become(p, j) /\ UNCHANGED now
                 /\ j = Idle \/ (job[p].pc = "write" /\ j = job[p].then)
    BY <1>5 DEF WriteAndUnlock, WriteFails, Crash
  <2>2. j.pc \in {"idle", "sweep"}
    BY <2>1, JobTypes DEF TypeOK, WriteJob, SweepJob, Idle
  <2>3. job'[p] = j /\ \A q \in Procs \ {p} : job'[q] = job[q]
    BY <2>1 DEF Become, TypeOK
  <2>4. \A t \in Tasks : \/ file'[t] = file[t]
                         \/ /\ job[p].pc = "write" /\ t = job[p].task
                            /\ file'[t] = job[p].buf /\ file'[t] \in Ticket
    BY <1>5, JobTypes DEF WriteAndUnlock, WriteFails, Crash, TypeOK, WriteJob
  <2>5. AllExist'
    BY <2>4 DEF AllExist, Exists
  <2>6. ASSUME NEW q \in Procs, job'[q].pc = "write"
        PROVE  Ready(job[q])' /\ job'[q] = job[q]
    <3>1. q # p /\ job'[q] = job[q] /\ Ready(job[q])
      BY <2>2, <2>3, <2>6 DEF ClaimJobs
    <3>2. job[q].task \in Tasks
      BY <2>6, <3>1, JobTypes DEF TypeOK, WriteJob
    <3>3. file'[job[q].task] = file[job[q].task]
      BY <2>4, <2>6, <3>1, <3>2 DEF LockHeld
    <3> QED
      BY <2>1, <3>1, <3>3 DEF Ready
  <2> QED
    BY <2>2, <2>3, <2>5, <2>6 DEF ClaimJobs
<1> QED
  BY <1>1, <1>2, <1>3, <1>4, <1>5, ClaimStepReady DEF ClaimNext

(* The invariant of the claim API holds at first. *)
LEMMA ClaimInitInv == Init => ClaimInv
<1> SUFFICES ASSUME Init PROVE ClaimInv
  OBVIOUS
<1>1. StoreInv
  BY InitInv
<1>2. AllExist
  <2>1. \A t \in Tasks : file[t] \in Ticket
    BY DEF Init, Unclaimed, Ticket, Status
  <2> QED
    BY <2>1 DEF AllExist, Exists
<1>3. ClaimJobs
  BY DEF Init, ClaimJobs, Idle
<1> QED
  BY <1>1, <1>2, <1>3 DEF ClaimInv

(* Under the claim API every file exists and every lock holder is about to
   replace exactly what it read. *)
THEOREM ClaimInvariant == ClaimSpec => []ClaimInv
BY ClaimInitInv, ClaimStepInv, PTL DEF ClaimSpec

(* Under the claim API, what a locked operation is about to replace is     *)
(* still what it read: no claim, renewal, release, sweep, note or          *)
(* dependency edit is lost (store.go:428 withLock).                        *)
THEOREM LockedWrites == ClaimSpec => []LockedWriteIsCurrent
<1>1. ClaimInv => LockedWriteIsCurrent
  BY DEF ClaimInv, ClaimJobs, Ready, LockedWriteIsCurrent
<1> QED
  BY <1>1, ClaimInvariant, PTL

(* Under the claim API a dependency disappears only through RemoveDep: no  *)
(* claim, renewal, release, sweep, note or progress report that had read   *)
(* the ticket before writes it back without (store.go:182).                *)
THEOREM DependenciesStay == ClaimSpec => DependencyKept
<1>1. ClaimInv /\ [ClaimNext]_vars =>
        [\A t \in Tasks :
           \/ ~Exists(file, t) \/ ~Exists(file', t)
           \/ file[t].deps \subseteq file'[t].deps
           \/ \E p \in Procs : job[p].pc = "compile"
           \/ \E p \in Procs : Writes(p, t) /\ job[p].op = "removedep"]_vars
  <2> SUFFICES ASSUME ClaimInv, ClaimNext, NEW t \in Tasks, file'[t] # file[t]
               PROVE  \/ file[t].deps \subseteq file'[t].deps
                      \/ \E p \in Procs : Writes(p, t) /\ job[p].op = "removedep"
    OBVIOUS
  <2>1. PICK p \in Procs : WriteAndUnlock(p)
    <3>1. file' = file \/ \E p \in Procs : WriteAndUnlock(p)
      BY ClaimStepReady
         DEF ClaimNext, Tick, GetsReady, Prepare, Sweeps, WriteFails, Crash
    <3> QED
      BY <3>1
  <2>2. /\ job[p].pc = "write" /\ job[p] \in WriteJob /\ Ready(job[p])
        /\ job[p].then \in {Idle} \cup SweepJob
        /\ job'[p] = job[p].then
    BY <2>1, JobTypes DEF WriteAndUnlock, Become, ClaimInv, StoreInv, ClaimJobs, TypeOK, WriteJob
  <2>3. job[p].task = t /\ file'[t] = job[p].buf /\ file[t] = job[p].seen
    BY <2>1, <2>2 DEF WriteAndUnlock, ClaimInv, StoreInv, TypeOK, Ready, WriteJob
  <2>4. job'[p] # job[p]
    BY <2>2 DEF Idle, SweepJob
  <2> QED
    BY <2>2, <2>3, <2>4 DEF Ready, Writes
<1> QED
  BY <1>1, ClaimInvariant, PTL DEF DependencyKept, ClaimSpec
-----------------------------------------------------------------------------
(* The claim API implements ClaimLease.                                    *)

(* Where every file exists, the abstract leases are the claims in the files. *)
LEMMA LeaseTypes ==
  ASSUME ClaimInv
  PROVE  /\ LeaseHolder = [t \in Tasks |-> file[t].owner]
         /\ LeaseEnd = [t \in Tasks |-> file[t].expires]
BY DEF ClaimInv, AllExist, LeaseHolder, LeaseEnd

(* Only a write changes what the leases look like. *)
LEMMA WriteLease ==
  ASSUME ClaimInv, ClaimInv', NEW p \in Procs, WriteAndUnlock(p)
  PROVE  [Lease!Next]_(Lease!vars)
<1> DEFINE j == job[p]
           t == j.task
           o == j.owner
<1>1. /\ t \in Tasks /\ j.op \in LockedOps /\ Ready(j) /\ j.seen = file[t]
      /\ j \in WriteJob
  BY JobTypes DEF ClaimInv, StoreInv, TypeOK, WriteJob, WriteAndUnlock, ClaimJobs, Ready
<1>2. file' = [file EXCEPT ![t] = j.buf] /\ now' = now
  BY DEF WriteAndUnlock
<1>3. file \in [Tasks -> Ticket \cup {NoFile}] /\ file[t] \in Ticket
  BY <1>1, ReadType DEF ClaimInv, StoreInv, TypeOK, AllExist
<1>4. /\ LeaseHolder' = [LeaseHolder EXCEPT ![t] = j.buf.owner]
      /\ LeaseEnd' = [LeaseEnd EXCEPT ![t] = j.buf.expires]
  <2>1. LeaseHolder' = [t1 \in Tasks |-> file'[t1].owner] /\ LeaseEnd' = [t1 \in Tasks |-> file'[t1].expires]
    BY DEF ClaimInv, AllExist, LeaseHolder, LeaseEnd
  <2> QED
    BY <1>1, <1>2, <1>3, <2>1, LeaseTypes
<1>5. LeaseHolder[t] = file[t].owner /\ LeaseEnd[t] = file[t].expires
  BY <1>1, LeaseTypes
<1>6. CASE j.op \in {"claim", "renew"}
  <2>1. o \in Owners /\ j.until \in LeaseEnds /\ j.buf.owner = o /\ j.buf.expires = Trunc(j.until)
    BY <1>1, <1>6 DEF Ready
  <2>2. Lease!Free(t, o)
    <3>1. CASE j.op = "claim"
      <4>1. Takeable(t, o)
        BY <3>1 DEF ClaimInv, StoreInv, LeasesEnded, WriteAndUnlock
      <4> QED
        BY <1>1, <1>5, <4>1 DEF Takeable, Live, Lease!Free, ClaimInv, AllExist
    <3>2. CASE j.op = "renew"
      BY <1>1, <1>5, <3>2 DEF Ready, Lease!Free
    <3> QED
      BY <1>6, <3>1, <3>2
  <2>3. nominal' = [nominal EXCEPT ![o][t] = j.until]
    BY <1>6 DEF WriteAndUnlock
  <2>4. Trunc(j.until) = Lease!Stored(j.until)
    BY DEF Trunc, Lease!Stored
  <2>5. Lease!Grant(t, o)
    BY <1>2, <1>4, <2>1, <2>2, <2>3, <2>4 DEF Lease!Grant
  <2> QED
    BY <1>1, <2>1, <2>5 DEF Lease!Next
<1>7. CASE j.op = "release"
  <2>1. o \in Owners /\ file[t].owner = o /\ j.until = 0 /\ j.buf.owner = NoOwner /\ j.buf.expires = 0
    BY <1>1, <1>7 DEF Ready
  <2>2. nominal' = [nominal EXCEPT ![o][t] = 0]
    BY <1>7, <2>1 DEF WriteAndUnlock
  <2>3. Lease!Release(t, o)
    BY <1>2, <1>4, <1>5, <2>1, <2>2 DEF Lease!Release
  <2> QED
    BY <1>1, <2>1, <2>3 DEF Lease!Next
<1>8. CASE j.op = "reclaim"
  <2>1. /\ file[t].owner # NoOwner /\ file[t].expires < now
        /\ j.buf.owner = NoOwner /\ j.buf.expires = 0
    BY <1>1, <1>8 DEF Ready
  <2>2. nominal' = nominal
    BY <1>8 DEF WriteAndUnlock
  <2>3. Lease!Reclaim(t)
    BY <1>2, <1>4, <1>5, <2>1, <2>2 DEF Lease!Reclaim
  <2> QED
    BY <1>1, <2>3 DEF Lease!Next
<1>9. CASE j.op \in {"status", "note", "adddep", "removedep"}
  <2>1. j.buf.owner = file[t].owner /\ j.buf.expires = file[t].expires
    BY <1>1, <1>9 DEF Ready
  <2>2. nominal' = nominal
    BY <1>9 DEF WriteAndUnlock
  <2>3. LeaseHolder' = LeaseHolder /\ LeaseEnd' = LeaseEnd
    BY <1>1, <1>4, <1>5, <2>1 DEF LeaseHolder, LeaseEnd
  <2> QED
    BY <1>2, <2>2, <2>3 DEF Lease!vars
<1> QED
  BY <1>1, <1>6, <1>7, <1>8, <1>9 DEF LockedOps, Ready

(* Every step of the claim API is an atomic lease or leaves the leases alone. *)
LEMMA StepLease == ClaimInv /\ ClaimInv' /\ [ClaimNext]_vars => [Lease!Next]_(Lease!vars)
<1> SUFFICES ASSUME ClaimInv, ClaimInv', [ClaimNext]_vars
             PROVE  [Lease!Next]_(Lease!vars)
  OBVIOUS
<1>1. ASSUME UNCHANGED <<file, now, nominal>>
      PROVE  UNCHANGED Lease!vars
  BY <1>1 DEF Lease!vars, LeaseHolder, LeaseEnd, Exists
<1>2. CASE Tick
  <2>1. UNCHANGED <<LeaseHolder, LeaseEnd>>
    BY <1>2 DEF Tick, LeaseHolder, LeaseEnd, Exists
  <2> QED
    BY <1>2, <2>1 DEF Tick, Lease!Tick, Lease!Next
<1>3. ASSUME NEW p \in Procs, ClaimStep(p)
      PROVE  [Lease!Next]_(Lease!vars)
  <2>1. CASE WriteAndUnlock(p)
    BY <2>1, WriteLease
  <2>2. CASE GetsReady(p) \/ Sweeps(p) \/ WriteFails(p) \/ Crash(p)
    BY <1>1, <2>2 DEF GetsReady, Prepare, Sweeps, WriteFails, Crash
  <2> QED
    BY <1>3, <2>1, <2>2, ClaimStepReady
<1> QED
  BY <1>1, <1>2, <1>3 DEF ClaimNext, vars

(* The directory starts with no lease. *)
LEMMA InitLease == Init => Lease!Init
<1> SUFFICES ASSUME Init PROVE Lease!Init
  OBVIOUS
<1>1. ClaimInv
  BY ClaimInitInv
<1> QED
  BY <1>1, LeaseTypes DEF Init, Lease!Init, Unclaimed

(* Every behaviour of the claim API, with its locks, its renames, failed   *)
(* writes and crashes, is one of the atomic leases of ClaimLease.          *)
THEOREM Refinement == ClaimSpec => LeaseSpec
<1>1. Init => Lease!Init
  BY InitLease
<1>2. ClaimInv /\ ClaimInv' /\ [ClaimNext]_vars => [Lease!Next]_(Lease!vars)
  BY StepLease
<1> QED
  BY <1>1, <1>2, ClaimInvariant, PTL DEF ClaimSpec, LeaseSpec, Lease!Spec

LeaseProofs == INSTANCE ClaimLeaseProofs WITH
                 holder <- LeaseHolder, expires <- LeaseEnd, Ends <- LeaseEnds

(* Two agents never work on one task at the same time: exclusivity, for    *)
(* any number of tasks, agents and processes and any lease lengths         *)
(* (claim.go:32 ClaimTask, "acquires an exclusive claim").                 *)
THEOREM Exclusivity == ClaimSpec => []LeaseExclusive
<1>1. LeaseEnds \subseteq Nat
  BY DEF LeaseEnds
<1>2. LeaseProofs!OwnersAssumption /\ LeaseProofs!GrainAssumption
  BY DEF OwnersAssumption, GrainAssumption, LeaseProofs!OwnersAssumption,
         LeaseProofs!GrainAssumption
<1>3. LeaseProofs!Spec => []LeaseProofs!LeaseExclusive
  BY <1>1, <1>2, LeaseProofs!Exclusive
<1>4. Lease!Init => LeaseProofs!Init
  BY DEF Lease!Init, LeaseProofs!Init
<1>5. [Lease!Next]_(Lease!vars) => [LeaseProofs!Next]_(LeaseProofs!vars)
  BY DEF Lease!Next, Lease!Grant, Lease!Release, Lease!Reclaim, Lease!Tick, Lease!Free,
         Lease!Stored, Lease!vars, LeaseProofs!Next, LeaseProofs!Grant, LeaseProofs!Release,
         LeaseProofs!Reclaim, LeaseProofs!Tick, LeaseProofs!Free, LeaseProofs!Stored,
         LeaseProofs!vars
<1>6. LeaseProofs!LeaseExclusive => LeaseExclusive
  BY DEF LeaseExclusive, Lease!LeaseExclusive, Lease!Working,
         LeaseProofs!LeaseExclusive, LeaseProofs!Working
<1> QED
  BY <1>3, <1>4, <1>5, <1>6, Refinement, PTL DEF LeaseSpec, Lease!Spec, LeaseProofs!Spec
=============================================================================
