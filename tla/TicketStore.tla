---------------------------- MODULE TicketStore -----------------------------
(***************************************************************************)
(* internal/ticket.Store under concurrent processes: fabrikk commands and  *)
(* agents share the directory .tickets/ and nothing else.                  *)
(*                                                                         *)
(* Most operations run under the per-file flock of withLock.  They take    *)
(* two steps here: one acquires the lock, reads the file, validates and    *)
(* prepares the new contents; WriteAndUnlock renames them into place and   *)
(* unlocks.  Between the two steps the clock, the other files, and writers *)
(* that take no lock may move.  An error return changes no file: where the *)
(* guard of an operation fails the process just stays idle.                *)
(*                                                                         *)
(* WriteTasks, removeOrphanedTasks, the check of RetryTask and the reads   *)
(* of VerifyTask and ReclaimExpired take no lock, as in the code.          *)
(***************************************************************************)
EXTENDS TicketFile

CONSTANTS
  Procs,        \* fabrikk commands and agents that may run at once
  Sweeper,      \* the process whose sweeps Fairness speaks of
  NoProc,       \* the flock of a file is free
  Leases,       \* lease durations passed to ClaimTask and RenewClaim, in ticks
  SetStatuses,  \* statuses passed to UpdateTaskStatus
  ReleaseStatuses,  \* statuses passed to ReleaseTask
  DepEdits,     \* pairs <<id, depID>> passed to AddDep and RemoveDep
  PlanDeps,     \* PlanDeps[t]: the dependencies the compiler gives task t
  MaxTime,      \* bound: the clock stops here
  MaxCompiles   \* bound: WriteTasks calls

ASSUME StoreAssumption ==
  /\ NoProc \notin Procs
  /\ Sweeper \in Procs
  /\ Leases \subseteq Nat
  /\ SetStatuses \subseteq Status
  /\ ReleaseStatuses \subseteq Status
  /\ DepEdits \subseteq Tasks \X Tasks
  /\ PlanDeps \in [Tasks -> SUBSET Tasks]
  /\ MaxTime \in Nat
  /\ MaxCompiles \in Nat

VARIABLES
  file,      \* file[t]: the contents of <t>.md, or NoFile
  lock,      \* lock[t]: the process that holds <t>.md.lock
  job,       \* job[p]: what process p is in the middle of
  now,       \* the wall clock
  nominal,   \* history: the lease ends the agents computed (see ClaimLease)
  compiles   \* WriteTasks calls so far

vars == <<file, lock, job, now, nominal, compiles>>

-----------------------------------------------------------------------------
(* What a process can be in the middle of.                                 *)

Idle == [pc |-> "idle"]

Sweep(ts, c) == IF ts = {} THEN Idle ELSE [pc |-> "sweep", todo |-> ts, cut |-> c]

LockedOps == {"claim", "renew", "release", "reclaim", "status", "note",
              "adddep", "removedep", "retry", "put"}

SweepJob == [pc : {"sweep"}, todo : SUBSET Tasks, cut : Nat]

(* Holding the lock of task, about to rename buf into place. *)
WriteJob == [pc : {"write"}, op : LockedOps, task : Tasks, seen : Ticket \cup {NoFile},
             buf : Ticket, owner : Owners \cup {NoOwner}, until : Nat,
             then : {Idle} \cup SweepJob]

Job == {Idle} \cup SweepJob \cup WriteJob
       \cup [pc : {"retry"}, task : Tasks]
       \cup [pc : {"verify"}, task : Tasks, seen : Task]
       \cup [pc : {"persist"}, task : Tasks, put : Task]
       \cup [pc : {"compile"}, plan : SUBSET Tasks, todo : SUBSET Tasks]
       \cup [pc : {"scan"}, plan : SUBSET Tasks]
       \cup [pc : {"orphans"}, todo : SUBSET Tasks]

TypeOK ==
  /\ file \in [Tasks -> Ticket \cup {NoFile}]
  /\ lock \in [Tasks -> Procs \cup {NoProc}]
  /\ job \in [Procs -> Job]
  /\ now \in 0 .. MaxTime
  /\ nominal \in [Owners -> [Tasks -> Nat]]
  /\ compiles \in Nat

-----------------------------------------------------------------------------
(* The directory as a first WriteTasks leaves it. *)
Init ==
  /\ file = [t \in Tasks |-> Unclaimed([status |-> "pending", deps |-> PlanDeps[t]])]
  /\ lock = [t \in Tasks |-> NoProc]
  /\ job = [p \in Procs |-> Idle]
  /\ now = 0
  /\ nominal = [o \in Owners |-> [t \in Tasks |-> 0]]
  /\ compiles = 0

Become(p, j) == job' = [job EXCEPT ![p] = j]

PrepareUnlocked(p, t, op, buf, o, until, then) ==
  /\ lock' = [lock EXCEPT ![t] = p]
  /\ Become(p, [pc |-> "write", op |-> op, task |-> t, seen |-> file[t], buf |-> buf,
                owner |-> o, until |-> until, then |-> then])
  /\ UNCHANGED <<file, now, nominal, compiles>>

(* withLock up to the write: the first half of every locked operation. *)
Prepare(p, t, op, buf, o, until, then) ==
  /\ lock[t] = NoProc
  /\ lock' = [lock EXCEPT ![t] = p]
  /\ Become(p, [pc |-> "write", op |-> op, task |-> t, seen |-> file[t], buf |-> buf,
                owner |-> o, until |-> until, then |-> then])
  /\ UNCHANGED <<file, now, nominal, compiles>>

(* An operation on an existing file that needs nothing but the new contents. *)
Rewrite(p, t, op, buf) == Prepare(p, t, op, buf, NoOwner, 0, Idle)

Unlocked(p) == lock' = [t \in Tasks |-> IF lock[t] = p THEN NoProc ELSE lock[t]]

(* The second half: atomicWrite succeeds, the deferred Unlock runs and the *)
(* call returns; an agent that claimed, renewed or released now knows.     *)
WriteAndUnlock(p) ==
  /\ job[p].pc = "write"
  /\ LET j == job[p] IN
       /\ file' = [file EXCEPT ![j.task] = j.buf]
       /\ Unlocked(p)
       /\ Become(p, j.then)
       /\ nominal' = IF j.op \in {"claim", "renew", "release"}
                     THEN [nominal EXCEPT ![j.owner][j.task] = j.until]
                     ELSE nominal
  /\ UNCHANGED <<now, compiles>>

(* atomicWrite fails before its rename: the error is returned, or skipped  *)
(* by the sweep, and the file is untouched.                                *)
WriteFails(p) ==
  /\ job[p].pc = "write"
  /\ Unlocked(p)
  /\ Become(p, job[p].then)
  /\ UNCHANGED <<file, now, nominal, compiles>>

(* The process dies; the kernel drops its flocks. *)
Crash(p) ==
  /\ job[p] # Idle
  /\ Unlocked(p)
  /\ Become(p, Idle)
  /\ UNCHANGED <<file, now, nominal, compiles>>

Tick ==
  /\ now < MaxTime
  /\ now' = now + 1
  /\ UNCHANGED <<file, lock, job, nominal, compiles>>

-----------------------------------------------------------------------------
(* Claims: claim.go, called through Engine.ClaimAndDispatch, ReleaseTask   *)
(* and SweepExpiredClaims.                                                 *)

ClaimTask(p, t, o, d) ==
  /\ job[p] = Idle
  /\ Exists(file, t)
  /\ ClaimEligible(file[t], o, now)
  /\ Prepare(p, t, "claim", SetClaim(file[t], o, now + d), o, now + d, Idle)

ReleaseByAnyone(p, t, o, s) ==
  /\ job[p] = Idle
  /\ Exists(file, t)
  /\ file[t].owner # NoOwner
  /\ Prepare(p, t, "release", ReleasedTo(file[t], s), o, 0, Idle)

ReleaseClaim(p, t, o, s) ==
  /\ job[p] = Idle
  /\ Exists(file, t)
  /\ file[t].owner = o
  /\ Prepare(p, t, "release", ReleasedTo(file[t], s), o, 0, Idle)

RenewClaim(p, t, o, d) ==
  /\ job[p] = Idle
  /\ Exists(file, t)
  /\ file[t].owner = o
  /\ Prepare(p, t, "renew", Renewed(file[t], now + d), o, now + d, Idle)

(* ReclaimExpired's unlocked scan (ReadClaimsForRun) and its time. *)
ReclaimScan(p) ==
  /\ job[p] = Idle
  /\ LET expired == {t \in Tasks : Exists(file, t) /\ Reclaimable(file[t], now)} IN
       /\ expired # {}
       /\ Become(p, Sweep(expired, now))
  /\ UNCHANGED <<file, lock, now, nominal, compiles>>

ReclaimUnchecked(p, t) ==
  /\ job[p].pc = "sweep"
  /\ t \in job[p].todo
  /\ Exists(file, t)
  /\ Prepare(p, t, "reclaim", ClaimCleared(file[t]), NoOwner, 0,
             Sweep(job[p].todo \ {t}, job[p].cut))

(* reclaimOne on a task that is still expired. *)
ReclaimOne(p, t) ==
  /\ job[p].pc = "sweep"
  /\ t \in job[p].todo
  /\ Exists(file, t)
  /\ Reclaimable(file[t], job[p].cut)
  /\ Prepare(p, t, "reclaim", ClaimCleared(file[t]), NoOwner, 0,
             Sweep(job[p].todo \ {t}, job[p].cut))

(* reclaimOne on a task renewed, released or removed since the scan. *)
ReclaimSkip(p, t) ==
  /\ job[p].pc = "sweep"
  /\ t \in job[p].todo
  /\ lock[t] = NoProc
  /\ ~(Exists(file, t) /\ Reclaimable(file[t], job[p].cut))
  /\ Become(p, Sweep(job[p].todo \ {t}, job[p].cut))
  /\ UNCHANGED <<file, lock, now, nominal, compiles>>

-----------------------------------------------------------------------------
(* The other locked operations of store.go.                                *)

(* UpdateStatus, through Engine.UpdateTaskStatus: any status, no check. *)
UpdateStatus(p, t, s) ==
  /\ job[p] = Idle
  /\ Exists(file, t)
  /\ Rewrite(p, t, "status", WithStatus(file[t], s))

(* The body, which AddNote appends to, is not modelled. *)
AddNote(p, t) ==
  /\ job[p] = Idle
  /\ Exists(file, t)
  /\ Rewrite(p, t, "note", file[t])

AddDep(p, t, d) ==
  /\ job[p] = Idle
  /\ Exists(file, t)
  /\ Exists(file, d)
  /\ d \notin file[t].deps
  /\ Rewrite(p, t, "adddep", WithDeps(file[t], file[t].deps \cup {d}))

RemoveDep(p, t, d) ==
  /\ job[p] = Idle
  /\ Exists(file, t)
  /\ Rewrite(p, t, "removedep", WithDeps(file[t], file[t].deps \ {d}))

(* Engine.RetryTask: an unlocked check, then UpdateStatus(pending). *)
RetryCheck(p, t) ==
  /\ job[p] = Idle
  /\ Exists(file, t)
  /\ file[t].status \in {"blocked", "repair_pending"}
  /\ Become(p, [pc |-> "retry", task |-> t])
  /\ UNCHANGED <<file, lock, now, nominal, compiles>>

RetryUpdate(p) ==
  /\ job[p].pc = "retry"
  /\ LET t == job[p].task IN
       \/ /\ Exists(file, t)
          /\ Rewrite(p, t, "retry", WithStatus(file[t], "pending"))
       \/ /\ ~Exists(file, t)
          /\ Become(p, Idle)
          /\ UNCHANGED <<file, lock, now, nominal, compiles>>

(* Engine.VerifyTask on the task cmdVerify read before the gate ran. *)
VerifyStart(p, t) ==
  /\ job[p] = Idle
  /\ Exists(file, t)
  /\ Become(p, [pc |-> "verify", task |-> t, seen |-> AsTask(file[t])])
  /\ UNCHANGED <<file, lock, now, nominal, compiles>>

(* persistVerifiedTask's unlocked ReadTask: the whole task will be written *)
(* back with the verdict; a missing one is re-created from the old read.   *)
PersistRead(p, verdict) ==
  /\ job[p].pc = "verify"
  /\ LET t == job[p].task
         task == IF Exists(file, t) THEN AsTask(file[t]) ELSE job[p].seen
     IN Become(p, [pc |-> "persist", task |-> t, put |-> [task EXCEPT !.status = verdict]])
  /\ UNCHANGED <<file, lock, now, nominal, compiles>>

(* Store.WriteTask *)
PersistWrite(p) ==
  /\ job[p].pc = "persist"
  /\ LET t == job[p].task IN
       Rewrite(p, t, "put", IF Exists(file, t)
                            THEN UpdateFrontmatter(file[t], job[p].put)
                            ELSE Unclaimed(job[p].put))

-----------------------------------------------------------------------------
(* Store.WriteTasks, from Engine.Compile: no lock anywhere.                *)

CompileStart(p, plan) ==
  /\ job[p] = Idle
  /\ compiles < MaxCompiles
  /\ compiles' = compiles + 1
  /\ Become(p, [pc |-> "compile", plan |-> plan, todo |-> plan])
  /\ UNCHANGED <<file, lock, now, nominal>>

(* writeOrUpdateTask: compiled tasks are pending, so no claim survives. *)
CompileWrite(p, t) ==
  /\ job[p].pc = "compile"
  /\ t \in job[p].todo
  /\ file' = [file EXCEPT ![t] =
                Unclaimed([status |-> "pending", deps |-> PlanDeps[t] \cap job[p].plan])]
  /\ Become(p, IF job[p].todo = {t}
               THEN [pc |-> "scan", plan |-> job[p].plan]
               ELSE [job[p] EXCEPT !.todo = @ \ {t}])
  /\ UNCHANGED <<lock, now, nominal, compiles>>

(* removeOrphanedTasks lists the run's tasks ... *)
OrphanScan(p) ==
  /\ job[p].pc = "scan"
  /\ LET old == {t \in Tasks \ job[p].plan : Exists(file, t)} IN
       Become(p, IF old = {} THEN Idle ELSE [pc |-> "orphans", todo |-> old])
  /\ UNCHANGED <<file, lock, now, nominal, compiles>>

(* ... and removes those the new plan does not have. *)
OrphanRemove(p, t) ==
  /\ job[p].pc = "orphans"
  /\ t \in job[p].todo
  /\ file' = [file EXCEPT ![t] = NoFile]
  /\ Become(p, IF job[p].todo = {t} THEN Idle ELSE [job[p] EXCEPT !.todo = @ \ {t}])
  /\ UNCHANGED <<lock, now, nominal, compiles>>

-----------------------------------------------------------------------------
(* The claim API alone: agents claim, renew and release; one that was      *)
(* granted a task reports its progress, not knowing whether its lease has  *)
(* run out since; anyone may sweep, add notes or edit dependencies.        *)
ClaimStep(p) ==
  \/ \E t \in Tasks, o \in Owners, d \in Leases :
        ClaimTask(p, t, o, d) \/ RenewClaim(p, t, o, d)
  \/ \E t \in Tasks, o \in Owners, s \in ReleaseStatuses : ReleaseClaim(p, t, o, s)
  \/ ReclaimScan(p)
  \/ \E t \in Tasks : ReclaimOne(p, t) \/ ReclaimSkip(p, t)
  \/ \E t \in Tasks, o \in Owners, s \in SetStatuses \cap Active :
        nominal[o][t] # 0 /\ UpdateStatus(p, t, s)
  \/ \E t \in Tasks : AddNote(p, t)
  \/ \E e \in DepEdits : AddDep(p, e[1], e[2]) \/ RemoveDep(p, e[1], e[2])
  \/ WriteAndUnlock(p) \/ WriteFails(p) \/ Crash(p)

(* The operations that take a task away from whoever holds it. *)
EngineStep(p) ==
  \/ \E t \in Tasks, s \in SetStatuses : UpdateStatus(p, t, s)
  \/ \E t \in Tasks : RetryCheck(p, t) \/ VerifyStart(p, t)
  \/ RetryUpdate(p) \/ PersistWrite(p)
  \/ \E v \in {"done", "blocked"} : PersistRead(p, v)
  \/ \E plan \in (SUBSET Tasks) \ {{}} : CompileStart(p, plan)
  \/ OrphanScan(p)
  \/ \E t \in Tasks : CompileWrite(p, t) \/ OrphanRemove(p, t)

ClaimNext == Tick \/ \E p \in Procs : ClaimStep(p)

Next == Tick \/ \E p \in Procs : ClaimStep(p) \/ EngineStep(p)

ClaimSpec == Init /\ [][ClaimNext]_vars

Spec == Init /\ [][Next]_vars

(* The fairness of ExpiredIsReclaimed.  Time passes; a process that holds  *)
(* a lock gets done with it; the sweeper sweeps again and again, gets the  *)
(* locks it waits for (flock queues its waiters), does not fail every time *)
(* it writes a reclaimed ticket, and dies in a sweep only finitely often   *)
(* (a skip or a failing write may end a sweep just as a crash would).      *)
(* Agents owe nothing: they may crash, or hold on to their claims.         *)
Fairness ==
  /\ WF_vars(Tick)
  /\ \A p \in Procs : WF_vars(WriteAndUnlock(p) \/ WriteFails(p) \/ Crash(p))
  /\ SF_vars(ReclaimScan(Sweeper))
  /\ \A t \in Tasks :
       /\ SF_vars(ReclaimOne(Sweeper, t))
       /\ SF_vars(ReclaimSkip(Sweeper, t))
       /\ SF_vars(job[Sweeper].pc = "write" /\ job[Sweeper].op = "reclaim"
                  /\ job[Sweeper].task = t /\ WriteAndUnlock(Sweeper))
  /\ <>[][Crash(Sweeper) => WriteFails(Sweeper) \/ \E t \in Tasks : ReclaimSkip(Sweeper, t)]_vars

LiveSpec == ClaimSpec /\ Fairness

-----------------------------------------------------------------------------
(* A claim exists only in a status that marks the task as taken: whatever  *)
(* the interleaving of locked and unlocked writers, no task that ReadyTasks *)
(* offers is held by an agent (format.go:126 isActiveStatus and the writes *)
(* that clear or keep claims).                                             *)
ClaimedIsActive ==
  \A t \in Tasks :
     Exists(file, t) /\ file[t].owner # NoOwner => file[t].status \in Active

(* "Read and write are inside the same lock to prevent race conditions"    *)
(* (store.go:182): what a locked operation is about to replace is still    *)
(* what it read.                                                           *)
LockedWriteIsCurrent ==
  \A p \in Procs :
     job[p].pc = "write" => file[job[p].task] = job[p].seen

(* p's rename of t happens in this step. *)
Writes(p, t) ==
  /\ job[p].pc = "write"
  /\ job[p].task = t
  /\ job'[p] # job[p]
  /\ file'[t] # file[t]

(* Whatever else runs, ClaimTask and ReclaimExpired never end a lease of   *)
(* another owner that is still running (ErrAlreadyClaimed, errNotExpired): *)
(* not even when the scan, the lock and the write are far apart in time.   *)
LiveLeaseKept ==
  [][\A p \in Procs, t \in Tasks :
       /\ Writes(p, t)
       /\ job[p].op \in {"claim", "reclaim"}
       /\ Exists(file, t)
       => ~Live(file[t], now) \/ file[t].owner = job[p].owner]_vars

(* AddDep is not lost: a dependency disappears only through RemoveDep or a *)
(* new compilation ("Concurrent agents write same ticket | Data loss |     *)
(* Per-file flock locking", docs/plans/done/ticket-integration.md:634).    *)
DependencyKept ==
  [][\A t \in Tasks :
       \/ ~Exists(file, t) \/ ~Exists(file', t)
       \/ file[t].deps \subseteq file'[t].deps
       \/ \E p \in Procs : job[p].pc = "compile"
       \/ \E p \in Procs : Writes(p, t) /\ job[p].op = "removedep"]_vars

(* RetryTask only reopens what it may retry ("Validate task exists and is  *)
(* retryable before updating", engine.go:852): never a task that was       *)
(* claimed or finished after the check.                                    *)
RetryOnlyRetryable ==
  [][\A p \in Procs, t \in Tasks :
       Writes(p, t) /\ job[p].op = "retry" /\ Exists(file, t)
       => file[t].status \in {"blocked", "repair_pending", "pending"}]_vars

(* WriteTasks "removes orphaned tasks from previous compilations"          *)
(* (store.go:71): nothing brings back a ticket that it removed.            *)
OrphansStayRemoved ==
  [][\A t \in Tasks :
       ~Exists(file, t) /\ Exists(file', t)
       => \E p \in Procs : job[p].pc = "compile"]_vars

(* "A crashed agent leaves a task stuck in in_progress -> no one picks it  *)
(* up" is what claims are there to prevent (docs/plans/done/               *)
(* ticket-claim-release.md:17): a task marked as taken has a claim, which  *)
(* the sweep can expire.                                                   *)
TakenHasClaim ==
  \A t \in Tasks :
     Exists(file, t) /\ file[t].status \in Active => file[t].owner # NoOwner

(* "A task is dispatchable only when every task in depends_on is done"     *)
(* (docs/specs/fabrikk-technical-spec.md:829).                             *)
ReadyDependenciesDone == ReadyTasks(file) \subseteq PendingTasks(file)

(* "Claim acquisition fails when: ... dependencies are incomplete"         *)
(* (docs/specs/fabrikk-technical-spec.md:873-877).                         *)
ClaimHasDependencies ==
  [][\A p \in Procs, t \in Tasks :
       job'[p].pc = "write" /\ job[p] = Idle /\ job'[p].op = "claim" /\ job'[p].task = t
       => AllDepsClosed(file, t)]_vars

(* A claim that outlives its lease does not outlive the sweeps: it is      *)
(* renewed, released, taken over or reclaimed, also after a crash of its   *)
(* agent or of a sweep (claim.go:221 ReclaimExpired).                      *)
Overdue(t, o) ==
  Exists(file, t) /\ file[t].owner = o /\ file[t].expires < now

ExpiredIsReclaimed ==
  \A t \in Tasks, o \in Owners : Overdue(t, o) ~> ~Overdue(t, o)

-----------------------------------------------------------------------------
(* The claim API implements the atomic leases of ClaimLease.               *)
LeaseHolder == [t \in Tasks |-> IF Exists(file, t) THEN file[t].owner ELSE NoOwner]

LeaseEnd == [t \in Tasks |-> IF Exists(file, t) THEN file[t].expires ELSE 0]

LeaseEnds == {n + d : n \in 0 .. MaxTime, d \in Leases}

Lease == INSTANCE ClaimLease WITH
           holder <- LeaseHolder, expires <- LeaseEnd, Ends <- LeaseEnds

(* Every behaviour of the claim API alone is one of ClaimLease. *)
LeaseSpec == Lease!Spec

(* No two agents work on one task at the same time. *)
LeaseExclusive == Lease!LeaseExclusive
=============================================================================
