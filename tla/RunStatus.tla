------------------------------ MODULE RunStatus ------------------------------
(***************************************************************************)
(* The two views the engine derives from the tickets of a run: the         *)
(* coverage of requirements and run-status.json.  Every command that       *)
(* changes a ticket goes on to write one or both, each from tasks it reads *)
(* itself, and `fabrikk status` reconciles the status with the tickets.    *)
(* There are no locks between commands.                                    *)
(*                                                                         *)
(* A ticket is its status and the findings that are its reason; how its    *)
(* file is written is TicketStore.  The tickets a requirement is covered   *)
(* by do not change, and with them the number of uncovered ones.           *)
(***************************************************************************)
EXTENDS Naturals, FiniteSets

CONSTANTS
  Tasks, Reqs,
  Covers,       \* Covers[r]: the tickets that cover requirement r
  Findings,     \* findings of the verifier
  SetStatuses,  \* statuses passed to UpdateTaskStatus and ReleaseTask
  Procs,        \* commands that may run at once
  MaxCommands,  \* bound: commands that change tickets
  MaxCrashes,   \* bound: deaths of commands
  Unset

VARIABLES
  task,      \* task[t]: its status and reason
  coverage,  \* coverage[r]: the status requirement-coverage.json gives r
  status,    \* run-status.json
  job,       \* job[p]: what command p is in the middle of
  commands, crashes,
  apart      \* history: no two commands overlapped and none died

statusVars == <<task, coverage, status, job, commands, crashes, apart>>

Done == {"done"}
Stuck == {"blocked", "failed"}
Statuses == {"pending", "claimed", "repair_pending"} \cup Done \cup Stuck

(* deriveCoverageStatus: one finished ticket satisfies a requirement. *)
Coverage(r, tasks) ==
  LET has(S) == \E t \in Covers[r] : tasks[t].status \in S IN
  CASE has(Done) -> "satisfied"
    [] ~has(Done) /\ has(Statuses \ (Done \cup Stuck)) -> "in_progress"
    [] ~has(Statuses \ Stuck) /\ has(Stuck) -> "blocked"
    [] OTHER -> "unassigned"

Covered(tasks) == [r \in Reqs |-> Coverage(r, tasks)]

Counts(tasks) == [s \in Statuses |-> Cardinality({t \in Tasks : tasks[t].status = s})]

AllDone(tasks) == \A t \in Tasks : tasks[t].status = "done"

(* What a command wants the status to say. *)
Says(state, gate, blockers) == [state |-> state, gate |-> gate, blockers |-> blockers]

Completed == Says("completed", "completed", {})

Running(gate) == Says("running", gate, {})

(* blockedTaskSummaries: one blocker for each ticket, with all findings. *)
Summaries(tasks) == {<<t, tasks[t].reason>> : t \in {u \in Tasks : tasks[u].status = "blocked"}}

(* inferredRunStatus, of a compiled run. *)
Inferred(tasks) ==
  IF Summaries(tasks) # {} THEN Says("blocked", "verification", Summaries(tasks))
  ELSE IF AllDone(tasks) THEN Completed ELSE Running("dispatch_ready")

StatusFile(says, tasks) == [says |-> says, counts |-> Counts(tasks)]

NeedsRefreshUncounted(current, tasks) == current.says # Inferred(tasks)

(* statusNeedsRefresh *)
NeedsRefresh(current, tasks) == current # StatusFile(Inferred(tasks), tasks)

Idle == [pc |-> "idle", says |-> Unset, seen |-> Unset, alone |-> FALSE]

Init ==
  /\ task = [t \in Tasks |-> [status |-> "pending", reason |-> {}]]
  /\ coverage = Covered(task)
  /\ status = StatusFile(Running("dispatch_ready"), task)
  /\ job = [p \in Procs |-> Idle]
  /\ commands = 0 /\ crashes = 0
  /\ apart = TRUE

(* A write by p: no other command has the files for itself. *)
Disturb(p, next) == [q \in Procs |-> IF q = p THEN next ELSE [job[q] EXCEPT !.alone = FALSE]]

(* A command starts by writing a ticket: status and reason under the lock  *)
(* of the ticket.  It will sync the coverage if syncs, and then make the   *)
(* status say something, if it says.                                       *)
Command(p, t, to, reason, syncs, says) ==
  /\ job[p] = Idle
  /\ commands < MaxCommands
  /\ commands' = commands + 1
  /\ task' = [task EXCEPT ![t] = [status |-> to, reason |-> reason]]
  /\ job' = Disturb(p, IF syncs THEN [Idle EXCEPT !.pc = "sync", !.says = says] ELSE Idle)
  /\ apart' = (apart /\ \A q \in Procs : job[q] = Idle)
  /\ UNCHANGED <<coverage, status, crashes>>

(* VerifyTask, of a ticket in any status: done, or blocked by findings. *)
Verify(p, t, F) ==
  IF F = {} THEN Command(p, t, "done", {}, TRUE, Running("verification"))
  ELSE Command(p, t, "blocked", F, TRUE,
               Says("blocked", "verification", {<<t, {f}>> : f \in F}))

RetryAsOpen(p, t) ==
  /\ task[t].status \in {"blocked", "repair_pending"}
  /\ Command(p, t, "open", {}, TRUE, Running("dispatch_ready"))

Retry(p, t) ==
  /\ task[t].status \in {"blocked", "repair_pending"}
  /\ Command(p, t, "pending", {}, TRUE, Running("dispatch_ready"))

UpdateUnsynced(p, t, s) == Command(p, t, s, {}, FALSE, Unset)

(* UpdateTaskStatus, and ReleaseTask by the holder of a claim. *)
UpdateTaskStatus(p, t, s) == Command(p, t, s, {}, TRUE, Unset)

(* ClaimAndDispatch *)
Claim(p, t) ==
  /\ task[t].status \in {"pending", "repair_pending"}
  /\ Command(p, t, "claimed", {}, FALSE, Unset)

(* SweepExpiredClaims *)
Sweep(p, t) ==
  /\ task[t].status = "claimed"
  /\ Command(p, t, "pending", {}, FALSE, Unset)

(* syncCoverageFromTasks *)
SyncRead(p) ==
  /\ job[p].pc = "sync"
  /\ job' = [job EXCEPT ![p].pc = "cover", ![p].seen = task]
  /\ UNCHANGED <<task, coverage, status, commands, crashes, apart>>

SyncWrite(p) ==
  /\ job[p].pc = "cover"
  /\ coverage' = Covered(job[p].seen)
  /\ job' = Disturb(p, IF job[p].says = Unset THEN Idle
                       ELSE [job[p] EXCEPT !.pc = "refresh", !.seen = Unset])
  /\ UNCHANGED <<task, status, commands, crashes, apart>>

(* refreshRunStatus *)
RefreshRead(p) ==
  /\ job[p].pc = "refresh"
  /\ job' = [job EXCEPT ![p].pc = "write", ![p].seen = task]
  /\ UNCHANGED <<task, coverage, status, commands, crashes, apart>>

RefreshWriteCountless(p) ==
  /\ job[p].pc = "write"
  /\ LET seen == job[p].seen IN
       status' = [status EXCEPT !.says = IF AllDone(seen) THEN Completed ELSE job[p].says]
  /\ job' = Disturb(p, Idle)
  /\ UNCHANGED <<task, coverage, commands, crashes, apart>>

(* applyCompletionOverride: all tickets done is completed, whatever the    *)
(* command has to say.                                                     *)
RefreshWrite(p) ==
  /\ job[p].pc = "write"
  /\ LET seen == job[p].seen IN
       status' = StatusFile(IF AllDone(seen) THEN Completed ELSE job[p].says, seen)
  /\ job' = Disturb(p, Idle)
  /\ UNCHANGED <<task, coverage, commands, crashes, apart>>

(* ReconcileRunStatus: reads the status, then the tickets, and refreshes   *)
(* the status, from tickets it reads again, if the two do not agree.       *)
ReconcileStart(p) ==
  /\ job[p] = Idle
  /\ job' = [job EXCEPT ![p] = 
            [Idle EXCEPT !.pc = "compare", !.seen = status, !.alone = TRUE]]
  /\ apart' = (apart /\ \A q \in Procs : job[q] = Idle)
  /\ UNCHANGED <<task, coverage, status, commands, crashes>>

ReconcileRead(p) ==
  /\ job[p].pc = "compare"
  /\ job' = [job EXCEPT ![p] = IF NeedsRefresh(job[p].seen, task)
                               THEN [job[p] EXCEPT !.pc = "refresh", !.seen = Unset,
                                                   !.says = Inferred(task)]
                               ELSE Idle]
  /\ UNCHANGED <<task, coverage, status, commands, crashes, apart>>

(* A command dies, or one of its file accesses fails. *)
Crash(p) ==
  /\ job[p] # Idle
  /\ crashes < MaxCrashes
  /\ crashes' = crashes + 1
  /\ job' = [job EXCEPT ![p] = Idle]
  /\ apart' = FALSE
  /\ UNCHANGED <<task, coverage, status, commands>>

Goes(p) == \/ SyncRead(p) \/ SyncWrite(p) \/ RefreshRead(p) \/ RefreshWrite(p)
           \/ ReconcileRead(p)

Changes(p) ==
  \E t \in Tasks :
    \/ \E F \in SUBSET Findings : Verify(p, t, F)
    \/ Retry(p, t)
    \/ \E s \in SetStatuses : UpdateTaskStatus(p, t, s)
    \/ Claim(p, t)
    \/ Sweep(p, t)

Next == \E p \in Procs : Goes(p) \/ Changes(p) \/ ReconcileStart(p) \/ Crash(p)

(* Commands go on, and the user asks for the status again and again. *)
Fairness == \A p \in Procs : WF_statusVars(Goes(p)) /\ WF_statusVars(ReconcileStart(p))

Spec == Init /\ [][Next]_statusVars /\ Fairness

-----------------------------------------------------------------------------
TypeOK ==
  /\ task \in [Tasks -> [status : Statuses, reason : SUBSET Findings]]
  /\ coverage \in [Reqs -> {"satisfied", "in_progress", "blocked", "unassigned"}]
  /\ status.says \in [state : {"running", "blocked", "completed"},
                      gate : {"dispatch_ready", "verification", "completed"},
                      blockers : SUBSET (Tasks \X SUBSET Findings)]
  /\ status.counts \in [Statuses -> 0 .. Cardinality(Tasks)]
  /\ commands \in 0 .. MaxCommands /\ crashes \in 0 .. MaxCrashes

Exact == status = StatusFile(Inferred(task), task)

(* A reconciliation no other command writes into leaves the status exact,  *)
(* whatever crashed or raced before it (engine.go:884 "repairs stale       *)
(* run-status.json from canonical task/artifact state").                   *)
Repairs ==
  \A p \in Procs : job[p].alone /\ job'[p] = Idle /\ crashes' = crashes => Exact'

ReconcileRepairs == [][Repairs]_statusVars

(* Once tickets no longer change, the status comes to agree with them.     *)
StatusConverges == <>[]Exact

(* As long as commands come one after the other and none dies, the         *)
(* coverage between them is that of the tickets, although claims and       *)
(* sweeps do not sync it (engine.go:962, 1009).                            *)
CoverageIsCurrent ==
  apart /\ (\A p \in Procs : job[p] = Idle) => coverage = Covered(task)

(* "A run can transition to completed only when: every requirement [...]   *)
(* is satisfied or deferred in requirement-coverage.json"                  *)
(* (docs/specs/fabrikk-technical-spec.md:773-775).                         *)
CompletesWhenCovered ==
  [][status.says # Completed /\ status'.says = Completed
       => \A r \in Reqs : coverage[r] = "satisfied"]_statusVars
=============================================================================
