# Verification of fabrikk

fabrikk turns a specification document into a technical specification, an
execution plan and a set of tickets, hands the tickets to agents and verifies
what they deliver. This directory holds TLA+ models of it, the TLC runs that
check them on small instances, and proofs that TLAPS checks for every size.
`PROJECT.json` lists every component, run, mutant, mapped definition, finding,
hazard and theorem; this file explains them.

## 1. Inventory

| Part (source) | State it keeps | Operations | What is hard |
|---|---|---|---|
| Ticket store and claims (`internal/ticket/store.go`, `claim.go`, `format.go`) | `.tickets/<id>.md`: status, dependencies, claim; one `.lock` file per ticket | ClaimTask, ReleaseClaim, RenewClaim, ReclaimExpired, UpdateStatus, WriteTask(s), AddNote, AddDep, RemoveDep, Link, Unlink | many processes on one directory; locked and unlocked writers; leases against the clock; crashes between read and rename |
| Dependency analysis (`internal/ticket/deps.go`) | none | ReadyFilter, BlockedFilter, DetectCycles | agreement with the engine's own notion of readiness |
| Engine, tasks (`internal/engine/engine.go`) | `run-status.json`, `requirement-coverage.json`, events | Prepare, Approve, Compile, VerifyTask, RetryTask, UpdateTaskStatus, ReconcileRunStatus, claims | each operation is several unlocked reads and writes of several files |
| Engine, technical specification and plan (`techspec.go`, `plan.go`) | documents, reviews and approvals bound by content hashes | Draft, Review, CouncilReview, Approve of each | approvals of something that changed since its review |
| Compiler (`internal/compiler`) | none | waves, path conflicts, pruning, coverage | acyclicity and wave order of the result |
| Run directory (`internal/state`) | one directory per run | read and atomically write each file | not safe for concurrent use |
| Verifier (`internal/verifier`) | none | Verify | external commands |
| Learning store (`internal/learning`) | `index.jsonl`, handoffs | Add, RecordOutcome, Query, Maintain, Repair | one lock file, merging and garbage collection of records that others cite |
| Council (`internal/councilflow`) | round directories | RunCouncil, judge, approval | rounds that stop early, partial reviews |
| Agent daemon (`internal/agentcli/daemon.go`) | one Claude process, socket, query count | Start, Stop, Query, restart | a watcher of an old process acting on a new one |
| llmcli daemon helpers (`llmcli/daemon`) | lock file, queue, circuit breaker | Acquire/Release, Push/Pop/Close, Allow/Record | lock files removed under a waiter, wake-ups lost |
| llmcli backends (`llmcli/*.go`) | sessions with subprocesses | Stream, Close | answers that race cancellation |
| Command line (`cmd/fabrikk`) | none | one command per engine operation | commands run concurrently |

The parts meet in files only: a `fabrikk` command or an agent is one process,
the store's flock is the only mutual exclusion between processes, and the
engine's operations are sequences of separate file operations. What makes each
part correct is stated with its module below.

What makes each part correct, and where it is modelled:

- Ticket store and claims: two agents never work on one task; a running lease
  is ended only by its owner; an expired one is eventually freed; a locked
  operation replaces what it read; edits of dependencies are kept; a claim is
  only on a task marked as taken (`TicketStore`, `ClaimLease`); links name each
  other, and who locks two tickets never waits in a circle (`TicketLinks`).
- Engine, specification and plan: what is approved is what was reviewed; what
  is compiled is what was approved; a run that lost a command half-way can be
  completed by repeating it (`RunLifecycle`).
- Engine, tasks: status and coverage come to agree with the tickets
  (`RunStatus`); a run is not reported running or complete ahead of them
  (`RunLifecycle`).
- Dependency analysis and compiler: waves in dependency order, tasks on the same
  files one after the other, every requirement assigned, what is drafted passes
  its review (`PlanGraph`); the cycle search finds cycles and only those
  (`CycleSearch`).
- Learning store: no recorded outcome is lost to a concurrent command, a crash
  or a bad merge; what is in use does not expire; learnings do not supersede each
  other in a circle, as long as no local write failed (`LearningStore`).
- Council: a council that is run again asks nobody again who has answered
  (`Council`).
- Agent daemon: a call gets the answer to its own prompt, and each call ends
  (`AgentDaemon`).
- llmcli daemon helpers: one owner of the lock file (`LockFile`); the queue drops
  its oldest events only and wakes its consumers (`IngestionQueue`); every
  accepted request of the tool bridge is answered and can be cancelled
  (`Bridge`).
- llmcli backends: no frame of another turn, no process left behind, calls that
  are cancelled end, an answer that is said to be complete is
  (`CodexAppServer`, `ClaudeIPC`, `OmpRPC`, `OpenCodeServer`, `OneShot`).
- Verifier, run directory, command line: exercised by the others; no state of
  their own beyond files.

## 2. Modules

| Module | Models | Built on |
|---|---|---|
| `Agents` | owners and clock grain, shared by files and leases | |
| `TicketFile` | the contents of a ticket file and the functions on it | `Agents` |
| `TicketStore` | the ticket directory under concurrent processes | `TicketFile` |
| `ClaimLease` | what the claim API promises: atomic leases | `Agents` |
| `TicketLinks` | Link and Unlink on two tickets, their locks and rollback | |
| `RunLifecycle` | specification, plan, artifact and tickets of one run | |
| `RunStatus` | run status and coverage as views of the tickets | |
| `PlanGraph` | requirements, lanes, waves, slices, review, compiled tickets | |
| `CycleSearch` | the two depth-first searches for dependency cycles | |
| `LearningStore` | local and shared learnings under a file lock | |
| `Council` | rounds of a council, its cached reviews and judgements | |
| `AgentDaemon` | calls, restarts and watchers of the agent daemon | |
| `LockFile` | the PID lock file, system call by system call | |
| `IngestionQueue` | the bounded queue with its mutex and condition | |
| `Bridge` | reader, handlers and writer of the tool bridge | |
| `Peers` | a command-line process behind a persistent backend (external) | |
| `CodexAppServer`, `ClaudeIPC`, `OmpRPC` | turns over one such process | `Peers` |
| `OpenCodeServer` | calls that find, adopt or start an HTTP server | |
| `OneShot` | one process per call, from parser to caller | |
| `ClaimLeaseProofs`, `TicketStoreProofs`, `RunLifecycleProofs` | theorems | the module named |
| `PlanningProofs`, `LinkProofs`, `LearningProofs` | theorems: compiler, cycle search, council; links; learnings | `MCPlanning`, each on the one before |
| `RuntimeProofs`, `BackendProofs` | theorems: queue, lock file, bridge, run status; daemon and backends | `MCRuntime` |
| `MCTicketStore`, `MCRunLifecycle` | instances for TLC | |
| `MCPlanning` | `PlanGraph`, `CycleSearch`, `LearningStore`, `Council`, `TicketLinks` for TLC | |
| `MCRuntime` | `RunStatus`, `AgentDaemon`, `IngestionQueue`, `LockFile`, `Bridge`, the backends for TLC | |

`MCPlanning` and `MCRuntime` are sums, not products: their components share no
state in the code either, so a behaviour belongs to the one component that the
variable `part` names, and the variables of the others have the value `Unused`. A
product would multiply state spaces that never meet. Each property of these
modules is guarded by its `part` and otherwise the property of the component of
the same name. Variables of the same role (`job`, `faults`, `procs`, ...) are used by
several parts.

### The ticket store

`file[t]` is the frontmatter of `.tickets/<t>.md` as far as properties can tell
it apart: extended status, dependencies, owner and end of the claim. `TicketFile`
has the pure functions on it: which claims are eligible
(`validateClaimEligibility`), what each operation writes, and the detail that
makes the store hard to reason about: `UpdateFrontmatter` keeps a claim only if
the new status is an active one, and `formatTime` cuts a lease end to a whole
second, so the stored end may precede the end the agent computed. `Grain` is
the number of clock ticks in a second.

`lock[t]` is the flock of `<t>.md.lock`. A locked operation is two steps: the
first takes the lock, reads, validates and prepares the new contents
(`Prepare`); the second renames them into place and unlocks
(`WriteAndUnlock`). In between the clock moves, processes die (`Crash`), the
write may fail (`WriteFails`), and those that take no lock go ahead. These are
`CompileWrite` and `OrphanRemove` (`WriteTasks` never calls `withLock`), and the
reads of `RetryCheck`, `PersistRead` and `ReclaimScan`. `job[p]` is what a process
is in the middle of. The write of `persistVerifiedTask` is locked, but covers
only the write; the read is another, unlocked, step. `nominal` is a history
variable: what each agent believes about its lease, as it knows only the
instant it asked and the length it asked for.

`ClaimSpec` is the claim API: claims, renewals, releases, sweeps, progress
reports of agents that were once granted the task (they need not know that
their lease ran out), notes and dependency edits. `Spec` adds what takes a task
from whoever holds it: verdicts, retries, arbitrary status updates and
recompilation. `ClaimLease` is the abstract promise: `Grant`, `Release` and
`Reclaim` as atomic steps on leases, no files, locks or processes. `LeaseSpec` is
its specification under the mapping `LeaseHolder`/`LeaseEnd` of files to leases.

Abstractions. The instant `ClaimTask` validates at and the one it computes the
lease from are one step, both are taken under the lock. `WriteTasks` writes
its tickets in any order (the code takes the order of the compiler); an error
half-way is a `Crash`. The body of a ticket, notes, links, owned paths, ids and
corrupt files are left out, as is the epic ticket that `CreateRun` adds. A claim
rule of the specification document that the code does not implement ("owned
paths reserved") is not in the model either.

### The run

`run` is the run directory: specification, its review and approval, plan, its
markdown rendering, its review and approval, artifact, tickets, coverage,
status. Each file is read or replaced in one step (`WriteAtomic`), and a command
is a sequence of such steps; `job[p]` holds what it has read so far. The code
binds these documents to each other by SHA-256; here the content itself stands
for its hash, that is, the hash is taken as injective. A specification is an
opaque content, of which only matter whether it has all required sections
(`Sound`) and no open annotation (`Clean`). A plan is what it was drafted from,
its status, which is part of the hashed file, and a number, since
`GeneratedAt` makes every draft a content of its own.

| Command | Actions |
|---|---|
| tech-spec draft / review / approve | `SpecDraft`; `SpecReviewRead`, `SpecReviewWrite`; `SpecApproveRead`, `SpecApproveCheck`, `SpecApproveWrite` |
| tech-spec review with council | `SpecCouncilRead`, `SpecCouncilWrite`, then the review |
| plan draft | `PlanDraftRead`, `PlanDraftCheck`, `PlanDraftBuild`, `PlanWrite`, `MdWrite` |
| plan review (with council) | `PlanReviewRead`, `PlanWrite`, `MdWrite`, `PlanReviewHash`, `PlanReviewWrite` (`PlanCouncilRead`, `PlanCouncilSee`, `PlanCouncilWrite`) |
| plan approve | `PlanApproveRead`, `PlanApprovePlan`, `PlanApproveCheck`, `PlanWrite`, `MdWrite`, `PlanApproveHash`, `PlanApprovalWrite` |
| approve | `ApproveRead`, `Gate*`, `ApproveWrite`, `ApproveStatus`, `CompileRead`, `Gate*`, `Lineage*`, `CompileTickets`, `CompileCoverage`, `CompileStatus` |
| boundaries set | `BoundsRead`, `BoundsWrite` |
| verify, retry, and the engine calls that change a task | `TaskStart`, `SyncRead`, `SyncWrite`, `RefreshStatus` |
| status | `ReconcileRead`, `ReconcileArtifact`, `ReconcileInfer`, `RefreshStatus` |

Abstractions. What the structural review of a plan finds is the constant `Fit`,
the drafts that pass; what a council says is a free choice, and whether one is
asked at all. The council of a plan follows a passing review in the same
command, as in `cmdPlan`. `WriteTasks` is one step here; `TicketStore` has it in
detail. A file access that fails, a rename that succeeded before the failing
fsync of its directory, and a plan outside `Fit` that does not compile, all end
the command: `Crash`. `refreshRunStatus` may find all tickets done and write
"completed" instead of the status it is asked for (`Refresh`). The event log
is left out: nothing reads it to decide.

The status of a run has many writers: Approve and Compile, and every command on
a ticket that ends in `refreshRunStatus`. Of these only what they do to the status
and the coverage matters here: which status the tickets give is a free choice of
`OfTickets`, made from tickets alone (`Inferred`), and a sync writes the coverage back
that it read, if there was one. What exactly they compute from the tickets is in
`RunStatus`. `torn` is history: a compilation has ended between the tickets and the
first coverage, so that the run has tickets without it, which commands on
tickets and `fabrikk status` tolerate and later compilations repair.

### Views of a run

`RunStatus` is what a command does after it changed a ticket. Each of `Verify`,
`Retry`, `UpdateTaskStatus`, `Claim` and `Sweep` writes its ticket and then goes on to
`SyncRead`/`SyncWrite` (`syncCoverageFromTasks`), `RefreshRead`/`RefreshWrite`
(`refreshRunStatus` with its completion override), both, or neither, as its
function in `engine.go` does; claims and sweeps do not sync. `fabrikk status` is
`ReconcileStart`, `ReconcileRead` and, if `NeedsRefresh`, a refresh from tickets read
again. Other commands get in between every two of these steps. `apart` and
`alone` are history: no command overlapped another, or this one.

### From requirements to tickets

`PlanGraph` runs through `compiler.go` and `plan.go` in phases: `Prune` drops lane links
that couple nothing, `Depth` computes one depth per step, `Move` takes a conflict of
a wave and moves the less busy task on, `Cascade` moves dependents that the moved
task has caught up with, `Draft` makes slices, `EditPlan` is a user with an editor,
`CompilePlan` is the review (`EdgeFindings`, `Acyclic`, `WaveFindings`, `Uncovered`) followed
by `CompileExecutionPlan` with its `Barrier` between waves. Paths are sequences of
components and `PathsOverlap` is prefix. The review's cycle search is `Acyclic` here
and step by step in `CycleSearch`, which takes colours, parents and the stack of
calls from `deps.go` and stops at the first cycle when it is the engine's.
The order of the queue and of the roots is any, which is more than the code does
with a slice and exactly what it does with a map.

### Links, learnings, councils

`TicketLinks` takes the two locks in path order (`LockOrder`), reads both files, writes
them one after the other and rolls the first back if the second fails;
`StartRewrite` is any other operation that rewrites one file.

`LearningStore` reads both files under the lock, decides (`WithOutcome`, `Dedup`,
`Expire`, `Collect`), then writes the local file (`LocalFails` is a warning only), the
shared one, the index and the prevention checks, each a step at which the command
may die. `BadMerge` leaves a line in the shared file that `View` skips and `Repair` drops.
`acked` is history: the outcomes `RecordOutcome` has reported as recorded.

`Council` has one command at a time: `PersonaStage` (asked, generated or cached),
`RunRound` with `Reviewed` or `ReviewerFails` for each pending persona, `JudgeStage` with its
cached consolidation, `EndRound`, `Finish`. `hash`, `reviews` and `judged` are the files of a
round; `Abort` leaves them as they are and `Edit` changes the text for the next
command. They are written with `os.WriteFile`, which truncates first: `HashCut`, `ReviewCut`
and `JudgementCut` are a death or an error (a full disk) in between, after which what
was stored there is gone. `kept` is history: which reviews were stored for which
text and mode, less those whose file, or whose round's hash, was cut short since.
So `ResumeKeepsWork` says that an interruption costs no more than the file it cut;
that it costs nothing is `StoredStays`, which is false (section 3).

### Processes and goroutines

Each goroutine is a program counter (`call[c].pc`, `daemon[d].pc`, ...) and each action
what happens between two points at which another can run: a system call, one
holding of a mutex, one channel operation. In short:

| Module | Source | Correspondence |
|---|---|---|
| `AgentDaemon` | `agentcli/daemon.go` | a call restarts if `needsRestart` or the threshold says so, dials, writes its prompt, waits, counts, returns or falls back; `startedBy` is the context a process was started under; `IdleFor`/`IdleStop` are the two halves of a watcher |
| `IngestionQueue` | `llmcli/daemon/ingestion_queue.go` | one action per holding of the mutex; `Signal` wakes any one waiter; `WatchBroadcast` is the goroutine that wakes a Pop whose context ended |
| `LockFile` | `llmcli/daemon/lockfile.go` | one action per system call; `files` are inodes, `path` the one the name leads to; a lock is on the inode; `Probe` is `ReadPID` of someone else |
| `Bridge` | `llmcli/bridge/run.go`, `daemon/lifecycle.go` | reader, one goroutine per request, writer, and `Lifecycle.Run` around them; `responses` is the channel of capacity `Capacity` |
| `CodexAppServer` | `llmcli/codex_appserver.go` | `Take` to `Release` of the token, handshake, send, `ReadLine`, one frame, and the watcher (`WatchSelects`, `WatchReturns`, `WatchRestarts`) that kills the process of a cancelled turn |
| `ClaudeIPC`, `OmpRPC` | `llmcli/claude_ipc.go`, `omp_rpc.go`, `omp.go` | start or reuse under the backend's lock, then the turn lock of the process that was found, which may be another one's by then |
| `OpenCodeServer` | `llmcli/opencode_http.go` | fast path, slow path under `spawnMu`, adopt, start, readiness, publish, then three requests to whatever URL the backend holds |
| `OneShot` | `llmcli/claude.go`, `omp.go`, `textstream.go`, `subprocess.go`, `events.go`, `metrics.go` | parser, watcher and killer of the process, the terminal event, `observeStream` (`Relay`) and the caller (`Receive`, `Leave`) |

`Peers` is external: a process that answers requests in order, may send an error
frame, may die. A frame remembers whose request it answers; nothing on the wire
does, so the backends cannot look at it and only properties do.

Abstractions. Time-outs are choices that cost a fault. JSON, prompts, approvals and
items of a turn are out, as are a handshake that a living Codex process refuses, and
the `set_model` and abort requests of omp. `StopDaemon` is one step, `sync.Once` makes others wait for
it. A handler of the bridge does its work in one step.

## 3. Runs

| Run | What it asks | Instance |
|---|---|---|
| `claim_lease` | Does the claim API implement the atomic leases, with locks, renames, failures and crashes in between? Is a locked update ever lost, a running lease ended by another, an expired one never freed? | two agents, three processes, one task |
| `store_compile` | With all engine operations and a recompilation: does a claim survive on a task that counts as free or finished? | two processes, two dependent tasks |
| `chain_serial` | One user, all commands, crashes anywhere: is only a reviewed plan approved, does the council see the plan it judges, do tickets follow the current specification, does repeating the commands get a run through? | one process, three specifications, two drafts |
| `chain_parallel` | Two processes and crashes: are approved specifications sound, tickets traceable to one, are status and coverage, whichever command writes them, never ahead of the tickets, and is no coverage lost? | two processes, three specifications, one draft |
| `planning` | Do waves, conflicts, review and barriers agree for every small graph? Is every cycle found? Do learnings, council files and links survive what happens between two steps? | the sum `MCPlanning` |
| `runtime` | Do status views converge? Do callers of shared processes get their own answers, is nothing lost, does what was called end? | the sum `MCRuntime` |

Distinct states: `claim_lease` 103 thousand, `store_compile` 2.0 million,
`chain_serial` 397 thousand, `chain_parallel` 4.5 million, `planning` 2.2 million,
`runtime` 609 thousand.

The violation runs are findings, each against a sentence of the repository:

| Run | The code | The sentence |
|---|---|---|
| `half_approved` | `Approve` does not check the lineage of the plan that `Compile` then rejects | "a failed Compile cannot leave the run in a half-approved state" |
| `council_undone` | a repeated structural review erases the council's findings | "Blocking council findings prevent plan approval" |
| `plan_cycle` | the review lets a slice depend on one of a later wave; the barrier adds the opposite edge, and no ticket is ever ready | the review validates "correct wave ordering and dependencies" |
| `daemon_restart` | the restarted agent daemon lives under the context of the query that restarted it and dies with it | "before the next daemon-eligible query, a fresh daemon is started" |
| `omp_refused` | a refused `set_host_tools` closes the channel but not the parser, which then sends on it | "exactly one terminal event [...] and that the channel is closed exactly once" |
| `lock_released` | `Release` unlocks before it removes the file: two daemons can own the lock | "an exclusive lock file to prevent multiple daemon instances" |

Some properties are stated in the modules and belong to no run: each fails, for the
code does nothing to ensure it. They are kept as a record of what may not be
relied on.

| Module | Property | What happens |
|---|---|---|
| `TicketStore` | `RetryOnlyRetryable` | `RetryTask` checks outside the lock: a task claimed meanwhile is reset |
| | `OrphansStayRemoved` | a locked writer that has read an orphan writes it back |
| | `TakenHasClaim` | a late progress report after a sweep marks a task as taken that no sweep will free |
| | `ClaimHasDependencies`, `ReadyDependenciesDone` | `ClaimTask` looks at no dependencies, and `ReadyTasks` takes a failed one for resolved |
| | `DependencyKept` (under `Spec`) | a verdict writes back the task it read without the lock; it holds for the claim API (`claim_lease`) |
| `RunLifecycle` | `ApprovedPlanIsFit` with two processes | the hash of a review is that of a second read of the plan (`plan.go:331`) |
| | `DispatchesApprovedArtifact` | no code compares `ArtifactHash` |
| | `RunningIsCovered` | Compile writes the status after the coverage (`engine.go:219-230`), but `fabrikk status`, verify and retry infer "running" from tickets alone, and a missing coverage is tolerated (`engine.go:1093-1097`): after a death between `engine.go:215` and `219`, or just then, the run is running without coverage |
| `RunStatus` | `CompletesWhenCovered` | the override for finished tickets does not look at the coverage |
| `LearningStore` | `SupersessionEnds` without its guard `~localFailed` | a maintenance whose local write fails leaves 1 superseded by 2 in the shared file only; a later one decides from the local file, supersedes 2 by 1 there, collects 1 and dies before it writes the shared file: two learnings supersede each other |
| `Council` | `StoredStays` | "fully written to a temporary file and atomically renamed into place" (`council-review-pipeline-spec.md:123`): `runner.go:56` and `319` write in place, so a run again that dies at line 56 makes the next one ask every reviewer anew |
| | `CouncilKeepsTheText`, `ReviewsAreOfTheText`, `CachedHeardAll` | reviewers read the file as it is by then, and a judgement from the cache may be of another text or not have heard a review |
| `IngestionQueue` | `PopWakes` | a signal may wake a consumer whose context has ended, which returns without passing it on, as its watcher may leave without a broadcast |
| `Bridge` | `NoneWorksForNobody` | a request read while the writer fails is registered after `cancelAll` |
| `CodexAppServer` | `AnswersAreOwn`, `EndTurnIsAnswered` | frames of a cancelled turn reach the next one; the end of the output may end a turn well |
| `ClaudeIPC` | `AnswersAreOwn`, `CloseLeavesNone`, `TurnsCanGoOn` | the same; of two processes started at once the second publication loses the first; a request to a dead process is swallowed and the next one blocks |
| `OpenCodeServer` | `DeadServersAreReplaced`, `OneServerAnswers` | the requests of a call go to the URL the backend holds by then |
| `OneShot` | `AllEnd`, `CancelledIsSaid` | a caller that leaves blocks the relay; the call of a process that was killed may still end well |

Other properties hold only with a part of a hazard left out, which their guards and
the notes in `PROJECT.json` name: `LockedWriteIsCurrent`, `LiveLeaseKept` and
`DependencyKept` are about the claim API and not about recompilations or verdicts;
`CoverageIsCurrent` and `ReconcileRepairs` about commands that neither overlap nor
die (`StatusConverges` has those); `NoneSleepsOnEvent` about consumers whose context
goes on; `OneOwnerUntilOneEnds` about daemons of which none has ended.

### Bounds

Constants of the configurations: `MaxTime` stops the clock, `MaxCompiles` and
`MaxDrafts` bound recompilations and plan drafts, `Leases` are the lease lengths.
`claim_lease` uses leases of three ticks with two ticks to a second, so a lease
ends in the middle of a second and the stored end differs from the computed
one, and a clock that runs to five: a lease can end, be swept and be granted
anew. Three processes allow a claimant, a sweep and a rival between the
two halves of one write. `store_compile` lets leases expire at once, which
exposes every takeover, and needs two tasks for dependencies and orphans. The
runs of the chain take every combination of `Sound` and `Clean` that fails one
check, two drafts of which one is unfit where `Fit` matters, and a boundary
value that asks first. `chain_parallel` has one draft: its properties do not
compare drafts, and the proofs below cover any number. Symmetry is used over
owners and processes, apart from the sweeper, and only in runs without
liveness.

`planning`: four requirements in up to two lanes (`N`, `Lanes`), each owning one of
four sets of packages of which one is inside another, with or without explored
files: a moved task can cascade over two others and meet a second conflict. One
edit of the plan (`MaxEdits`) gives every plan the review must reject for one
reason; `plan_cycle` needs three lanes of one requirement. All graphs on three
nodes, with every choice of closed tickets: a cycle of each length, and one
reached from outside. Three learnings of which two are alike, two commands, one
fault and one merge of each kind; a third learning is the one that must not be
touched. Three commands of a council allow one that dies, one that resumes and
one after an edit or in the other mode; the fault may be a write cut short. One
round shows all of its steps; two of them, with two commands in one mode, are
another 10.9 million states, and the theorem covers every number of rounds and
modes. Three tickets are the least with which two pairs share one;
two faults are a failing write and its failing rollback.

`runtime`: two tickets of which one covers two requirements, two commands and one
crash. Three calls of the daemon, two at once, with a threshold of two: the third
meets a restart asked for by the second. Three consumers of a queue of two, four
events: it overflows and a newcomer can take what a sleeper was woken for. Three
daemons: an old owner, one that waits and one that comes later. Three lines with
two ids to the bridge and a channel of one: an id is used again while its first
request is at work and responses wait. Two turns or calls and two faults for the
backends: one that goes wrong and one that follows. Two frames per answer for a
one-shot process: something before the last.

Deadlock is checked in the other runs; in the sums the parts end when their
calls are done, so `CHECK_DEADLOCK FALSE` is set there.

### Fairness

`claim_lease`: time passes; who holds a lock finishes, fails or dies; one
process keeps sweeping. The last is the orchestrator's duty by section 8.2 of
the technical specification ("engine expiry check interval: 30 seconds"); no
command of `cmd/fabrikk` calls `SweepExpiredClaims` itself. Strong fairness on the
sweeper's locks stands for flock, which queues its waiters. That process may
crash in a sweep, but not forever, and not every write of a reclaimed ticket
fails. Agents owe nothing.

`chain_serial`: the user of one process keeps repeating the commands (strong
fairness on their first steps: a command that is rejected now may be accepted
later), a command that has started goes on, and crashes are finitely many. This
last is stated as "from some time on every step is a command's own", since a
check that fails ends a command in the same state as a crash. A council need
not be asked; one that refuses the same plan for ever would of course keep it
from being approved, so that is excluded. Redrafts and boundaries may come or not:
`RunRecovers` says that again and again the run is through, or its plan is not one
that can be approved now (unfit, drafted from another specification, or behind a
boundary that asks first). A user who alternates between two specifications
for ever is never done.

`planning`: the compiler is one goroutine that goes on (`WF` on `Drafting`).

`runtime`: every goroutine that can go on does: the Go scheduler promises no more.
For the bridge, the one-shot calls and Codex these are reader, writer, handlers,
parser, killer, relay, watchers; a command of `RunStatus` goes on, and the user asks
for the status again and again. A behaviour is one of a single part, so that the
condition "the i-th goroutine goes on" is one conjunct for all of them
(`\A i \in 1 .. 6 : WF(Goes(i))`) and not one per part. For the same reason `CallsEnd`
is one condition that holds from some time on: what has to end (`MustEnd`) and what
has ended (`Ended`) stay so, and the calls are finitely many. Nothing is assumed of the
processes behind the backends: a silent one is why calls need their
cancellation. That the agent daemon's Claude process answers is assumed only as far as
the deadline otherwise passes, which `MaxDaemonFaults` does not let happen for ever.

## 4. Proofs

TLAPS proves every safety property of the passing runs, the type invariants
included, for all values of the constants that meet the assumptions
`OwnersAssumption`, `GrainAssumption`, `NoFileAssumption`, `StoreAssumption`,
`LifecycleAssumption` (names for "no owner", "no file", "no process" are none of the
real ones, a second has at least one tick, sets of inputs are of the right
kind) or the hypothesis stated with the theorem:

| Hypothesis | Says | Because |
|---|---|---|
| `Alone` | at most one process | the property is one of a single user |
| `SomeRequirements`, `SomeRounds`, `Capacities` | at least one requirement, round, place in the queue | with none there is nothing to do |
| `SomePaths` | every requirement owns a path | `scopeForGroup` falls back to a default (`compiler.go:794`) |
| `SomeNodes`, `Numbered` | tickets are finitely many numbers, 0 (no process) is none of them | the order of ids or paths, which the searches and the locks use |
| `SameAge` | what is collected has been unused as long as what expires | both are 90 days for every caller (`main.go:542`, `main.go:1160`, `learn.go:404`, `learn.go:413`) |
| `NoneIsNoId` | the empty `superseded_by` is no id | ids are never empty |
| `Pids`, `Views` | "nobody" and "unset" are no daemon, no status | |
| `Lengths`, `TurnBounds`, `CallBounds`, `PromptBound`, `EditBound`, `LearnBounds`, `LinkBounds` | bounds are natural numbers | any will do |

The proofs about a part of a sum first show that `part` never changes and that a
step of the sum is one of the part or a stutter; then the invariant is one of
the component. Its theorems are those the run checks. The types of a sum
(`PlanningTypes` in `LearningProofs`, `RuntimeTypes` in `BackendProofs`, each the last of its
modules) join the invariants of all parts, with what the types say beyond them.

`ClaimLeaseProofs`. `LeaseExclusive` speaks of what agents believe and the store
of what it has written, so it is not inductive. `Agreed` joins them: an agent
that may be working is the one the store names, and the stored end is its own
computed end cut to a second. With `StoredBounds` (cutting loses less than a
second) no one else passes the check of `Grant` or `Reclaim` before that agent
must stop. Two agents that work on one task would both be the holder.

`TicketStoreProofs`. `StoreInv` strengthens the invariants of the files by what
holds between the two halves of a locked operation: buffers about to be
written are as sane as files (`BufsSane`), the writer has the lock (`LockHeld`),
a sweep compares with a past time (`CutsPast`), and a claim or sweep that passed
its check can still take the task (`LeasesEnded`): time only helps, lock holders
exclude each other, and the writers without a lock leave no claim behind. The
proof sorts all actions into three kinds of step (prepares a write, moves on
without a lock, finishes a write) and proves preservation per kind. It gives
`Typing`, `Activeness` and `LeaseKept` for `Spec`, engine operations included.
For the claim API alone, `ClaimInv` adds that all files exist, that every
prepared write still finds what it read, and that a write which is not the one
of RemoveDep keeps the dependencies it read (`Ready`). Then each rename maps to one
step of `ClaimLease` and every other step to a stutter or to `Tick`:
`Refinement`. `Exclusivity` is `Exclusive` of the abstract leases, carried over by
the refinement, and `DependenciesStay` follows from `Ready` at the rename.

`RunLifecycleProofs`. `ChainInv` says of the files that each approval, plan and
ticket stems from an approvable specification, and of every command in
progress that what it carries from earlier reads does so too (`JobOK`). That is
what other processes cannot spoil: they may replace every file the command has
read, but not make the content it carries worse; and tickets and coverage, once
written, never disappear. Hence `ChainTypes`, `SpecApproval` and `Traceability` for
any number of processes. `StatusFollows` adds `Covering`: tickets without coverage mean
that a compilation is at its coverage or ended there (`torn`). A command writes
tickets only on its way to the coverage, and a sync that read one writes
one back, so no other writer of the status or the coverage, whatever
it read before, can take the coverage away or be ahead of the tickets. `AloneInv` is for one: what the command
has read is what the file still holds, between the two reads of a review as
well, and a review that passes is one of a plan that is fit and among those
drafted. Hence `ApprovalIsFit`, `CouncilJudgesIt` and `TicketsOfTheSpec`, crashes
included; with two processes each of them is false.

`PlanningProofs`.

- `WavesFollowDeps`: `WavesRespectDeps` is false while a cascade is under way, so
  `PlanInv` names what is true then. `Lagging(M)`: the tasks in `M` have moved by one
  since the waves were last in order, and a moved task has caught up with an
  unmoved dependent only if it still waits in the queue. A task in `M` cannot be
  caught up with again, so each moves once per cascade, and when the queue is
  empty nothing lags.
- `DraftsAreAccepted`, `ConflictsAreApart` (`DraftInv`): waves are numbered without a gap,
  since depths are and a task only moves into a wave that exists or the next
  one (a wave left empty would, by the pigeonhole principle, leave more waves
  than tasks); the slices repeat the waves; and within a wave that is done no
  two tasks overlap, so two that do are in different waves, and the barrier
  makes one wait for the other.
- `SearchFindsCycles` (`SearchInv`): the gray nodes are the stack, and each is the
  parent of the next, so an arrow into one closes a cycle. Conversely an arrow
  from a black node leads to a black one: when no cycle was reported, the last
  node of a cycle to be finished would have had to wait for one finished before it.
- `ResumeAsksNobodyTwice` (`ResumeInv`): a review that was stored for the text and mode at
  hand, and not cut short since, is in the files of its round, under the hash of that
  text (`KeptIsStored`): a round forgets them only when its hash is another one, a cut
  hash forgets its round and a cut review only itself (`CutInv`); and a command that
  is reviewing has written that hash (`AtWork`), so what it does not ask for is what
  it found.
- Types: the phases and the bound on edits (`PlanTypes`). Those of the cycle search are in
  `SearchInv`. Of the council (`RoundsOK`,
  `CouncilOK`): a round has at most one persona set, hash and judgement, the
  judgement decides on nothing it has not heard, and a command waits for and hears
  only those it asked. The second needs that nobody is waited for outside the
  review stage, and nobody heard before it: a new round asks others.

`LinkProofs`. `LinksGoBothWays`: while nobody has the locks of two tickets, each names the
other or neither does. `LinkInv` adds who has which lock in which order, and what
the two files hold when a command is between its two writes (`Midway`), so that both
the second write and the rollback make them agree again. That nobody waits in a
circle follows from the order in which locks are taken. The bounds on operations and
faults are `LinkCounts`.

`LearningProofs`.

- `OutcomesKept`, `UsedStaysActive` (`LearnInv`): no learning in the local file, the shared file or
  what is about to be written counts fewer outcomes than were acknowledged
  (`Counted`, `Noted`), and one with an outcome within the expiry is in the local file
  (`Fresh`): what expires is collected at once, by `SameAge` nothing that was used since.
  All this as long as no local write failed.
- `SupersededByTheEnd` (`HideInv`): the arrows of `superseded_by` among what is in the
  shared file, or about to be, make no circle (`Free`), and whoever is superseded
  there is superseded by the same in the local file. `Dedup` adds only an arrow from
  a learning without one to one without, or to one whose arrow leads there, so
  that every set of learnings still has one whose arrow leaves the set (`Ends`).
- Types (`TallyInv`): a learning in a file, or about to be written to one, helped no
  more often than it was attached, and was attached no more often than
  outcomes were recorded, through maintenance, merges and crashes; and as no id is twice in a file
  (`HideInv`), a file has as many ids as lines (`IdsCounted`, from a bijection).

`RuntimeProofs`.

- `QueueKeepsNewest`: the queued events are the last ones enqueued, without a gap,
  and all that was taken came before them (`Ordered`). `NoWakeUpIsLost` counts: while a
  consumer sleeps and no context has ended, as many are awake as there are
  events, since each event wakes one and one that takes an event leaves one
  less of both.
- `StartersExclude`: until some daemon has ended, or someone has probed the lock by
  taking it, there is one inode, the path leads to it and its flock is the
  owner's (`OneFile`); a PID read from it is of someone alive, so nobody removes it.
- `AtWorkIsCancellable`, `EachIsAnswered`: a handler at work is the one its id is registered
  for, as `Register` refuses an id in use (`Registered`); the channel is closed only
  after the reader and all handlers are done sending (`Closed`); the response of a
  handler that is done has been written, or waits in the channel, unless the
  writer failed (`Sent`).
- `CoverageFollowsTasks`, `StatusIsRepaired` (`ViewInv`): a command in whose course nobody else wrote
  has read what the files still say, and each step of it writes views of that.

`BackendProofs`.

- `AnswersGetThrough` (`ShotInv`): no channel holds a terminal event but the one that was
  fired, which happens once (`Fired`); that a text is complete is said only once
  the process has ended well and its output was read to the end (`ReadOut`).
- `AnswersAreOwn` for Codex, Claude and omp (`CodexInv`, `ClaudeInv`, `OmpInv`): each request and its
  frames are on the wire once, in order, and end with the final frame; a process
  that was ended is read by nobody again; and what is on its way from any other
  belongs to the turn that reads, or to one that left early or was misled itself.
  Of the daemon (`DaemonInv`): it restarts at most once before a call begins and once
  before it is over, which bounds the processes, and one that runs has only
  what it was asked last to answer.
- `ProcessesAreKnown` for Codex, omp and OpenCode (`OpenInv`): only the holder of `spawnMu` has a server that
  it started and has not published, and the backend holds none meanwhile.
- `RuntimeTypes` adds to these: at most the latest process of the daemon runs, listens
  and is watched (`DaemonPlaces`); a PID in a lock file is one of a daemon, and who
  holds a file holds one that exists, also after its owner has ended (`LockTypes`, which
  unlike `OneFile` asks nothing of the past); the channel of the bridge keeps within its
  capacity and the registry names handlers that exist (`BridgeSizes`); an answer of
  OpenCode comes from servers that were started (`OpenAnswers`).

One statement was wrong before it was proved: a turn of Codex that is fed the
final frame of a cancelled one ends early and leaves its own frames to a third,
so that with three turns the culprit need not be the turn just before. TLC shows
this with three turns; the run keeps two, the theorem is about any number.
Likewise `SupersessionEnds` needs its guard for three faults, where the run has one.

Induction over data is done with what the provers can use: the least or greatest
element of a set of numbers (`Least`, `Greatest`, `Inductive`, `UpTo` in `PlanningProofs`) in
place of the induction theorems of the library, whose operator parameters they
cannot instantiate, and `Iterates` for the values of recursive functions (`Select`, `Dedup`).

Only model-checked: liveness (`ExpiredIsReclaimed`, `RunRecovers`, `WavesAreFound`,
`CallsEnd`, `StatusConverges`), which is out of reach of the prover.

## 5. Not modelled

`PROJECT.json` lists every component with its status. Left out for good, with
the reason:

- Verifier: external commands and a conjunction of checks; its verdict is an
  input of `TicketStore` and `RunStatus`.
- Ticket ids, the exploration of the code base, the sanitizer, prompts, output
  parsers, help texts, renderings: formats and text matching without state.
- Circuit breaker (`llmcli/daemon/circuit_breaker.go`): nothing in the repository
  calls it, so there is no use of it to be faithful to.
- Windows lock file: another kernel's semantics.
- Queries and handoffs of learnings, counters of metrics, readiness probes, choice
  of a backend, ollama (one HTTP request), options: read only or without
  interleavings.
- The epic ticket of `CreateRun`, corrupt ticket files, the event log, the task
  store of the run directory: written and not read to decide anything.

## 6. What is left

1. `RunStatus` over `TicketStore` in place of atomic ticket writes.
2. The tool bridge behind a persistent backend (`OmpRPC` with host tools that take
   time), and Codex approvals.
3. Verification reports and the event log, once something reads them.
