----------------------------- MODULE MCRuntime ------------------------------
(***************************************************************************)
(* The components that run beside each other while fabrikk works, for TLC: *)
(* the status of a run, the agent daemon, and the parts of llmcli.  They   *)
(* share no state: a behaviour is one of any of them, which part says, and *)
(* the variables of the others idle.                                       *)
(***************************************************************************)
EXTENDS Naturals, FiniteSets, TLC

CONSTANTS
  Parts, Unused,
  Tasks, Reqs, Covers, Findings, SetStatuses, Procs, MaxCommands, MaxCrashes, Unset,
  Prompts, AtOnce, Threshold, RestartOnThreshold, MaxDaemonFaults,
  Poppers, Cancellable, MaxSize, MaxEvents,
  Daemons, Nobody,
  RequestIds, MaxLines, Capacity,
  MaxTurns, MaxCalls, MaxUnread, MaxFaults,
  Ports, Kinds, MaxFrames

VARIABLES
  part,
  task, coverage, status, job, commands, apart,
  started, current, alive, socket, startedBy, watchers, due, stopped,
  needsRestart, count, stream, daemonFaults, fallbacks,
  enqueued, dropped, pop, ctx, taken, removed,
  path, files, daemon, ended,
  reader, lines, registry, responses, channel, writer, cancelAll, runCtx,
  life, written,
  token,
  server, srv, base, context, done, spawning,
  kind, exit, frames, pipe, cancelled, watcher, killer, parser, ready,
  problem, reaped, said, relayed, caller, heard,
  crashes, call, handler, events, closed, watch, procs, cur, faults

S == INSTANCE RunStatus
D == INSTANCE AgentDaemon WITH MaxCalls <- Prompts
Q == INSTANCE IngestionQueue
L == INSTANCE LockFile
B == INSTANCE Bridge
X == INSTANCE CodexAppServer
C == INSTANCE ClaudeIPC
O == INSTANCE OmpRPC
H == INSTANCE OpenCodeServer
T == INSTANCE OneShot

statusVars == <<task, coverage, status, job, commands, apart>>
daemonVars == <<started, current, alive, socket, startedBy, watchers, due,
  stopped, needsRestart, count, stream, daemonFaults, fallbacks>>
queueVars == <<enqueued, dropped, pop, ctx, taken, removed>>
lockVars == <<path, files, daemon, ended>>
bridgeVars == <<reader, lines, registry, responses, channel, writer,
  cancelAll, runCtx, life, written>>
tokenVar == <<token>>
serverVars == <<server, srv, base, context, done, spawning>>
shotVars == <<kind, exit, frames, pipe, cancelled, watcher, killer, parser,
  ready, problem, reaped, said, relayed, caller, heard>>

runtimeVars == <<part, statusVars, daemonVars, queueVars, lockVars,
  bridgeVars, tokenVar, serverVars, shotVars, crashes, call, handler, events,
  closed, watch, procs, cur, faults>>

StatusIdle ==
  /\ task = Unused /\ coverage = Unused /\ status = Unused /\ job = Unused
  /\ commands = Unused /\ apart = Unused

DaemonIdle ==
  /\ started = Unused /\ current = Unused /\ alive = Unused /\ socket = Unused
  /\ startedBy = Unused /\ watchers = Unused /\ due = Unused /\ stopped = Unused
  /\ needsRestart = Unused /\ count = Unused /\ stream = Unused
  /\ daemonFaults = Unused /\ fallbacks = Unused

QueueIdle ==
  /\ enqueued = Unused /\ dropped = Unused /\ pop = Unused /\ ctx = Unused
  /\ taken = Unused /\ removed = Unused

LockIdle ==
  /\ path = Unused /\ files = Unused /\ daemon = Unused /\ ended = Unused

BridgeIdle ==
  /\ reader = Unused /\ lines = Unused /\ registry = Unused /\ responses = Unused
  /\ channel = Unused /\ writer = Unused /\ cancelAll = Unused /\ runCtx = Unused
  /\ life = Unused /\ written = Unused

TokenIdle ==
  /\ token = Unused

ServerIdle ==
  /\ server = Unused /\ srv = Unused /\ base = Unused /\ context = Unused
  /\ done = Unused /\ spawning = Unused

ShotIdle ==
  /\ kind = Unused /\ exit = Unused /\ frames = Unused /\ pipe = Unused
  /\ cancelled = Unused /\ watcher = Unused /\ killer = Unused /\ parser = Unused
  /\ ready = Unused /\ problem = Unused /\ reaped = Unused /\ said = Unused
  /\ relayed = Unused /\ caller = Unused /\ heard = Unused

Init ==
  /\ part \in Parts
  /\ \/ /\ part = "status" /\ S!Init
        /\ DaemonIdle /\ QueueIdle /\ LockIdle /\ BridgeIdle /\ TokenIdle
        /\ ServerIdle /\ ShotIdle /\ call = Unused /\ handler = Unused
        /\ events = Unused /\ closed = Unused /\ watch = Unused /\ procs = Unused
        /\ cur = Unused /\ faults = Unused
     \/ /\ part = "daemon" /\ D!Init
        /\ StatusIdle /\ QueueIdle /\ LockIdle /\ BridgeIdle /\ TokenIdle
        /\ ServerIdle /\ ShotIdle /\ crashes = Unused /\ events = Unused
        /\ closed = Unused /\ watch = Unused /\ procs = Unused /\ cur = Unused
        /\ faults = Unused
     \/ /\ part = "queue" /\ Q!Init
        /\ StatusIdle /\ DaemonIdle /\ LockIdle /\ BridgeIdle /\ TokenIdle
        /\ ServerIdle /\ ShotIdle /\ crashes = Unused /\ call = Unused
        /\ handler = Unused /\ procs = Unused /\ cur = Unused /\ faults = Unused
     \/ /\ part = "lock" /\ L!Init
        /\ StatusIdle /\ DaemonIdle /\ QueueIdle /\ BridgeIdle /\ TokenIdle
        /\ ServerIdle /\ ShotIdle /\ call = Unused /\ handler = Unused
        /\ events = Unused /\ closed = Unused /\ watch = Unused /\ procs = Unused
        /\ cur = Unused /\ faults = Unused
     \/ /\ part = "bridge" /\ B!Init
        /\ StatusIdle /\ DaemonIdle /\ QueueIdle /\ LockIdle /\ TokenIdle
        /\ ServerIdle /\ ShotIdle /\ crashes = Unused /\ call = Unused
        /\ events = Unused /\ closed = Unused /\ watch = Unused /\ procs = Unused
        /\ cur = Unused /\ faults = Unused
     \/ /\ part = "codex" /\ X!Init
        /\ StatusIdle /\ DaemonIdle /\ QueueIdle /\ LockIdle /\ BridgeIdle
        /\ ServerIdle /\ ShotIdle /\ crashes = Unused /\ handler = Unused
        /\ events = Unused
     \/ /\ part = "claude" /\ C!Init
        /\ StatusIdle /\ DaemonIdle /\ QueueIdle /\ LockIdle /\ BridgeIdle
        /\ TokenIdle /\ ServerIdle /\ ShotIdle /\ crashes = Unused
        /\ handler = Unused /\ events = Unused /\ watch = Unused
     \/ /\ part = "omp" /\ O!Init
        /\ StatusIdle /\ DaemonIdle /\ QueueIdle /\ LockIdle /\ BridgeIdle
        /\ TokenIdle /\ ServerIdle /\ ShotIdle /\ crashes = Unused
        /\ handler = Unused /\ events = Unused /\ closed = Unused /\ watch = Unused
     \/ /\ part = "opencode" /\ H!Init
        /\ StatusIdle /\ DaemonIdle /\ QueueIdle /\ LockIdle /\ BridgeIdle
        /\ TokenIdle /\ ShotIdle /\ crashes = Unused /\ handler = Unused
        /\ events = Unused /\ watch = Unused /\ procs = Unused /\ cur = Unused
     \/ /\ part = "oneshot" /\ T!Init
        /\ StatusIdle /\ DaemonIdle /\ QueueIdle /\ LockIdle /\ BridgeIdle
        /\ TokenIdle /\ ServerIdle /\ crashes = Unused /\ call = Unused
        /\ handler = Unused /\ closed = Unused /\ watch = Unused /\ procs = Unused
        /\ cur = Unused /\ faults = Unused

NotRunStatus == <<part, daemonVars, queueVars, lockVars, bridgeVars, tokenVar,
  serverVars, shotVars, call, handler, events, closed, watch, procs, cur,
  faults>>
NotAgentDaemon == <<part, statusVars, queueVars, lockVars, bridgeVars,
  tokenVar, serverVars, shotVars, crashes, events, closed, watch, procs, cur,
  faults>>
NotIngestionQueue == <<part, statusVars, daemonVars, lockVars, bridgeVars,
  tokenVar, serverVars, shotVars, crashes, call, handler, procs, cur, faults>>
NotLockFile == <<part, statusVars, daemonVars, queueVars, bridgeVars,
  tokenVar, serverVars, shotVars, call, handler, events, closed, watch, procs,
  cur, faults>>
NotBridge == <<part, statusVars, daemonVars, queueVars, lockVars, tokenVar,
  serverVars, shotVars, crashes, call, events, closed, watch, procs, cur,
  faults>>
NotCodexAppServer == <<part, statusVars, daemonVars, queueVars, lockVars,
  bridgeVars, serverVars, shotVars, crashes, handler, events>>
NotClaudeIPC == <<part, statusVars, daemonVars, queueVars, lockVars,
  bridgeVars, tokenVar, serverVars, shotVars, crashes, handler, events,
  watch>>
NotOmpRPC == <<part, statusVars, daemonVars, queueVars, lockVars, bridgeVars,
  tokenVar, serverVars, shotVars, crashes, handler, events, closed, watch>>
NotOpenCodeServer == <<part, statusVars, daemonVars, queueVars, lockVars,
  bridgeVars, tokenVar, shotVars, crashes, handler, events, watch, procs,
  cur>>
NotOneShot == <<part, statusVars, daemonVars, queueVars, lockVars, bridgeVars,
  tokenVar, serverVars, crashes, call, handler, closed, watch, procs, cur,
  faults>>

Next ==
  \/ part = "status" /\ S!Next /\ UNCHANGED NotRunStatus
  \/ part = "daemon" /\ D!Next /\ UNCHANGED NotAgentDaemon
  \/ part = "queue" /\ Q!Next /\ UNCHANGED NotIngestionQueue
  \/ part = "lock" /\ L!Next /\ UNCHANGED NotLockFile
  \/ part = "bridge" /\ B!Next /\ UNCHANGED NotBridge
  \/ part = "codex" /\ X!Next /\ UNCHANGED NotCodexAppServer
  \/ part = "claude" /\ C!Next /\ UNCHANGED NotClaudeIPC
  \/ part = "omp" /\ O!Next /\ UNCHANGED NotOmpRPC
  \/ part = "opencode" /\ H!Next /\ UNCHANGED NotOpenCodeServer
  \/ part = "oneshot" /\ T!Next /\ UNCHANGED NotOneShot

(* What must go on in each of them.  A behaviour is one of a single part,  *)
(* so that fairness for the i-th goroutine of each is one condition.       *)
StatusGoes(i) ==
  (i \in Procs /\ S!Goes(i)) \/ (i - 2 \in Procs /\ S!ReconcileStart(i - 2))

DaemonGoes(i) == i \in 1 .. Prompts /\ D!CallStep(i)

CodexGoes(i) ==
  (i \in 1 .. MaxTurns /\ X!TurnStep(i)) \/ (i - MaxTurns \in 1 .. MaxTurns /\ X!WatchStep(i - MaxTurns))

BridgeGoes(i) ==
  \/ i = 1 /\ B!ReaderStep
  \/ i = 2 /\ B!WriterStep
  \/ i = 3 /\ B!LifeStep
  \/ i - 3 \in 1 .. MaxLines /\ B!HandlerStep(i - 3)

ShotGoes(i) ==
  \/ i = 1 /\ T!ParserStep
  \/ i = 2 /\ T!Terminate
  \/ i = 3 /\ T!Kill
  \/ i = 4 /\ T!Relay
  \/ i = 5 /\ T!Receive

Goes(i) ==
  \/ part = "status" /\ StatusGoes(i) /\ UNCHANGED NotRunStatus
  \/ part = "daemon" /\ DaemonGoes(i) /\ UNCHANGED NotAgentDaemon
  \/ part = "codex" /\ CodexGoes(i) /\ UNCHANGED NotCodexAppServer
  \/ part = "bridge" /\ BridgeGoes(i) /\ UNCHANGED NotBridge
  \/ part = "oneshot" /\ ShotGoes(i) /\ UNCHANGED NotOneShot

Fairness == \A i \in 1 .. 6 : WF_runtimeVars(Goes(i))

Spec == Init /\ [][Next]_runtimeVars /\ Fairness

-----------------------------------------------------------------------------
(* Types of all ten.                                                       *)
TypeOK ==
  CASE part = "status" -> S!TypeOK
    [] part = "daemon" -> D!TypeOK
    [] part = "queue" -> Q!TypeOK
    [] part = "lock" -> L!TypeOK
    [] part = "bridge" -> B!TypeOK
    [] part = "codex" -> X!TypeOK
    [] part = "claude" -> C!TypeOK
    [] part = "omp" -> O!TypeOK
    [] part = "opencode" -> H!TypeOK
    [] part = "oneshot" -> T!TypeOK

(* Calls that share a process, the agent daemon's and those of the         *)
(* persistent backends, come one after the other.  One of the daemon gets  *)
(* the answer to its own request, and one of a backend frames of another   *)
(* only where a call that was left to end put the process out of step.     *)
OwnAnswers ==
  /\ part = "daemon" => D!OwnAnswers
  /\ part = "codex" => X!OneTurn /\ X!OwnFrames
  /\ part = "claude" => C!OwnFrames
  /\ part = "omp" => O!OwnFrames

(* No server process lives on that its backend does not know of.           *)
NoneIsLost ==
  /\ part = "codex" => X!NoneIsLost
  /\ part = "omp" => O!NoneIsLost
  /\ part = "opencode" => H!NoneIsLost

(* What has to end: the i-th call of the agent daemon once it is made, a   *)
(* turn of Codex or a one-shot call that was cancelled, and the bridge     *)
(* when its input has ended.                                               *)
MustEnd(i) ==
  CASE part = "daemon" -> ~D!At(i, "new")
    [] part = "codex" -> /\ i \in 1 .. MaxTurns /\ call[i].cancelled
                           /\ call[i].pc \in {"read", "line", "release", "done"}
    [] part = "oneshot" -> cancelled
    [] part = "bridge" -> reader \in {"wait", "closing", "done"}
    [] OTHER -> FALSE

Ended(i) ==
  CASE part = "daemon" -> D!At(i, "done")
    [] part = "codex" -> i \in 1 .. MaxTurns /\ X!At(i, "done")
    [] part = "oneshot" -> caller = "left" \/ (parser = "done" /\ reaped)
    [] part = "bridge" -> life = "returned"
    [] OTHER -> FALSE

(* What has to end ends, whatever the process behind it does.  Both are    *)
(* for good once they are so, and the calls are finitely many.             *)
CallsEnd == <>[](\A i \in 1 .. Prompts : MustEnd(i) => Ended(i))

(* A status command nobody writes into leaves the status exact.            *)
ReconcileRepairs == [][part = "status" => S!Repairs]_runtimeVars

(* Once tickets no longer change, the status comes to agree with them.     *)
StatusConverges == <>[](part = "status" => S!Exact)

(* Commands that do not overlap leave the coverage exact.                  *)
CoverageIsCurrent == part = "status" => S!CoverageIsCurrent

(* The queue loses its oldest events only, and counts them.                *)
KeepsNewest == part = "queue" => Q!KeepsNewest /\ Q!NothingLost

(* No consumer sleeps while there are more events than consumers awake.    *)
NoneSleepsOnEvent == part = "queue" => Q!NoneSleepsOnEvent

(* Daemons that start together exclude each other.                         *)
OneOwnerUntilOneEnds == part = "lock" => L!OneOwnerUntilOneEnds

(* The bridge answers every request before it is over.                     *)
AllAreAnswered == part = "bridge" => B!AllAreAnswered

(* Requests at work can be cancelled by their ids.                         *)
RunningIsCancellable == part = "bridge" => B!RunningIsCancellable

(* A text that is said to be the answer is the whole answer.               *)
AnswersAreWhole == part = "oneshot" => T!AnswersAreWhole

(* A call of the agent daemon is only made again if something went wrong.  *)
FallbacksAreForFaults == part = "daemon" => D!FallbacksAreForFaults

(* The lock file has one owner.                                            *)
OneOwner == part = "lock" => L!OneOwner

(* omp sends nothing after the terminal event.                             *)
NothingAfterTheEnd == part = "omp" => O!NothingAfterTheEnd

-----------------------------------------------------------------------------
(* The second requirement is covered by both tickets.                      *)
MCCovers == [r \in Reqs |-> IF r = "r1" THEN {"t1"} ELSE Tasks]
=============================================================================
