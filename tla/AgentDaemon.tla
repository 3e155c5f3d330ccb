----------------------------- MODULE AgentDaemon -----------------------------
(***************************************************************************)
(* internal/agentcli.Daemon: a Claude process behind a Unix socket, which  *)
(* answers the prompts of one command.  A call that fails is made again    *)
(* one-shot, and the next one restarts the daemon; calls and restarts      *)
(* exclude each other by a lock.  Each start has an idle watcher, and a    *)
(* context that decides how long the process may live: QueryFunc cancels   *)
(* that of a call when the call returns.                                   *)
(*                                                                         *)
(* A call is its number, and a process the number of its start.  Elapsed   *)
(* time is a choice: a call may last longer than the idle timeout, which   *)
(* counts from the last connection.  Stop is one step, since whoever calls *)
(* it at the same time waits for it (sync.Once).                           *)
(***************************************************************************)
EXTENDS Naturals, Sequences, FiniteSets

CONSTANTS
  MaxCalls,            \* bound: calls made
  AtOnce,              \* calls in progress at any time
  Threshold,           \* ContextFreshnessThreshold
  RestartOnThreshold,
  MaxDaemonFaults      \* bound: crashes, failing starts, time-outs, idle stops

VARIABLES
  started,      \* processes started so far
  current,      \* d.process and d.listener, 0 if there are none
  alive,        \* processes that run
  socket,       \* the process whose listener the socket file leads to, 0 if none
  startedBy,    \* [process] the call whose context it was started under, 0: the command's
  watchers,     \* idle watchers that tick
  due,          \* idle watchers about to call Stop
  stopped,      \* stopOnce is done
  needsRestart, count,
  call,         \* [call] where it is, and the answer it has
  handler,      \* [call] the connection the daemon serves, and on which process
  stream,       \* [process] the prompts it has not answered
  daemonFaults, fallbacks

processVars == <<started, current, alive, socket, startedBy, watchers, due, stopped>>
daemonVars == <<processVars, needsRestart, count, call, handler, stream, daemonFaults, fallbacks>>

Calls == 1 .. MaxCalls
Processes == 1 .. 2 * MaxCalls + 1

Init ==
  /\ started = 1 /\ current = 1 /\ alive = {1} /\ socket = 1
  /\ startedBy = [p \in Processes |-> 0]
  /\ watchers = {1} /\ due = {} /\ stopped = FALSE
  /\ needsRestart = FALSE /\ count = 0
  /\ call = [c \in Calls |-> [pc |-> "new", answer |-> 0]]
  /\ handler = [c \in Calls |-> [pc |-> "none", on |-> 1]]
  /\ stream = [p \in Processes |-> <<>>]
  /\ daemonFaults = 0 /\ fallbacks = 0

At(c, pc) == call[c].pc = pc
Go(c, pc) == call' = [call EXCEPT ![c].pc = pc]
Serve(c, pc) == handler' = [handler EXCEPT ![c].pc = pc]

Fault == daemonFaults < MaxDaemonFaults /\ daemonFaults' = daemonFaults + 1

(* Query: whether a call before asked for a restart. *)
Call(c) ==
  /\ At(c, "new")
  /\ \A b \in Calls : b < c => ~At(b, "new")
  /\ Cardinality({b \in Calls : call[b].pc \notin {"new", "done"}}) < AtOnce
  /\ Go(c, IF needsRestart THEN "restart" ELSE "dial")
  /\ needsRestart' = FALSE
  /\ UNCHANGED <<processVars, count, handler, stream, daemonFaults, fallbacks>>

LockedToReturn == {c \in Calls : call[c].pc \in {"wait", "count", "refresh"}}

(* restartMu: who has locked it for reading. *)
Locked == {c \in Calls : At(c, "wait")}

(* restartExclusive: Stop and Start, under the context of the call.        *)
Restart(c) ==
  /\ Locked = {}
  /\ call[c].pc \in {"restart", "refresh"}
  /\ Go(c, IF At(c, "restart") THEN "dial" ELSE "return")
  /\ started' = started + 1
  /\ startedBy' = [startedBy EXCEPT ![started + 1] = c]
  /\ current' = started + 1
  /\ alive' = (alive \ {current}) \cup {started + 1}
  /\ socket' = started + 1
  /\ watchers' = (watchers \ {current}) \cup {started + 1}
  /\ stopped' = FALSE
  /\ count' = 0
  /\ UNCHANGED <<due, needsRestart, handler, stream, daemonFaults, fallbacks>>

(* Stop. *)
StopDaemon ==
  /\ current' = IF stopped THEN current ELSE 0
  /\ alive' = IF stopped THEN alive ELSE alive \ {current}
  /\ socket' = IF stopped THEN socket ELSE 0
  /\ watchers' = IF stopped THEN watchers ELSE watchers \ {current}
  /\ stopped' = TRUE

(* markNeedsRestart, and QueryFunc's call of the one-shot backend. *)
FallBack(c) ==
  /\ Go(c, "return")
  /\ needsRestart' = TRUE
  /\ fallbacks' = fallbacks + 1

RestartFails(c) ==
  /\ Locked = {}
  /\ Fault
  /\ StopDaemon
  /\ needsRestart' = TRUE
  /\ Go(c, "return")
  /\ \/ At(c, "restart") /\ fallbacks' = fallbacks + 1
     \/ At(c, "refresh") /\ UNCHANGED fallbacks
  /\ UNCHANGED <<started, startedBy, due, count, handler, stream>>

(* queryViaSocket *)
Dial(c) ==
  /\ At(c, "dial")
  /\ socket # 0
  /\ Go(c, "wait")
  /\ handler' = [handler EXCEPT ![c] = [pc |-> "queued", on |-> socket]]
  /\ UNCHANGED <<processVars, needsRestart, count, stream, daemonFaults, fallbacks>>

DialFails(c) ==
  /\ At(c, "dial")
  /\ socket = 0
  /\ FallBack(c)
  /\ UNCHANGED <<processVars, count, handler, stream, daemonFaults>>

(* claudeProcess.query, in the connection's handler: one at a time writes  *)
(* a prompt and reads up to the next result.                               *)
WriteUnserialized(c) ==
  /\ handler[c].pc = "queued" /\ handler[c].on \in alive
  /\ Serve(c, "asked")
  /\ stream' = [stream EXCEPT ![handler[c].on] = Append(@, c)]
  /\ UNCHANGED <<processVars, needsRestart, count, call, daemonFaults, fallbacks>>

Write(c) ==
  /\ handler[c].pc = "queued" /\ handler[c].on \in alive
  /\ \A b \in Calls : handler[b].on = handler[c].on => handler[b].pc # "asked"
  /\ Serve(c, "asked")
  /\ stream' = [stream EXCEPT ![handler[c].on] = Append(@, c)]
  /\ UNCHANGED <<processVars, needsRestart, count, call, daemonFaults, fallbacks>>

Answer(c) ==
  /\ handler[c].pc = "asked" /\ handler[c].on \in alive
  /\ Serve(c, "none")
  /\ LET s == stream[handler[c].on] IN
       /\ stream' = [stream EXCEPT ![handler[c].on] = Tail(s)]
       /\ call' = IF At(c, "wait") THEN [call EXCEPT ![c] = [pc |-> "count", answer |-> Head(s)]]
                  ELSE call
  /\ UNCHANGED <<processVars, needsRestart, count, daemonFaults, fallbacks>>

(* The process is gone: the handler answers with an error. *)
AnswerError(c) ==
  /\ handler[c].pc # "none" /\ handler[c].on \notin alive
  /\ Serve(c, "none")
  /\ IF At(c, "wait") THEN FallBack(c) ELSE UNCHANGED <<call, needsRestart, fallbacks>>
  /\ UNCHANGED <<processVars, count, stream, daemonFaults>>

(* The deadline of the call; the handler goes on. *)
TimeOut(c) ==
  /\ At(c, "wait")
  /\ Fault
  /\ FallBack(c)
  /\ UNCHANGED <<processVars, count, handler, stream>>

(* Queries are counted after the lock is released. *)
Count(c) ==
  /\ At(c, "count")
  /\ count' = count + 1
  /\ Go(c, IF RestartOnThreshold /\ count + 1 >= Threshold /\ (count + 1 - Threshold) % 10 = 0
           THEN "refresh" ELSE "return")
  /\ UNCHANGED <<processVars, needsRestart, handler, stream, daemonFaults, fallbacks>>

(* QueryFunc cancels the context, and with it what was started under it:   *)
(* the process is killed and the listener closed.                          *)
Return(c) ==
  /\ At(c, "return")
  /\ Go(c, "done")
  /\ LET mine == {p \in Processes : startedBy[p] = c} IN
       /\ alive' = alive \ mine
       /\ socket' = IF socket \in mine THEN 0 ELSE socket
       /\ watchers' = watchers \ mine
  /\ UNCHANGED <<started, current, startedBy, due, stopped, needsRestart, count, handler, stream,
                 daemonFaults, fallbacks>>

Crash ==
  /\ Fault
  /\ \E p \in alive : alive' = alive \ {p}
  /\ UNCHANGED <<started, current, socket, startedBy, watchers, due, stopped, needsRestart, count,
                 call, handler, stream, fallbacks>>

(* The watcher has seen no connection for IdleTimeout, and then calls Stop *)
(* for whatever runs by then.                                              *)
IdleFor(p) ==
  /\ p \in watchers
  /\ Fault
  /\ due' = due \cup {p}
  /\ watchers' = watchers \ {p}
  /\ UNCHANGED <<started, current, alive, socket, startedBy, stopped, needsRestart, count,
                 call, handler, stream, fallbacks>>

IdleStop(p) ==
  /\ p \in due
  /\ due' = due \ {p}
  /\ StopDaemon
  /\ UNCHANGED <<started, startedBy, needsRestart, count, call, handler, stream, daemonFaults,
                 fallbacks>>

CallStep(c) ==
  \/ Restart(c) \/ Dial(c) \/ DialFails(c) \/ Write(c) \/ Answer(c) \/ AnswerError(c)
  \/ Count(c) \/ Return(c)

Next ==
  \/ \E c \in Calls : Call(c) \/ CallStep(c) \/ RestartFails(c) \/ TimeOut(c)
  \/ \E p \in Processes : IdleFor(p) \/ IdleStop(p)
  \/ Crash

(* Goroutines go on, and Claude answers: otherwise the deadline passes,    *)
(* which the bound on faults does not let happen for ever.                 *)
Spec == Init /\ [][Next]_daemonVars /\ \A c \in Calls : WF_daemonVars(CallStep(c))

-----------------------------------------------------------------------------
TypeOK ==
  /\ started \in Processes /\ current \in 0 .. started /\ socket \in {0, current}
  /\ alive \subseteq {current} /\ watchers \subseteq {current} /\ due \subseteq Processes
  /\ \A p \in Processes : startedBy[p] \in 0 .. MaxCalls /\ Len(stream[p]) <= MaxCalls
  /\ \A c \in Calls : call[c].answer \in 0 .. MaxCalls /\ handler[c].on \in 1 .. started

(* What a call returns is the answer to its prompt, also if calls before   *)
(* it on the same process were given up and answered only later.           *)
OwnAnswers == \A c \in Calls : call[c].answer \in {0, c}

(* Every call returns: calls that restart the daemon and calls in progress *)
(* do not wait for each other for ever.                                    *)
CallsReturn == \A c \in Calls : ~At(c, "new") ~> At(c, "done")

(* "before the next daemon-eligible query, a fresh daemon is started"      *)
(* (docs/plans/daemon-orchestrator.md:197): while calls come one after the *)
(* other, only one falls back for each thing that went wrong.              *)
FallbacksAreForFaults == AtOnce = 1 => fallbacks <= daemonFaults
=============================================================================
