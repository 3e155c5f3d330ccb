---------------------------- MODULE OpenCodeServer ----------------------------
(***************************************************************************)
(* The OpenCode backend (llmcli/opencode_http.go): calls of Stream that    *)
(* find, adopt or start an HTTP server on the port they ask for and then   *)
(* make their requests to whatever URL the backend holds.  A server is     *)
(* owned by the backend when it was started here; others come and go.      *)
(***************************************************************************)
EXTENDS Naturals, FiniteSets, Sequences

CONSTANTS
  Ports,      \* the ports calls ask for, without 0
  MaxCalls,   \* bound: calls of Stream, numbered as they come
  MaxFaults   \* bound: servers that die, others that come, Close, time-outs

VARIABLES
  server,     \* the servers so far: their port, whether they are owned and up
  srv,        \* b.srv, or 0
  base,       \* the port in b.baseURL, 0 if it is empty
  context,    \* b.serverCtx: the call that made it, or 0
  done,       \* the calls whose serverCtx is cancelled
  spawning,   \* the call that holds spawnMu, or 0
  closed,
  call,       \* where Stream is, its port, the server it started, and who
              \*   answered its requests
  faults

openVars == <<server, srv, base, context, done, spawning, closed, call, faults>>

None == 0
Calls == 1 .. MaxCalls

Init ==
  /\ server = << >>
  /\ srv = None /\ base = None /\ context = None
  /\ done = {}
  /\ spawning = None
  /\ closed = FALSE
  /\ call = [c \in Calls |-> [pc |-> "idle", port |-> None, started |-> None, ctx |-> None,
                              from |-> {}, stale |-> FALSE]]
  /\ faults = 0

At(c, pc) == call[c].pc = pc

Goto(c, pc) == call' = [call EXCEPT ![c].pc = pc]

On(port) == {s \in DOMAIN server : server[s].port = port /\ server[s].up}

Terminated(s) == [server EXCEPT ![s].up = FALSE]

Fault == faults < MaxFaults /\ faults' = faults + 1

(* checkExistingServer finds one: the server it owns on that port, or the  *)
(* URL of one on it.  Whether the process of the first has exited is read  *)
(* from a channel closed by the wait that only its removal calls.          *)
Exists(port) == base = port

(* It ends a server of its own on another port, whoever uses it.           *)
DropOther ==
  IF srv = None THEN UNCHANGED <<server, srv, base>>
  ELSE server' = Terminated(srv) /\ srv' = None /\ base' = None

Found(c, port, next) ==
  /\ Exists(port)
  /\ call' = [call EXCEPT ![c].pc = next, ![c].port = port,
                          ![c].stale = srv # None /\ ~server[srv].up]
  /\ UNCHANGED <<server, srv, base>>

NotFound(c, port, next) ==
  /\ ~Exists(port)
  /\ DropOther
  /\ call' = [call EXCEPT ![c].pc = next, ![c].port = port]

InOrder(c) == At(c, "idle") /\ \A d \in 1 .. c - 1 : ~At(d, "idle")

FastPath(c, port) ==
  /\ InOrder(c)
  /\ Found(c, port, "sse")
  /\ UNCHANGED <<context, done, spawning, closed, faults>>

SlowPath(c, port) ==
  /\ InOrder(c)
  /\ NotFound(c, port, "lock")
  /\ UNCHANGED <<context, done, spawning, closed, faults>>

Lock(c) ==
  /\ At(c, "lock") /\ spawning = None
  /\ spawning' = c
  /\ Goto(c, "recheck")
  /\ UNCHANGED <<server, srv, base, context, done, closed, faults>>

RecheckFound(c) ==
  /\ At(c, "recheck")
  /\ Found(c, call[c].port, "sse")
  /\ spawning' = None
  /\ UNCHANGED <<context, done, closed, faults>>

RecheckSkipped(c) ==
  /\ At(c, "recheck")
  /\ Goto(c, "probe")
  /\ UNCHANGED <<server, srv, base, context, done, spawning, closed, faults>>

Recheck(c) ==
  /\ At(c, "recheck")
  /\ NotFound(c, call[c].port, "probe")
  /\ UNCHANGED <<context, done, spawning, closed, faults>>

-----------------------------------------------------------------------------
(* isPortInUse: what listens there is adopted.                             *)
Adopt(c) ==
  /\ At(c, "probe") /\ On(call[c].port) # {}
  /\ context' = IF context = None THEN c ELSE context
  /\ call' = [call EXCEPT ![c].pc = "ready", ![c].ctx = context']
  /\ UNCHANGED <<server, srv, base, done, spawning, closed, faults>>

(* A server of our own, under a context of its own: one that comes to the  *)
(* port in between leaves it to die.                                       *)
Start(c) ==
  /\ At(c, "probe") /\ On(call[c].port) = {}
  /\ done' = IF context = None THEN done ELSE done \cup {context}
  /\ context' = c
  /\ server' = Append(server, [port |-> call[c].port, owned |-> TRUE, up |-> TRUE])
  /\ call' = [call EXCEPT ![c].pc = "ready", ![c].ctx = c, ![c].started = Len(server')]
  /\ UNCHANGED <<srv, base, spawning, closed, faults>>

(* An error of ensureServer ends the call and its context, if it is still  *)
(* the one the backend holds.                                              *)
GiveUp(c) ==
  /\ Goto(c, "error")
  /\ spawning' = None
  /\ IF call[c].started = None THEN UNCHANGED <<server, context, done>>
     ELSE /\ server' = Terminated(call[c].started)
          /\ context' = IF context = c THEN None ELSE context
          /\ done' = IF context = c THEN done \cup {c} ELSE done

StartFails(c) ==
  /\ Fault
  /\ At(c, "probe") /\ On(call[c].port) = {}
  /\ done' = IF context = None THEN done ELSE done \cup {context}
  /\ context' = None
  /\ Goto(c, "error")
  /\ spawning' = None
  /\ UNCHANGED <<server, srv, base, closed>>

(* waitReady fails: the context is cancelled, no server gets ready in time *)
(* or it wants another password.                                           *)
NotReady(c) ==
  /\ At(c, "ready")
  /\ GiveUp(c)
  /\ UNCHANGED <<srv, base, closed, faults>>

Ready(c) ==
  /\ At(c, "ready") /\ On(call[c].port) # {}
  /\ Goto(c, "publish")
  /\ UNCHANGED <<server, srv, base, context, done, spawning, closed, faults>>

Closed(c) ==
  /\ At(c, "publish") /\ closed
  /\ Goto(c, "error")
  /\ spawning' = None
  /\ server' = IF call[c].started = None THEN server ELSE Terminated(call[c].started)
  /\ UNCHANGED <<srv, base, context, done, closed, faults>>

PublishAnyway(c) ==
  /\ At(c, "publish")
  /\ srv' = call[c].started
  /\ base' = call[c].port
  /\ spawning' = None
  /\ Goto(c, "sse")
  /\ UNCHANGED <<server, context, done, closed, faults>>

Publish(c) == ~closed /\ PublishAnyway(c)

-----------------------------------------------------------------------------
(* openSSEStream, createSession and sendPromptAsync each read b.baseURL,   *)
(* without its mutex.                                                      *)
Request(c, from, to) ==
  /\ At(c, from) /\ On(base) # {}
  /\ call' = [call EXCEPT ![c].pc = to, ![c].from = @ \cup On(base)]
  /\ UNCHANGED <<server, srv, base, context, done, spawning, closed, faults>>

(* No server is there, it refuses, or the caller cancels.                  *)
RequestFails(c) ==
  /\ call[c].pc \in {"sse", "session", "prompt"}
  /\ Goto(c, "error")
  /\ UNCHANGED <<server, srv, base, context, done, spawning, closed, faults>>

Subscribe(c) == Request(c, "sse", "session")

CreateSession(c) == Request(c, "session", "prompt")

SendPrompt(c) == Request(c, "prompt", "done")

(* Close: what is being started is terminated by the call that starts it.  *)
Close ==
  /\ Fault
  /\ ~closed
  /\ closed' = TRUE
  /\ done' = IF context = None THEN done ELSE done \cup {context}
  /\ context' = None
  /\ srv' = None
  /\ server' = IF srv = None THEN server ELSE Terminated(srv)
  /\ UNCHANGED <<base, spawning, call>>

ServerDies(s) ==
  /\ Fault
  /\ s \in DOMAIN server /\ server[s].up
  /\ server' = Terminated(s)
  /\ UNCHANGED <<srv, base, context, done, spawning, closed, call>>

OtherComes(port) ==
  /\ Fault
  /\ On(port) = {}
  /\ server' = Append(server, [port |-> port, owned |-> FALSE, up |-> TRUE])
  /\ UNCHANGED <<srv, base, context, done, spawning, closed, call>>

CallStep(c) ==
  \/ \E port \in Ports : FastPath(c, port) \/ SlowPath(c, port)
  \/ Lock(c) \/ RecheckFound(c) \/ Recheck(c) \/ Adopt(c) \/ Start(c) \/ StartFails(c)
  \/ NotReady(c) \/ Ready(c) \/ Closed(c) \/ Publish(c)
  \/ Subscribe(c) \/ CreateSession(c) \/ SendPrompt(c) \/ RequestFails(c)

Next ==
  \/ \E c \in Calls : CallStep(c)
  \/ Close
  \/ \E s \in 1 .. MaxCalls + MaxFaults : ServerDies(s)
  \/ \E port \in Ports : OtherComes(port)

Spec == Init /\ [][Next]_openVars

-----------------------------------------------------------------------------
TypeOK ==
  /\ srv \in 0 .. Len(server)
  /\ base \in Ports \cup {None}
  /\ context \in Calls \cup {None}
  /\ spawning \in Calls \cup {None}
  /\ \A c \in Calls : call[c].from \subseteq DOMAIN server
  /\ \A c \in Calls : spawning = c <=> call[c].pc \in {"recheck", "probe", "ready", "publish"}

(* A server started here is the one the backend holds or belongs to the    *)
(* call that is starting it, and a closed backend holds none: whatever     *)
(* Close and calls for other ports run into, no server lives on unknown.   *)
NoneIsLost ==
  /\ closed => srv = None
  /\ \A s \in DOMAIN server :
       server[s].owned /\ server[s].up =>
         s = srv \/ (spawning # None /\ call[spawning].started = s)

(* checkExistingServer "clears stale state when the owned process has      *)
(* exited" (opencode_http.go:419): no call is sent to a server of ours     *)
(* that had died when it was looked up.                                    *)
DeadServersAreReplaced == \A c \in Calls : ~call[c].stale

(* "b.mu is still used for all field accesses" (opencode_http.go:60): the  *)
(* requests of a call go to one server, one on the port it asked for.      *)
OneServerAnswers ==
  \A c \in Calls : \A s \in call[c].from : server[s].port = call[c].port
=============================================================================
