--------------------------- MODULE CodexAppServer ---------------------------
(***************************************************************************)
(* The persistent Codex backend (llmcli/codex_appserver.go): turns that    *)
(* share one app-server process, one after the other.  A turn takes the    *)
(* token, finds or starts the process, shakes hands with a fresh one,      *)
(* writes its request and reads frames until one ends the turn.  Reading   *)
(* a line does not notice that the context of the turn is done: a watcher  *)
(* of its own ends the process then.  Frames are not matched with turns.   *)
(***************************************************************************)
EXTENDS Naturals, Sequences, Peers

CONSTANTS
  MaxTurns,   \* bound: calls of Stream, numbered as they come
  MaxUnread,  \* bound: frames in the pipe
  MaxFaults   \* bound: cancelled turns, failed starts, deaths and Close

VARIABLES
  call,    \* call[t]: where Stream and its goroutine are, the process it
           \*   uses, whose frames it delivered, how it ended
  token,   \* the turn semaphore holds its token
  procs,   \* the processes started so far
  cur,     \* the one the backend holds (b.proc), or 0
  watch,   \* watch[t]: the goroutine that waits for the context of t
  closed,  \* Close was called, the context of processes is cancelled
  faults

Turns == 1 .. MaxTurns

vars == <<call, token, procs, cur, watch, closed, faults>>

Idle == [pc |-> "idle", gen |-> 0, cancelled |-> FALSE, fed |-> {}, end |-> "none"]

Init ==
  /\ call = [t \in Turns |-> Idle]
  /\ token = TRUE
  /\ procs = << >>
  /\ cur = 0
  /\ watch = [t \in Turns |-> "none"]
  /\ closed = FALSE
  /\ faults = 0

-----------------------------------------------------------------------------
At(t, pc) == call[t].pc = pc

Goto(t, pc) == call' = [call EXCEPT ![t].pc = pc]

(* The process t uses and whether its output is at an end.                 *)
Proc(t) == procs[call[t].gen]

AtEnd(p) == ~p.up /\ (p.killed \/ p.out = << >>)

(* restartAfterProtocolError: whatever process the backend holds by now is *)
(* ended, and the next turn starts another.                                *)
RestartAfterProtocolError(ps) ==
  /\ cur' = 0
  /\ procs' = IF cur = 0 THEN ps ELSE [ps EXCEPT ![cur] = Killed(@)]

(* One more of the things that go wrong.                                   *)
Fault == faults < MaxFaults /\ faults' = faults + 1

(* Stream returns an error before its goroutine exists.                    *)
Refuse(t) ==
  /\ call' = [call EXCEPT ![t].pc = "done", ![t].end = "error"]
  /\ token' = TRUE

Call(t) ==
  /\ At(t, "idle")
  /\ \A u \in 1 .. t - 1 : ~At(u, "idle")
  /\ Goto(t, "wait")
  /\ UNCHANGED <<token, procs, cur, watch, closed, faults>>

Take(t) ==
  /\ At(t, "wait") /\ token
  /\ token' = FALSE
  /\ Goto(t, "ensure")
  /\ UNCHANGED <<procs, cur, watch, closed, faults>>

GiveUp(t) ==
  /\ At(t, "wait") /\ call[t].cancelled
  /\ call' = [call EXCEPT ![t].pc = "done", ![t].end = "cancelled"]
  /\ UNCHANGED <<token, procs, cur, watch, closed, faults>>

(* A turn with the routing of the process the backend holds.  The process  *)
(* is taken to be alive: the channel that would tell is closed by the wait *)
(* that only its removal calls.                                            *)
Reuse(t) ==
  /\ At(t, "ensure") /\ cur # 0
  /\ call' = [call EXCEPT ![t].pc = "send", ![t].gen = cur]
  /\ UNCHANGED <<token, procs, cur, watch, closed, faults>>

(* A turn with another environment or provider, or the first.              *)
StaleKept == procs

WithoutStale == IF cur = 0 THEN procs ELSE [procs EXCEPT ![cur] = Killed(@)]

Start(t) ==
  /\ At(t, "ensure")
  /\ procs' = Append(WithoutStale, Started)
  /\ cur' = Len(procs')
  /\ call' = [call EXCEPT ![t].pc = "handshake", ![t].gen = cur']
  /\ UNCHANGED <<token, watch, closed, faults>>

StartFails(t) ==
  /\ Fault
  /\ At(t, "ensure")
  /\ procs' = WithoutStale /\ cur' = 0
  /\ Refuse(t)
  /\ UNCHANGED <<watch, closed>>

(* The process answers; the context is looked at between two frames only.  *)
HandshakeAnswered(t) ==
  /\ At(t, "handshake") /\ Proc(t).up
  /\ Goto(t, "send")
  /\ UNCHANGED <<token, procs, cur, watch, closed, faults>>

HandshakeCancelled(t) ==
  /\ At(t, "handshake") /\ Proc(t).up /\ call[t].cancelled
  /\ RestartAfterProtocolError(procs)
  /\ Refuse(t)
  /\ UNCHANGED <<watch, closed, faults>>

HandshakeBroken(t) ==
  /\ At(t, "handshake") /\ ~Proc(t).up
  /\ RestartAfterProtocolError(procs)
  /\ Refuse(t)
  /\ UNCHANGED <<watch, closed, faults>>

(* The goroutine of the turn ends with its one terminal event; a watcher   *)
(* that sleeps in its select is told.                                      *)
Finish(t, end) ==
  /\ call' = [call EXCEPT ![t].pc = "release", ![t].end = end]
  /\ watch' = [watch EXCEPT ![t] = IF @ = "parked" THEN "off" ELSE @]

Send(t) ==
  /\ At(t, "send") /\ Proc(t).up
  /\ procs' = [procs EXCEPT ![call[t].gen] = Asked(@, t)]
  /\ watch' = [watch EXCEPT ![t] = "new"]
  /\ Goto(t, "read")
  /\ UNCHANGED <<token, cur, closed, faults>>

SendFails(t) ==
  /\ At(t, "send") /\ ~Proc(t).up
  /\ RestartAfterProtocolError(procs)
  /\ Finish(t, "error")
  /\ UNCHANGED <<token, closed, faults>>

-----------------------------------------------------------------------------
(* readTurnEvents.                                                         *)
ReadCancelled(t) ==
  /\ At(t, "read") /\ call[t].cancelled
  /\ RestartAfterProtocolError(procs)
  /\ Finish(t, "cancelled")
  /\ UNCHANGED <<token, closed, faults>>

ReadLine(t) ==
  /\ At(t, "read") /\ ~call[t].cancelled
  /\ Goto(t, "line")
  /\ UNCHANGED <<token, procs, cur, watch, closed, faults>>

Frame(t, kind) ==
  /\ At(t, "line")
  /\ Proc(t).out # << >> /\ Head(Proc(t).out).kind = kind

Rest(t) == [procs EXCEPT ![call[t].gen] = Taken(@)]

Feed(t) == call[t].fed \cup {Head(Proc(t).out).of}

Delta(t) ==
  /\ Frame(t, "delta")
  /\ procs' = Rest(t)
  /\ call' = [call EXCEPT ![t].pc = "read", ![t].fed = Feed(t)]
  /\ UNCHANGED <<token, cur, watch, closed, faults>>

(* An event that cannot be handed over any more ends the turn, and leaves  *)
(* the process to the watcher.                                             *)
DeltaCancelled(t) ==
  /\ Frame(t, "delta") /\ call[t].cancelled
  /\ procs' = Rest(t)
  /\ Finish(t, "cancelled")
  /\ UNCHANGED <<token, cur, closed, faults>>

TurnCompleted(t) ==
  /\ Frame(t, "final")
  /\ procs' = Rest(t)
  /\ call' = [call EXCEPT ![t].pc = "release", ![t].end = "endTurn", ![t].fed = Feed(t)]
  /\ watch' = [watch EXCEPT ![t] = IF @ = "parked" THEN "off" ELSE @]
  /\ UNCHANGED <<token, cur, closed, faults>>

BadFrameOnly(t) ==
  /\ Frame(t, "bad")
  /\ procs' = Rest(t)
  /\ Finish(t, "error")
  /\ UNCHANGED <<token, cur, closed, faults>>

(* A frame that is no JSON, an RPC error or an error notification.         *)
BadFrame(t) ==
  /\ Frame(t, "bad")
  /\ RestartAfterProtocolError(Rest(t))
  /\ Finish(t, "error")
  /\ UNCHANGED <<token, closed, faults>>

(* A process that went away by itself ends the turn as if it had answered; *)
(* the output of one that was ended here cannot be read.                   *)
EndOfOutput(t) ==
  /\ At(t, "line") /\ AtEnd(Proc(t))
  /\ RestartAfterProtocolError(procs)
  /\ Finish(t, IF call[t].cancelled THEN "cancelled"
               ELSE IF Proc(t).killed THEN "error" ELSE "endTurn")
  /\ UNCHANGED <<token, closed, faults>>

(* onClose of the stream cancels the context of the turn and gives the     *)
(* token back.                                                             *)
Release(t) ==
  /\ At(t, "release")
  /\ Goto(t, "done")
  /\ token' = TRUE
  /\ UNCHANGED <<procs, cur, watch, closed, faults>>

-----------------------------------------------------------------------------
(* The watcher of a turn gets to its select: it takes one of the cases     *)
(* that are ready, and sleeps when there is none.                          *)
Ready(t) ==
  (IF call[t].cancelled \/ At(t, "done") THEN {"due"} ELSE {}) \cup
  (IF call[t].pc \in {"release", "done"} THEN {"off"} ELSE {})

WatchSelects(t) ==
  /\ watch[t] = "new"
  /\ \E next \in (IF Ready(t) = {} THEN {"parked"} ELSE Ready(t)) :
       watch' = [watch EXCEPT ![t] = next]
  /\ UNCHANGED <<call, token, procs, cur, closed, faults>>

WatchReturns(t) ==
  /\ watch[t] = "due"
  /\ watch' = [watch EXCEPT ![t] = "off"]
  /\ UNCHANGED <<call, token, procs, cur, closed, faults>>

WatchRestarts(t) ==
  /\ watch[t] = "due"
  /\ RestartAfterProtocolError(procs)
  /\ watch' = [watch EXCEPT ![t] = "off"]
  /\ UNCHANGED <<call, token, closed, faults>>

(* The caller cancels, or the timeout of the request passes.               *)
Cancel(t) ==
  /\ Fault
  /\ call[t].pc \notin {"idle", "done"} /\ ~call[t].cancelled
  /\ call' = [call EXCEPT ![t].cancelled = TRUE]
  /\ watch' = [watch EXCEPT ![t] = IF @ = "parked" THEN "due" ELSE @]
  /\ UNCHANGED <<token, procs, cur, closed>>

Close ==
  /\ Fault
  /\ ~closed
  /\ closed' = TRUE
  /\ RestartAfterProtocolError(procs)
  /\ UNCHANGED <<call, token, watch>>

(* A process started after Close has a context that is done already.       *)
StartedAfterClose(g) ==
  /\ closed /\ g \in DOMAIN procs /\ procs[g].up
  /\ procs' = [procs EXCEPT ![g] = Killed(@)]
  /\ UNCHANGED <<call, token, cur, watch, closed, faults>>

PeerSays(g) ==
  /\ g \in DOMAIN procs /\ Serves(procs[g]) /\ Len(procs[g].out) < MaxUnread
  /\ \E kind \in {"delta", "final", "bad"} : procs' = [procs EXCEPT ![g] = Said(@, kind)]
  /\ UNCHANGED <<call, token, cur, watch, closed, faults>>

PeerDies(g) ==
  /\ Fault
  /\ g \in DOMAIN procs /\ procs[g].up
  /\ procs' = [procs EXCEPT ![g] = Died(@)]
  /\ UNCHANGED <<call, token, cur, watch, closed>>

(* What the goroutines of the backend do; the rest is its callers' and the *)
(* process's.                                                              *)
TurnStep(t) ==
  \/ Take(t) \/ GiveUp(t) \/ Reuse(t) \/ Start(t) \/ StartFails(t)
  \/ HandshakeBroken(t) \/ Send(t) \/ SendFails(t)
  \/ ReadCancelled(t) \/ ReadLine(t) \/ Delta(t) \/ DeltaCancelled(t)
  \/ TurnCompleted(t) \/ BadFrame(t) \/ EndOfOutput(t) \/ Release(t)

WatchStep(t) == WatchSelects(t) \/ WatchRestarts(t)

Next ==
  \/ \E t \in Turns : TurnStep(t) \/ WatchStep(t)
  \/ \E t \in Turns : Call(t) \/ Cancel(t) \/ HandshakeAnswered(t) \/ HandshakeCancelled(t)
  \/ Close
  \/ \E g \in DOMAIN procs : PeerSays(g) \/ PeerDies(g) \/ StartedAfterClose(g)

Spec ==
  /\ Init /\ [][Next]_vars
  /\ \A t \in Turns : WF_vars(TurnStep(t)) /\ WF_vars(WatchStep(t))

-----------------------------------------------------------------------------
(* Types.                                                                  *)
TypeOK ==
  /\ \A t \in Turns :
       /\ call[t].pc \in {"idle", "wait", "ensure", "handshake", "send", "read", "line",
                          "release", "done"}
       /\ call[t].gen \in 0 .. Len(procs)
       /\ call[t].cancelled \in BOOLEAN
       /\ call[t].fed \subseteq Turns
       /\ call[t].end \in {"none", "endTurn", "cancelled", "error"}
  /\ token \in BOOLEAN
  /\ \A g \in DOMAIN procs : procs[g].up \in BOOLEAN /\ Len(procs[g].out) <= MaxUnread
  /\ cur \in 0 .. Len(procs)
  /\ watch \in [Turns -> {"none", "new", "parked", "due", "off"}]
  /\ closed \in BOOLEAN
  /\ faults \in 0 .. MaxFaults

(* The token is held by one turn or by none.                               *)
OneTurn ==
  LET holding == {t \in Turns : call[t].pc \notin {"idle", "wait", "done"}}
  IN  IF token THEN holding = {} ELSE \E t \in Turns : holding = {t}

Misled(t) == call[t].fed \ {t} # {}

(* A turn whose frames another delivers was cancelled, or ended with the   *)
(* answer of another itself, which comes of a cancelled turn in the end:   *)
(* an answered or a broken turn leaves nothing behind.                     *)
OwnFrames ==
  /\ \A t \in Turns : \A u \in call[t].fed \ {t} : call[u].cancelled \/ Misled(u)
  /\ (\E t \in Turns : Misled(t)) => \E u \in Turns : call[u].cancelled

(* No process lives on unknown to the backend.                             *)
NoneIsLost == \A g \in DOMAIN procs : procs[g].up => g = cur

(* A turn whose context is done while it reads comes to its end, however   *)
(* silent the process is.                                                  *)
CancelledTurnsEnd ==
  \A t \in Turns : At(t, "line") /\ call[t].cancelled ~> At(t, "done")

(* "Cancelling ctx terminates the in-flight read loop": what is left of a  *)
(* cancelled turn is no part of the next one's answer.                     *)
AnswersAreOwn == \A t \in Turns : call[t].fed \subseteq {t}

(* "Protocol corruption (... unexpected EOF) emits exactly one terminal    *)
(* error event": a turn that ends well has seen the end of its turn.       *)
EndTurnIsAnswered == \A t \in Turns : call[t].end = "endTurn" => t \in call[t].fed
=============================================================================
