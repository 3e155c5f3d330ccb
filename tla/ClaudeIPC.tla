----------------------------- MODULE ClaudeIPC -----------------------------
(***************************************************************************)
(* The persistent Claude backend (llmcli/claude_ipc.go).  Calls of Stream  *)
(* find or start the process of their routing under the lock of the        *)
(* backend, which they give up while they tear one down or start one, and  *)
(* queue for the turn lock of the process they found.  A turn whose        *)
(* context is done when it ends, or that could not write or read, unlocks  *)
(* its turn and then ends whatever process the backend holds by then.      *)
(***************************************************************************)
EXTENDS Naturals, Sequences, Peers

CONSTANTS
  MaxCalls,   \* bound: calls of Stream, numbered as they come
  MaxUnread,  \* bound: frames in the pipe
  MaxFaults   \* bound: cancelled calls, failed starts, deaths and Close

VARIABLES
  call,    \* call[c]: where Stream is, the process it uses or tears down,
           \*   whose frames it delivered, how it ends
  procs,   \* the processes started so far; lost: requests its input
           \*   swallowed although it was gone; turn: who has its turn lock
  cur,     \* the one the backend holds, or 0
  closed,
  faults

vars == <<call, procs, cur, closed, faults>>

Calls == 1 .. MaxCalls

Idle == [pc |-> "idle", gen |-> 0, cancelled |-> FALSE, fed |-> {}, end |-> "none"]

Init ==
  /\ call = [c \in Calls |-> Idle]
  /\ procs = << >>
  /\ cur = 0
  /\ closed = FALSE
  /\ faults = 0

-----------------------------------------------------------------------------
At(c, pc) == call[c].pc = pc

Goto(c, pc) == call' = [call EXCEPT ![c].pc = pc]

Proc(c) == procs[call[c].gen]

Fault == faults < MaxFaults /\ faults' = faults + 1

(* Stream returns an error.                                                *)
Refuse(c) == call' = [call EXCEPT ![c].pc = "done", ![c].end = "error"]

Call(c) ==
  /\ At(c, "idle")
  /\ \A d \in 1 .. c - 1 : ~At(d, "idle")
  /\ Goto(c, "ensure")
  /\ UNCHANGED <<procs, cur, closed, faults>>

EnsureClosed(c) ==
  /\ At(c, "ensure") /\ closed
  /\ Refuse(c)
  /\ UNCHANGED <<procs, cur, closed, faults>>

(* The routing of the call is that of the process.  Whether it is alive is *)
(* asked of a channel that only the wait of a teardown closes.             *)
Reuse(c) ==
  /\ At(c, "ensure") /\ ~closed /\ cur # 0
  /\ call' = [call EXCEPT ![c].pc = "lock", ![c].gen = cur]
  /\ UNCHANGED <<procs, cur, closed, faults>>

(* No process yet, or one of another routing, which is taken from the      *)
(* backend before it is torn down.                                         *)
Replace(c) ==
  /\ At(c, "ensure") /\ ~closed
  /\ call' = [call EXCEPT ![c].pc = IF cur = 0 THEN "start" ELSE "teardown", ![c].gen = cur]
  /\ cur' = 0
  /\ UNCHANGED <<procs, closed, faults>>

(* Its context is cancelled and its input closed; draining its output      *)
(* waits for the turn that reads it.                                       *)
Teardown(c) ==
  /\ At(c, "teardown")
  /\ procs' = [procs EXCEPT ![call[c].gen] = Killed(@)]
  /\ Goto(c, "drain")
  /\ UNCHANGED <<cur, closed, faults>>

Drain(c) ==
  /\ At(c, "drain") /\ Proc(c).turn = 0
  /\ procs' = [procs EXCEPT ![call[c].gen] = Drained(@)]
  /\ Goto(c, "start")
  /\ UNCHANGED <<cur, closed, faults>>

(* The process is started and says that it is ready.                       *)
Fresh == [up |-> TRUE, killed |-> FALSE, todo |-> << >>, out |-> << >>, turn |-> 0, lost |-> 0]

Start(c) ==
  /\ At(c, "start")
  /\ procs' = Append(procs, Fresh)
  /\ call' = [call EXCEPT ![c].pc = "publish", ![c].gen = Len(procs')]
  /\ UNCHANGED <<cur, closed, faults>>

(* It does not start, or not in time: the probe has a deadline and ends it.*)
StartFails(c) ==
  /\ Fault
  /\ At(c, "start")
  /\ Refuse(c)
  /\ UNCHANGED <<procs, cur, closed>>

Publish(c) ==
  /\ At(c, "publish") /\ ~closed
  /\ cur' = call[c].gen
  /\ Goto(c, "lock")
  /\ UNCHANGED <<procs, closed, faults>>

PublishClosed(c) ==
  /\ At(c, "publish") /\ closed
  /\ procs' = [procs EXCEPT ![call[c].gen] = Drained(Killed(@))]
  /\ Refuse(c)
  /\ UNCHANGED <<cur, closed, faults>>

LockAtOnce(c) ==
  /\ At(c, "lock")
  /\ procs' = [procs EXCEPT ![call[c].gen].turn = c]
  /\ Goto(c, "send")
  /\ UNCHANGED <<cur, closed, faults>>

Lock(c) ==
  /\ At(c, "lock") /\ Proc(c).turn = 0
  /\ procs' = [procs EXCEPT ![call[c].gen].turn = c]
  /\ Goto(c, "send")
  /\ UNCHANGED <<cur, closed, faults>>

-----------------------------------------------------------------------------
(* The goroutine of a turn.                                                *)

(* Unlock and go on: "grab" the process of the backend, or be done.        *)
Unlock(c, ps, next, end) ==
  /\ procs' = [ps EXCEPT ![call[c].gen].turn = 0]
  /\ call' = [call EXCEPT ![c].pc = next, ![c].end = end]

(* The request goes through a pipe of the backend's own, and a copier      *)
(* takes it from there: one request to a process that has died is          *)
(* swallowed, and the next would wait for a copier that is gone.           *)
Send(c) ==
  /\ At(c, "send") /\ ~Proc(c).killed /\ Proc(c).lost = 0
  /\ procs' = [procs EXCEPT ![call[c].gen] =
                 [Asked(@, c) EXCEPT !.lost = IF procs[call[c].gen].up THEN 0 ELSE 1]]
  /\ Goto(c, "read")
  /\ UNCHANGED <<cur, closed, faults>>

SendFails(c) ==
  /\ At(c, "send") /\ Proc(c).killed
  /\ Unlock(c, procs, "grab", "error")
  /\ UNCHANGED <<cur, closed, faults>>

Frame(c, kind) ==
  /\ At(c, "read")
  /\ Proc(c).out # << >> /\ Head(Proc(c).out).kind = kind

Rest(c) == [procs EXCEPT ![call[c].gen] = Taken(@)]

Feed(c) == call[c].fed \cup {Head(Proc(c).out).of}

Delta(c) ==
  /\ Frame(c, "delta")
  /\ procs' = Rest(c)
  /\ call' = [call EXCEPT ![c].fed = Feed(c)]
  /\ UNCHANGED <<cur, closed, faults>>

DeltaCancelled(c) ==
  /\ Frame(c, "delta") /\ call[c].cancelled
  /\ Unlock(c, Rest(c), "grab", "cancelled")
  /\ UNCHANGED <<cur, closed, faults>>

(* The result frame ends the turn; its process goes on unless the context  *)
(* is done.                                                                *)
Result(c) ==
  /\ Frame(c, "final")
  /\ procs' = [Rest(c) EXCEPT ![call[c].gen].turn = 0]
  /\ call' = [call EXCEPT ![c].pc  = IF call[c].cancelled THEN "grab" ELSE "done",
                          ![c].end = "endTurn", ![c].fed = Feed(c)]
  /\ UNCHANGED <<cur, closed, faults>>

(* A line that is no frame is skipped.                                     *)
Skip(c) ==
  /\ Frame(c, "bad")
  /\ procs' = Rest(c)
  /\ UNCHANGED <<call, cur, closed, faults>>

(* The end of the output is taken for the end of the turn.                 *)
EndOfOutput(c) ==
  /\ At(c, "read") /\ ~Proc(c).up /\ Proc(c).out = << >>
  /\ Unlock(c, procs, IF call[c].cancelled THEN "grab" ELSE "done", "endTurn")
  /\ UNCHANGED <<cur, closed, faults>>

(* The output of a process that is torn down may be closed under a reader. *)
ReadFails(c) ==
  /\ At(c, "read") /\ Proc(c).killed
  /\ Unlock(c, procs, "grab", IF call[c].cancelled THEN "cancelled" ELSE "error")
  /\ UNCHANGED <<cur, closed, faults>>

(* restartAfterProtocolError: takes the process the backend holds ...      *)
Grab(c) ==
  /\ At(c, "grab")
  /\ cur' = 0
  /\ call' = [call EXCEPT ![c].pc = IF cur = 0 THEN "done" ELSE "kill", ![c].gen = cur]
  /\ UNCHANGED <<procs, closed, faults>>

(* ... and ends it, whoever has its turn lock.                             *)
Kill(c) ==
  /\ At(c, "kill")
  /\ procs' = [procs EXCEPT ![call[c].gen] = Drained(Killed(@))]
  /\ Goto(c, "done")
  /\ UNCHANGED <<cur, closed, faults>>

-----------------------------------------------------------------------------
Cancel(c) ==
  /\ Fault
  /\ call[c].pc \notin {"idle", "done"} /\ ~call[c].cancelled
  /\ call' = [call EXCEPT ![c].cancelled = TRUE]
  /\ UNCHANGED <<procs, cur, closed>>

(* Close takes the process and ends it; its drain, which waits for the     *)
(* turn, changes nothing more.                                             *)
Close ==
  /\ Fault
  /\ ~closed
  /\ closed' = TRUE
  /\ cur' = 0
  /\ procs' = IF cur = 0 THEN procs ELSE [procs EXCEPT ![cur] = Killed(@)]
  /\ UNCHANGED call

PeerSays(g) ==
  /\ Serves(procs[g]) /\ Len(procs[g].out) < MaxUnread
  /\ \E kind \in {"delta", "final", "bad"} : procs' = [procs EXCEPT ![g] = Said(@, kind)]
  /\ UNCHANGED <<call, cur, closed, faults>>

PeerDies(g) ==
  /\ Fault
  /\ procs[g].up
  /\ procs' = [procs EXCEPT ![g] = Died(@)]
  /\ UNCHANGED <<call, cur, closed>>

Next ==
  \/ \E c \in Calls :
       \/ Call(c) \/ EnsureClosed(c) \/ Reuse(c) \/ Replace(c) \/ Teardown(c) \/ Drain(c)
       \/ Start(c) \/ StartFails(c) \/ Publish(c) \/ PublishClosed(c) \/ Lock(c)
       \/ Send(c) \/ SendFails(c) \/ Delta(c) \/ DeltaCancelled(c) \/ Result(c) \/ Skip(c)
       \/ EndOfOutput(c) \/ ReadFails(c) \/ Grab(c) \/ Kill(c) \/ Cancel(c)
  \/ Close
  \/ \E g \in DOMAIN procs : PeerSays(g) \/ PeerDies(g)

Spec == Init /\ [][Next]_vars

-----------------------------------------------------------------------------
(* Types.                                                                  *)
TypeOK ==
  /\ \A c \in Calls :
       /\ call[c].pc \in {"idle", "ensure", "teardown", "drain", "start", "publish", "lock",
                          "send", "read", "grab", "kill", "done"}
       /\ call[c].gen \in 0 .. Len(procs)
       /\ call[c].fed \subseteq Calls
       /\ call[c].end \in {"none", "endTurn", "cancelled", "error"}
  /\ \A g \in DOMAIN procs :
       procs[g].turn \in 0 .. MaxCalls /\ procs[g].lost \in 0 .. 1
  /\ cur \in 0 .. Len(procs)
  /\ closed \in BOOLEAN
  /\ faults \in 0 .. MaxFaults

Misled(c) == call[c].fed \ {c} # {}

(* A turn whose frames another delivers was cancelled, or ended with the   *)
(* answer of another itself, which comes of a cancelled turn in the end.   *)
OwnFrames ==
  /\ \A c \in Calls : \A d \in call[c].fed \ {c} : call[d].cancelled \/ Misled(d)
  /\ (\E c \in Calls : Misled(c)) => \E d \in Calls : call[d].cancelled

(* "At most one turn runs at a time ... Mid-turn cancellation ... triggers *)
(* a process restart": the next turn gets no frame of the cancelled one.   *)
AnswersAreOwn == \A c \in Calls : call[c].fed \subseteq {c}

(* After Close and the end of every call no process is left.               *)
CloseLeavesNone ==
  closed /\ (\A c \in Calls : call[c].pc \in {"idle", "done"})
    => \A g \in DOMAIN procs : ~procs[g].up

(* A turn waits neither for itself nor for a copier that is gone.          *)
TurnsCanGoOn == \A c \in Calls : At(c, "send") => Proc(c).killed \/ Proc(c).lost = 0
=============================================================================
