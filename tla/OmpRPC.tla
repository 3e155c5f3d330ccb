------------------------------- MODULE OmpRPC -------------------------------
(***************************************************************************)
(* The persistent omp backend (llmcli/omp_rpc.go, with the parser of       *)
(* llmcli/omp.go).  A call finds or starts the process of its routing      *)
(* under the lock of the backend, takes the turn lock of the process,      *)
(* writes its commands and reads frames until one ends its turn.  The      *)
(* context of the process is a child of that of the call that started it.  *)
(* A turn that is cancelled asks the process to abort, and nothing         *)
(* restarts the process.                                                   *)
(***************************************************************************)
EXTENDS Naturals, Sequences, Peers

CONSTANTS
  MaxCalls,   \* bound: calls of Stream, numbered as they come
  MaxUnread,  \* bound: frames in the pipe
  MaxFaults   \* bound: cancelled contexts, failed starts, deaths and Close

VARIABLES
  call,    \* call[c]: where Stream is, whether it defines host tools, its
           \*   process, whose frames it delivered, its terminal event
  procs,   \* the processes started so far; starter: the call whose context
           \*   is theirs; lost: writes a dead one swallowed; turn: who has
           \*   the turn lock
  cur,     \* the one the backend holds, or 0
  faults

vars == <<call, procs, cur, faults>>

Calls == 1 .. MaxCalls

Idle == [pc |-> "idle", tools |-> FALSE, gen |-> 0, cancelled |-> FALSE, fed |-> {},
         end |-> "none"]

Init ==
  /\ call = [c \in Calls |-> Idle]
  /\ procs = << >>
  /\ cur = 0
  /\ faults = 0

-----------------------------------------------------------------------------
At(c, pc) == call[c].pc = pc

Goto(c, pc) == call' = [call EXCEPT ![c].pc = pc]

Proc(c) == procs[call[c].gen]

Fault == faults < MaxFaults /\ faults' = faults + 1

Call(c) ==
  /\ At(c, "idle")
  /\ \A d \in 1 .. c - 1 : ~At(d, "idle")
  /\ \E tools \in BOOLEAN :
       call' = [call EXCEPT ![c].pc = "ensure", ![c].tools = tools]
  /\ UNCHANGED <<procs, cur, faults>>

(* The call has the routing of the process; whether that is alive, or the  *)
(* backend closed, is not asked.                                           *)
Reuse(c) ==
  /\ At(c, "ensure") /\ cur # 0
  /\ call' = [call EXCEPT ![c].pc = "lock", ![c].gen = cur]
  /\ UNCHANGED <<procs, cur, faults>>

(* A process of another routing is ended, whatever turn it is at.          *)
WithoutOther == IF cur = 0 THEN procs ELSE [procs EXCEPT ![cur] = Drained(Killed(@))]

FreshOf(c) ==
  [up |-> TRUE, killed |-> FALSE, todo |-> << >>, out |-> << >>, starter |-> c, turn |-> 0,
   lost |-> 0]

Start(c) ==
  /\ At(c, "ensure") /\ ~call[c].cancelled
  /\ procs' = Append(WithoutOther, FreshOf(c))
  /\ cur' = Len(procs')
  /\ call' = [call EXCEPT ![c].pc = "lock", ![c].gen = cur']
  /\ UNCHANGED faults

StartFails(c) ==
  /\ Fault
  /\ At(c, "ensure")
  /\ procs' = WithoutOther /\ cur' = 0
  /\ call' = [call EXCEPT ![c].pc = "done", ![c].end = "error"]

Lock(c) ==
  /\ At(c, "lock") /\ Proc(c).turn = 0
  /\ procs' = [procs EXCEPT ![call[c].gen].turn = c]
  /\ Goto(c, IF call[c].tools THEN "tools" ELSE "start")
  /\ UNCHANGED <<cur, faults>>

-----------------------------------------------------------------------------
(* The commands are written to a pipe of the backend's own, from which a   *)
(* copier takes them: the first after the death of the process is lost     *)
(* with the copier, and the next waits for ever.                           *)
Written(c, ps) ==
  [ps EXCEPT ![call[c].gen].lost = IF procs[call[c].gen].up THEN 0 ELSE 1]

CanWrite(c) == ~Proc(c).killed /\ Proc(c).lost = 0

Unlock(c, ps, end) ==
  /\ procs' = [ps EXCEPT ![call[c].gen].turn = 0]
  /\ call' = [call EXCEPT ![c].pc = "done", ![c].end = IF @ = "none" THEN end ELSE @]

SetHostTools(c) ==
  /\ At(c, "tools") /\ CanWrite(c)
  /\ procs' = Written(c, procs)
  /\ Goto(c, "start")
  /\ UNCHANGED <<cur, faults>>

(* An event that cannot be handed over closes the stream with no terminal  *)
(* event at all.                                                           *)
StartEventCancelled(c) ==
  /\ At(c, "start") /\ call[c].cancelled
  /\ Unlock(c, procs, "silent")
  /\ UNCHANGED <<cur, faults>>

StartEvent(c) ==
  /\ At(c, "start")
  /\ Goto(c, "send")
  /\ UNCHANGED <<procs, cur, faults>>

SendPrompt(c) ==
  /\ At(c, "send") /\ CanWrite(c)
  /\ procs' = Written(c, [procs EXCEPT ![call[c].gen] = Asked(@, c)])
  /\ Goto(c, "read")
  /\ UNCHANGED <<cur, faults>>

WriteFails(c) ==
  /\ call[c].pc \in {"tools", "send"} /\ Proc(c).killed
  /\ Unlock(c, procs, "error")
  /\ UNCHANGED <<cur, faults>>

Frame(c, kind) ==
  /\ At(c, "read")
  /\ Proc(c).out # << >> /\ Head(Proc(c).out).kind = kind

Rest(c) == [procs EXCEPT ![call[c].gen] = Taken(@)]

Feed(c) == call[c].fed \cup {Head(Proc(c).out).of}

Delta(c) ==
  /\ Frame(c, "delta") /\ call[c].end = "none"
  /\ procs' = Rest(c)
  /\ call' = [call EXCEPT ![c].fed = Feed(c)]
  /\ UNCHANGED <<cur, faults>>

(* A delta after the channel was closed: sending on it would be a panic.   *)
DeltaOnClosed(c) ==
  /\ Frame(c, "delta") /\ call[c].end # "none"
  /\ procs' = Rest(c)
  /\ Goto(c, "panic")
  /\ UNCHANGED <<cur, faults>>

(* The turn ends; the abort it asks for is up to the process.              *)
DeltaCancelled(c) ==
  /\ Frame(c, "delta") /\ call[c].cancelled
  /\ Unlock(c, Rest(c), "cancelled")
  /\ UNCHANGED <<cur, faults>>

Done(c) ==
  /\ Frame(c, "final")
  /\ procs' = [Rest(c) EXCEPT ![call[c].gen].turn = 0]
  /\ call' = [call EXCEPT ![c].pc = "done", ![c].end = IF @ = "none" THEN "endTurn" ELSE @,
                          ![c].fed = Feed(c)]
  /\ UNCHANGED <<cur, faults>>

(* The process refuses the host tools: the terminal event is an error, and *)
(* the reading goes on.                                                    *)
Refused(c) ==
  /\ Frame(c, "bad") /\ call[c].tools
  /\ procs' = Rest(c)
  /\ call' = [call EXCEPT ![c].end = IF @ = "none" THEN "error" ELSE @]
  /\ UNCHANGED <<cur, faults>>

(* An error frame ends the turn, a line that is no frame is skipped.       *)
ErrorFrame(c) ==
  /\ Frame(c, "bad")
  /\ Unlock(c, Rest(c), "error")
  /\ UNCHANGED <<cur, faults>>

Skip(c) ==
  /\ Frame(c, "bad")
  /\ procs' = Rest(c)
  /\ UNCHANGED <<call, cur, faults>>

(* The end of the output is taken for the end of the turn.                 *)
EndOfOutput(c) ==
  /\ At(c, "read") /\ ~Proc(c).up /\ Proc(c).out = << >>
  /\ Unlock(c, procs, "endTurn")
  /\ UNCHANGED <<cur, faults>>

ReadFails(c) ==
  /\ At(c, "read") /\ Proc(c).killed
  /\ Unlock(c, procs, IF call[c].cancelled THEN "cancelled" ELSE "error")
  /\ UNCHANGED <<cur, faults>>

-----------------------------------------------------------------------------
(* A caller may cancel its context at any time, a well-behaved one does so *)
(* when the call is over.                                                  *)
Cancel(c) ==
  /\ Fault
  /\ ~At(c, "idle") /\ ~call[c].cancelled
  /\ call' = [call EXCEPT ![c].cancelled = TRUE]
  /\ UNCHANGED <<procs, cur>>

(* The supervisor of a process watches the context it was started under.   *)
StarterIsDone(g) ==
  /\ procs[g].up /\ call[procs[g].starter].cancelled
  /\ procs' = [procs EXCEPT ![g] = Died(@)]
  /\ UNCHANGED <<call, cur, faults>>

Close ==
  /\ Fault
  /\ cur # 0
  /\ cur' = 0
  /\ procs' = [procs EXCEPT ![cur] = Drained(Killed(@))]
  /\ UNCHANGED call

PeerSays(g) ==
  /\ Serves(procs[g]) /\ Len(procs[g].out) < MaxUnread
  /\ \E kind \in {"delta", "final", "bad"} : procs' = [procs EXCEPT ![g] = Said(@, kind)]
  /\ UNCHANGED <<call, cur, faults>>

PeerDies(g) ==
  /\ Fault
  /\ procs[g].up
  /\ procs' = [procs EXCEPT ![g] = Died(@)]
  /\ UNCHANGED <<call, cur>>

Next ==
  \/ \E c \in Calls :
       \/ Call(c) \/ Reuse(c) \/ Start(c) \/ StartFails(c) \/ Lock(c)
       \/ SetHostTools(c) \/ StartEventCancelled(c) \/ StartEvent(c) \/ SendPrompt(c)
       \/ WriteFails(c) \/ Delta(c) \/ DeltaOnClosed(c) \/ DeltaCancelled(c) \/ Done(c)
       \/ Refused(c) \/ ErrorFrame(c) \/ Skip(c) \/ EndOfOutput(c) \/ ReadFails(c)
       \/ Cancel(c)
  \/ Close
  \/ \E g \in DOMAIN procs : StarterIsDone(g) \/ PeerSays(g) \/ PeerDies(g)

Spec == Init /\ [][Next]_vars

-----------------------------------------------------------------------------
(* Types.                                                                  *)
TypeOK ==
  /\ \A c \in Calls :
       /\ call[c].pc \in {"idle", "ensure", "lock", "tools", "start", "send", "read", "done",
                          "panic"}
       /\ call[c].tools \in BOOLEAN
       /\ call[c].gen \in 0 .. Len(procs)
       /\ call[c].fed \subseteq Calls
       /\ call[c].end \in {"none", "endTurn", "cancelled", "error", "silent"}
  /\ \A g \in DOMAIN procs :
       /\ procs[g].starter \in Calls
       /\ procs[g].turn \in 0 .. MaxCalls
       /\ procs[g].lost \in 0 .. 1
  /\ cur \in 0 .. Len(procs)
  /\ faults \in 0 .. MaxFaults

Misled(c) == call[c].fed \ {c} # {}

Broken(c) == call[c].cancelled \/ call[c].end = "error"

(* A turn whose frames another delivers was cancelled, ended by an error   *)
(* frame, or ended with the answer of another itself, which comes of one   *)
(* of the first two in the end.                                            *)
OwnFrames ==
  /\ \A c \in Calls : \A d \in call[c].fed \ {c} : Broken(d) \/ Misled(d)
  /\ (\E c \in Calls : Misled(c)) => \E d \in Calls : Broken(d)

(* No process lives on unknown to the backend.                             *)
NoneIsLost == \A g \in DOMAIN procs : procs[g].up => g = cur

(* "The invariant that exactly one terminal event is sent to a stream      *)
(* channel, and that the channel is closed ... after": nothing is sent     *)
(* after it.                                                               *)
NothingAfterTheEnd == \A c \in Calls : ~At(c, "panic")
=============================================================================
