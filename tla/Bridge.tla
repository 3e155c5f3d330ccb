-------------------------------- MODULE Bridge --------------------------------
(***************************************************************************)
(* llmcli/bridge.Run under daemon.Lifecycle.Run: requests are read line by *)
(* line, each handled by a goroutine of its own, and their responses go    *)
(* through a channel to the one goroutine that writes the output.  A line  *)
(* is the id it carries and whether it is a request, a cancellation or     *)
(* neither; the client is free to use an id again at any time.             *)
(***************************************************************************)
EXTENDS Naturals, Sequences, FiniteSets

CONSTANTS
  RequestIds,
  MaxLines,   \* bound: lines the client writes
  Capacity    \* of the channel of responses

VARIABLES
  reader,    \* where runner.run is
  lines,     \* lines read so far
  handler,   \* the goroutines of requests, in the order they came
  registry,  \* registry[id]: the handler whose cancel function is kept, or 0
  responses, \* the channel: handlers, and Refusal for a refused line
  channel,   \* "open", "closed", and "misused" when sent to after that
  writer,    \* "works", "failed", "ended"
  cancelAll, \* cancelAll: "armed", "due", "done"
  runCtx,    \* the context of runner.run is "live" or "cancelled"
  life,      \* Lifecycle.Run: "runs", "waits" for run, "returned"
  written    \* history: handlers whose response was written

bridgeVars == <<reader, lines, handler, registry, responses, channel, writer, cancelAll,
                runCtx, life, written>>

Init ==
  /\ reader = "check"
  /\ lines = 0
  /\ handler = << >>
  /\ registry = [id \in RequestIds |-> 0]
  /\ responses = << >>
  /\ channel = "open"
  /\ writer = "works"
  /\ cancelAll = "armed"
  /\ runCtx = "live"
  /\ life = "runs"
  /\ written = {}

Refusal == 0

None == 0

Handlers == DOMAIN handler

Cancelled(hs) ==
  [h \in Handlers |-> IF h \in hs THEN [handler[h] EXCEPT !.cancelled = TRUE] ELSE handler[h]]

(* cancelAll: the handlers in the registry.                                *)
CancelActive == Cancelled({registry[id] : id \in RequestIds})

Goto(pc) == reader' = pc

-----------------------------------------------------------------------------
(* readLoop looks at its context between two lines only.                   *)
Check ==
  /\ reader = "check" /\ runCtx = "live"
  /\ Goto("read")
  /\ UNCHANGED <<lines, handler, registry, responses, channel, writer, cancelAll, runCtx,
                 life, written>>

StopReading ==
  /\ reader = "check" /\ runCtx = "cancelled"
  /\ handler' = CancelActive
  /\ Goto("wait")
  /\ UNCHANGED <<lines, registry, responses, channel, writer, cancelAll, runCtx, life,
                 written>>

Line == reader = "read" /\ lines < MaxLines /\ lines' = lines + 1

Register(id) ==
  /\ handler' = Append(handler, [id |-> id, pc |-> "handling", cancelled |-> runCtx = "cancelled"])
  /\ registry' = [registry EXCEPT ![id] = Len(handler')]
  /\ Goto("check")
  /\ UNCHANGED <<responses, channel, writer, cancelAll, runCtx, life, written>>

RegisterAny(id) == Line /\ Register(id)

(* startRequest                                                            *)
StartRequest(id) == Line /\ registry[id] = None /\ Register(id)

(* The id of a request in flight, no id, an unknown op or no JSON.         *)
RefuseLine ==
  /\ Line
  /\ Goto("refuse")
  /\ UNCHANGED <<handler, registry, responses, channel, writer, cancelAll, runCtx, life,
                 written>>

CancelLine(id) ==
  /\ Line
  /\ handler' = Cancelled({registry[id]})
  /\ Goto("check")
  /\ UNCHANGED <<registry, responses, channel, writer, cancelAll, runCtx, life, written>>

EndOfInput ==
  /\ reader = "read"
  /\ Goto("wait")
  /\ UNCHANGED <<lines, handler, registry, responses, channel, writer, cancelAll, runCtx, life,
                 written>>

(* A line that is too long, or an error of the input.                      *)
ReadFails ==
  /\ reader = "read"
  /\ handler' = CancelActive
  /\ Goto("wait")
  /\ UNCHANGED <<lines, registry, responses, channel, writer, cancelAll, runCtx, life, written>>

-----------------------------------------------------------------------------
SendOrWait(response) ==
  /\ Len(responses) < Capacity
  /\ responses' = Append(responses, response)
  /\ channel' = IF channel = "open" THEN "open" ELSE "misused"

(* trySend: to the channel, or nowhere when its reader is gone.            *)
TrySend(response) ==
  \/ SendOrWait(response)
  \/ writer = "failed" /\ UNCHANGED <<responses, channel>>

SendRefusal ==
  /\ reader = "refuse"
  /\ TrySend(Refusal)
  /\ Goto("check")
  /\ UNCHANGED <<lines, handler, registry, writer, cancelAll, runCtx, life, written>>

HandlerAt(h, pc) == h \in Handlers /\ handler[h].pc = pc

HandlerGoto(h, pc) == handler' = [handler EXCEPT ![h].pc = pc]

(* The handler has a result or an error, soon if it is cancelled.          *)
HandlerEnds(h) ==
  /\ HandlerAt(h, "handling")
  /\ HandlerGoto(h, "send")
  /\ UNCHANGED <<reader, lines, registry, responses, channel, writer, cancelAll, runCtx,
                 life, written>>

Respond(h) ==
  /\ HandlerAt(h, "send")
  /\ TrySend(h)
  /\ HandlerGoto(h, "forget")
  /\ UNCHANGED <<reader, lines, registry, writer, cancelAll, runCtx, life, written>>

Forget(h) ==
  /\ HandlerAt(h, "forget")
  /\ registry' = [registry EXCEPT ![handler[h].id] = None]
  /\ HandlerGoto(h, "done")
  /\ UNCHANGED <<reader, lines, responses, channel, writer, cancelAll, runCtx, life, written>>

Write ==
  /\ writer = "works" /\ responses # << >>
  /\ responses' = Tail(responses)
  /\ written' = written \cup {Head(responses)}
  /\ UNCHANGED <<reader, lines, handler, registry, channel, writer, cancelAll, runCtx, life>>

WriteFails ==
  /\ writer = "works" /\ responses # << >>
  /\ responses' = Tail(responses)
  /\ writer' = "failed"
  /\ cancelAll' = "due"
  /\ UNCHANGED <<reader, lines, handler, registry, channel, runCtx, life, written>>

CancelAll ==
  /\ cancelAll = "due"
  /\ cancelAll' = "done"
  /\ handler' = CancelActive
  /\ UNCHANGED <<reader, lines, registry, responses, channel, writer, runCtx, life, written>>

-----------------------------------------------------------------------------
CloseChannel ==
  /\ reader = "wait"
  /\ channel' = "closed"
  /\ Goto("closing")
  /\ UNCHANGED <<lines, handler, registry, responses, writer, cancelAll, runCtx, life,
                 written>>

(* wg.Wait and close.                                                      *)
WaitForHandlers == (\A h \in Handlers : handler[h].pc = "done") /\ CloseChannel

WriterEnds ==
  /\ writer = "works" /\ channel # "open" /\ responses = << >>
  /\ writer' = "ended"
  /\ UNCHANGED <<reader, lines, handler, registry, responses, channel, cancelAll, runCtx,
                 life, written>>

(* The error of the writer is there; the backend is closed, the lock given *)
(* back and the result handed to the lifecycle.                            *)
RunReturns ==
  /\ reader = "closing" /\ writer # "works"
  /\ Goto("done")
  /\ UNCHANGED <<lines, handler, registry, responses, channel, writer, cancelAll, runCtx,
                 life, written>>

(* A signal, or the context of the caller is done.                         *)
Interrupt ==
  /\ life = "runs"
  /\ life' = "waits"
  /\ runCtx' = "cancelled"
  /\ handler' = Cancelled(Handlers)
  /\ UNCHANGED <<reader, lines, registry, responses, channel, writer, cancelAll, written>>

Return ==
  /\ life # "returned" /\ reader = "done"
  /\ life' = "returned"
  /\ UNCHANGED <<reader, lines, handler, registry, responses, channel, writer, cancelAll,
                 runCtx, written>>

(* waitForRun gives up after ShutdownTimeout, mostly on a reader that is   *)
(* blocked in a read.                                                      *)
ShutdownTimeout ==
  /\ life = "waits"
  /\ life' = "returned"
  /\ UNCHANGED <<reader, lines, handler, registry, responses, channel, writer, cancelAll,
                 runCtx, written>>

ReaderStep == Check \/ StopReading \/ SendRefusal \/ WaitForHandlers \/ RunReturns

HandlerStep(h) == HandlerEnds(h) \/ Respond(h) \/ Forget(h)

WriterStep == Write \/ WriterEnds

LifeStep == Return \/ ShutdownTimeout

Next ==
  \/ ReaderStep \/ WriterStep \/ WriteFails \/ CancelAll \/ LifeStep \/ Interrupt
  \/ RefuseLine \/ EndOfInput \/ ReadFails
  \/ \E id \in RequestIds : StartRequest(id) \/ CancelLine(id)
  \/ \E h \in 1 .. MaxLines : HandlerStep(h)

(* Go runs every goroutine that can run, and every call of a backend comes *)
(* to an end.                                                              *)
Spec ==
  /\ Init /\ [][Next]_bridgeVars
  /\ WF_bridgeVars(ReaderStep) /\ WF_bridgeVars(WriterStep) /\ WF_bridgeVars(LifeStep)
  /\ \A h \in 1 .. MaxLines : WF_bridgeVars(HandlerStep(h))

-----------------------------------------------------------------------------
TypeOK ==
  /\ reader \in {"check", "read", "refuse", "wait", "closing", "done"}
  /\ registry \in [RequestIds -> 0 .. Len(handler)]
  /\ Len(responses) <= Capacity
  /\ channel \in {"open", "closed", "misused"}
  /\ written \subseteq Handlers \cup {Refusal}

(* When run is over and the output was not broken, each request that was   *)
(* accepted has its response in it: none is sent to a closed channel, left *)
(* in it, or dropped.                                                      *)
AllAreAnswered ==
  /\ channel # "misused"
  /\ reader = "done" /\ writer = "ended" => Handlers \subseteq written

(* A request at work can be cancelled by its id, and by cancelAll, however *)
(* often the client uses ids again.                                        *)
RunningIsCancellable ==
  \A h \in Handlers : handler[h].pc = "handling" => registry[handler[h].id] = h

(* When the input has ended Run returns, with an output that works or one  *)
(* that has failed while responses waited for room in the channel.         *)
RunEnds == reader = "wait" ~> life = "returned"

(* "Cancel all active requests if the writer exits early so handler        *)
(* goroutines can return promptly" (run.go:86).                            *)
NoneWorksForNobody ==
  cancelAll = "done" => \A h \in Handlers : handler[h].pc = "handling" => handler[h].cancelled
=============================================================================
