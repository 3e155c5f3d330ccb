------------------------------- MODULE OneShot --------------------------------
(***************************************************************************)
(* The backends of llmcli that start a process for a single call: claude   *)
(* -p and omp -p, whose output is frames, one of them the result, and the  *)
(* text backends (codex exec, opencode run), whose output is the answer.   *)
(* A goroutine parses the output and sends events, the last of which is    *)
(* terminal, to a channel that observeStream passes on to the caller.  A   *)
(* watcher ends the process when the context is done.                      *)
(***************************************************************************)
EXTENDS Naturals, Sequences

CONSTANTS
  Kinds,     \* of "claude", "omp", "text"
  MaxUnread, \* bound: frames in the pipe
  MaxFrames, \* bound: frames of a process
  Capacity   \* of the channels of events

VARIABLES
  kind,
  exit,      \* how the process ended: "none", "ok", "failed", "killed"
  frames,    \* frames written so far
  pipe,
  cancelled, \* the context is done
  watcher,   \* the goroutine that waits for that: "armed", "off"
  killer,    \* the goroutine that waits for the grace period to pass
  parser,    \* the goroutine of the stream
  ready,     \* omp has said that it is ready
  problem,   \* the error of the parser: "none", "context", "eof"
  reaped,    \* wait() has returned
  said,      \* the terminal event of terminalEmitter
  events,    \* the channel of the stream
  relayed,   \* the channel of observeStream
  caller,    \* it "reads", or has "left" as Collect does
  heard      \* the terminal event the caller got

shotVars == <<kind, exit, frames, pipe, cancelled, watcher, killer, parser, ready, problem, reaped,
              said, events, relayed, caller, heard>>

processVars == <<exit, frames, pipe, killer>>
callerVars == <<relayed, caller, heard>>

Init ==
  /\ kind \in Kinds
  /\ exit = "none" /\ frames = 0 /\ pipe = << >>
  /\ cancelled = FALSE
  /\ watcher = "armed" /\ killer = "off"
  /\ parser = "start" /\ ready = FALSE /\ problem = "none" /\ reaped = FALSE
  /\ said = "none"
  /\ events = << >> /\ relayed = << >>
  /\ caller = "reads" /\ heard = "none"

AtEOF == exit # "none" /\ pipe = << >>

Framed == kind \in {"claude", "omp"}

Goto(pc) == parser' = pc

Room == Len(events) < Capacity

(* emit: the event, or nothing if the context is done.                     *)
Emitted == Room /\ events' = Append(events, "event")

Discarded == cancelled /\ UNCHANGED events

-----------------------------------------------------------------------------
(* The start event, whose loss nobody looks at.                            *)
EmitStart ==
  /\ parser = "start"
  /\ Emitted \/ Discarded
  /\ Goto("parse")
  /\ UNCHANGED <<kind, processVars, cancelled, watcher, ready, problem, reaped, said, callerVars>>

(* What a parser of frames makes of them: omp is silent until it is ready. *)
Silent == kind = "omp" /\ ~ready

Skipped == IF Silent THEN {"ready", "delta", "result", "failure"} ELSE {"ready"}

Skip ==
  /\ parser = "parse" /\ Framed /\ pipe # << >> /\ Head(pipe) \in Skipped
  /\ pipe' = Tail(pipe)
  /\ ready' = (ready \/ Head(pipe) = "ready")
  /\ UNCHANGED <<kind, exit, frames, cancelled, watcher, killer, parser, problem, reaped, said,
                 events, callerVars>>

Content ==
  IF kind = "text" THEN {"ready", "delta", "result", "failure"}
  ELSE IF Silent THEN {} ELSE {"delta"}

EmitContent ==
  /\ parser = "parse" /\ pipe # << >> /\ Head(pipe) \in Content
  /\ pipe' = Tail(pipe)
  /\ Emitted
  /\ UNCHANGED <<kind, exit, frames, cancelled, watcher, killer, parser, ready, problem, reaped,
                 said, callerVars>>

(* A parser of frames stops at the first event it cannot hand over.        *)
ContentCancelled ==
  /\ parser = "parse" /\ pipe # << >> /\ Head(pipe) \in Content
  /\ pipe' = Tail(pipe)
  /\ Discarded
  /\ IF Framed THEN Goto("drain") /\ problem' = "context" ELSE UNCHANGED <<parser, problem>>
  /\ UNCHANGED <<kind, exit, frames, cancelled, watcher, killer, ready, reaped, said, callerVars>>

(* terminalEmitter: the first terminal event, to be sent whatever it takes. *)
Fire(event) == said' = event /\ Goto("fire")

(* handleClaudeResultFrame, ompOnDone and ompOnError.                      *)
Result ==
  /\ parser = "parse" /\ Framed /\ ~Silent
  /\ pipe # << >> /\ Head(pipe) \in {"result", "failure"}
  /\ pipe' = Tail(pipe)
  /\ Fire(IF Head(pipe) = "result" THEN "endTurn" ELSE "error")
  /\ UNCHANGED <<kind, exit, frames, cancelled, watcher, killer, ready, problem, reaped, events,
                 callerVars>>

(* The end of the output without a result counts as one for a stream that  *)
(* has begun, which is always the case of claude.                          *)
EndOfFrames ==
  /\ parser = "parse" /\ AtEOF /\ Framed
  /\ IF Silent THEN Goto("drain") /\ problem' = "eof" /\ UNCHANGED said
     ELSE Fire("endTurn") /\ UNCHANGED problem
  /\ UNCHANGED <<kind, processVars, cancelled, watcher, ready, reaped, events, callerVars>>

EndOfText ==
  /\ parser = "parse" /\ AtEOF /\ ~Framed
  /\ Goto("drain")
  /\ UNCHANGED <<kind, processVars, cancelled, watcher, ready, problem, reaped, said, events,
                 callerVars>>

(* The terminal event is in the channel, and the channel closed.           *)
SendTerminal ==
  /\ parser = "fire" /\ Room
  /\ events' = Append(events, said)
  /\ Goto(IF reaped THEN "done" ELSE "drain")
  /\ UNCHANGED <<kind, processVars, cancelled, watcher, ready, problem, reaped, said, callerVars>>

Drain ==
  /\ parser = "drain" /\ pipe # << >>
  /\ pipe' = Tail(pipe)
  /\ UNCHANGED <<kind, exit, frames, cancelled, watcher, killer, parser, ready, problem, reaped,
                 said, events, callerVars>>

(* wait(): the process is gone, which ends watcher and killer.             *)
Wait ==
  /\ parser = "drain" /\ AtEOF
  /\ reaped' = TRUE
  /\ watcher' = "off" /\ killer' = "off"
  /\ Goto("decide")
  /\ UNCHANGED <<kind, exit, frames, pipe, cancelled, ready, problem, said, events, callerVars>>

(* structuredStream after what the parsers of claude and omp return.       *)
OutcomeOfFrames ==
  IF problem = "eof" \/ exit # "ok" THEN "error" ELSE IF cancelled THEN "cancelled" ELSE "endTurn"

(* streamTextProcess, streamCodexJSONLProcess                              *)
OutcomeUnwaited == IF cancelled THEN "cancelled" ELSE "endTurn"

OutcomeOfText ==
  IF cancelled THEN "cancelled" ELSE IF exit # "ok" THEN "error" ELSE "endTurn"

Decide ==
  /\ parser = "decide"
  /\ IF said # "none" THEN Goto("done") /\ UNCHANGED said
     ELSE Fire(IF Framed THEN OutcomeOfFrames ELSE OutcomeOfText)
  /\ UNCHANGED <<kind, processVars, cancelled, watcher, ready, problem, reaped, events, callerVars>>

-----------------------------------------------------------------------------
(* The watcher: SIGTERM now, SIGKILL when the grace period is over.        *)
TerminateOnce ==
  /\ watcher = "armed" /\ cancelled
  /\ watcher' = "off"
  /\ UNCHANGED <<kind, exit, frames, pipe, killer, cancelled, parser, ready, problem, reaped, said,
                 events, callerVars>>

Terminate ==
  /\ watcher = "armed" /\ cancelled
  /\ watcher' = "off"
  /\ killer' = "armed"
  /\ UNCHANGED <<kind, exit, frames, pipe, cancelled, parser, ready, problem, reaped, said, events,
                 callerVars>>

ObeysSignal ==
  /\ watcher = "off" /\ exit = "none"
  /\ exit' = "killed"
  /\ UNCHANGED <<kind, frames, pipe, killer, cancelled, watcher, parser, ready, problem, reaped,
                 said, events, callerVars>>

Kill ==
  /\ killer = "armed"
  /\ killer' = "off"
  /\ exit' = IF exit = "none" THEN "killed" ELSE exit
  /\ UNCHANGED <<kind, frames, pipe, cancelled, watcher, parser, ready, problem, reaped, said,
                 events, callerVars>>

Cancel ==
  /\ ~cancelled /\ parser # "done"
  /\ cancelled' = TRUE
  /\ UNCHANGED <<kind, processVars, watcher, parser, ready, problem, reaped, said, events,
                 callerVars>>

ProcessWrites ==
  /\ exit = "none" /\ Len(pipe) < MaxUnread /\ frames < MaxFrames
  /\ frames' = frames + 1
  /\ \E f \in {"ready", "delta", "result", "failure"} : pipe' = Append(pipe, f)
  /\ UNCHANGED <<kind, exit, killer, cancelled, watcher, parser, ready, problem, reaped, said,
                 events, callerVars>>

ProcessExits ==
  /\ exit = "none"
  /\ exit' \in {"ok", "failed"}
  /\ UNCHANGED <<kind, frames, pipe, killer, cancelled, watcher, parser, ready, problem, reaped,
                 said, events, callerVars>>

-----------------------------------------------------------------------------
(* observeStream                                                           *)
Relay ==
  /\ events # << >> /\ Len(relayed) < Capacity
  /\ relayed' = Append(relayed, Head(events))
  /\ events' = Tail(events)
  /\ UNCHANGED <<kind, processVars, cancelled, watcher, parser, ready, problem, reaped, said,
                 caller, heard>>

Receive ==
  /\ caller = "reads" /\ relayed # << >>
  /\ relayed' = Tail(relayed)
  /\ heard' = IF Head(relayed) = "event" THEN heard ELSE Head(relayed)
  /\ UNCHANGED <<kind, processVars, cancelled, watcher, parser, ready, problem, reaped, said,
                 events, caller>>

(* Collect returns when the context is done and reads no further.          *)
Leave ==
  /\ caller = "reads" /\ cancelled
  /\ caller' = "left"
  /\ UNCHANGED <<kind, processVars, cancelled, watcher, parser, ready, problem, reaped, said,
                 events, relayed, heard>>

ParserStep ==
  \/ EmitStart \/ Skip \/ EmitContent \/ ContentCancelled \/ Result \/ EndOfFrames \/ EndOfText
  \/ SendTerminal \/ Drain \/ Wait \/ Decide

OtherStep == Terminate \/ Kill \/ Relay \/ Receive

Next ==
  \/ ParserStep \/ OtherStep
  \/ ObeysSignal \/ Cancel \/ ProcessWrites \/ ProcessExits \/ Leave

Spec ==
  /\ Init /\ [][Next]_shotVars
  /\ WF_shotVars(ParserStep)
  /\ WF_shotVars(Terminate) /\ WF_shotVars(Kill) /\ WF_shotVars(Relay) /\ WF_shotVars(Receive)

-----------------------------------------------------------------------------
TypeOK ==
  /\ exit \in {"none", "ok", "failed", "killed"}
  /\ parser \in {"start", "parse", "fire", "drain", "decide", "done"}
  /\ said \in {"none", "endTurn", "cancelled", "error"}
  /\ heard \in {"none", said}
  /\ Len(pipe) <= MaxUnread /\ Len(events) <= Capacity /\ Len(relayed) <= Capacity

(* The answer of a text backend that ends well is all a process has        *)
(* written that then exited without an error, and that was not cancelled.  *)
AnswersAreWhole ==
  kind = "text" /\ heard = "endTurn" => exit = "ok" /\ reaped /\ pipe = << >>

(* A call that is cancelled ends, its process with it, whatever the        *)
(* process makes of the signal, as long as its caller goes on reading.     *)
CancelledEnd ==
  cancelled ~> (parser = "done" /\ reaped) \/ caller = "left"

(* "observeStream always drains the channel, so this unblocks promptly"    *)
(* (events.go:56): the goroutine of a cancelled call comes to its end.     *)
AllEnd == cancelled ~> parser = "done"

(* "Cancelling ctx terminates the subprocess and closes the channel with a *)
(* StopCancelled done event" (claude.go:154, omp.go:76): the call whose    *)
(* process was ended by its cancellation does not end well.                *)
CancelledIsSaid == heard = "endTurn" => exit # "killed"
=============================================================================
