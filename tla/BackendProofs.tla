---------------------------- MODULE BackendProofs ----------------------------
(***************************************************************************)
(* What holds of the agent daemon and of the backends of llmcli in         *)
(* MCRuntime for any number of calls, turns, unread frames and faults: no  *)
(* call gets the answer to another, no process is lost that was started    *)
(* for one, and who is told an answer has come gets all of it.  The proofs *)
(* are about the parts, T, X, C, O, H and D, and the theorems about their  *)
(* sum, whose steps are steps of one part.  Types of all parts of          *)
(* MCRuntime are at the end.                                               *)
(***************************************************************************)
EXTENDS RuntimeProofs

(* One call of a one-shot backend.                                         *)

Lengths == MaxUnread \in Nat /\ Capacity \in Nat

Frames == {"ready", "delta", "result", "failure"}

Events == {"event", "endTurn", "cancelled", "error"}

ShotTypes ==
  /\ exit \in {"none", "ok", "failed", "killed"}
  /\ parser \in {"start", "parse", "fire", "drain", "decide", "done"}
  /\ said \in {"none", "endTurn", "cancelled", "error"}
  /\ pipe \in Seq(Frames) /\ Len(pipe) <= MaxUnread
  /\ events \in Seq(Events) /\ Len(events) <= Capacity
  /\ relayed \in Seq(Events) /\ Len(relayed) <= Capacity

(* The channels have no terminal event but the one that was fired, which   *)
(* happens once; of text only when the process has ended and was read out. *)
Fired ==
  /\ parser \in {"start", "parse"} => said = "none"
  /\ parser = "fire" => said # "none"
  /\ \A i \in 1 .. Len(events) : events[i] \in {"event", said}
  /\ \A i \in 1 .. Len(relayed) : relayed[i] \in {"event", said}
  /\ heard \in {"none", said}

ReadOut ==
  /\ parser = "decide" => reaped
  /\ reaped => exit # "none" /\ pipe = <<>>
  /\ kind = "text" /\ said = "endTurn" => exit = "ok" /\ reaped

ShotInv == ShotTypes /\ Fired /\ ReadOut

(* What reading and writing a channel does to what is in it.               *)
LEMMA Channels ==
  ASSUME NEW W, NEW s \in Seq(W)
  PROVE  /\ \A x \in W : /\ Append(s, x) \in Seq(W) /\ Len(Append(s, x)) = Len(s) + 1
                         /\ \A i \in 1 .. Len(s) + 1 : Append(s, x)[i] = x \/
                              \E j \in 1 .. Len(s) : Append(s, x)[i] = s[j]
         /\ s # <<>> => /\ Head(s) \in W /\ Tail(s) \in Seq(W) /\ Len(Tail(s)) = Len(s) - 1
                        /\ \E j \in 1 .. Len(s) : Head(s) = s[j]
                        /\ \A i \in 1 .. Len(Tail(s)) : \E j \in 1 .. Len(s) : Tail(s)[i] = s[j]
         /\ Len(s) \in Nat
<1>1. ASSUME NEW x \in W, NEW i \in 1 .. Len(s) + 1
      PROVE  Append(s, x)[i] = x \/ \E j \in 1 .. Len(s) : Append(s, x)[i] = s[j]
  <2>1. CASE i = Len(s) + 1 BY <2>1
  <2>2. CASE i \in 1 .. Len(s) BY <2>2
  <2> QED BY <2>1, <2>2
<1>2. ASSUME s # <<>>
      PROVE  /\ \E j \in 1 .. Len(s) : Head(s) = s[j]
             /\ \A i \in 1 .. Len(Tail(s)) : \E j \in 1 .. Len(s) : Tail(s)[i] = s[j]
  <2>1. 1 \in 1 .. Len(s) /\ Head(s) = s[1] BY <1>2
  <2>2. ASSUME NEW i \in 1 .. Len(Tail(s)) PROVE i + 1 \in 1 .. Len(s) /\ Tail(s)[i] = s[i + 1]
    BY <1>2
  <2> QED BY <2>1, <2>2
<1>3. ASSUME s # <<>> PROVE Head(s) \in W /\ Tail(s) \in Seq(W) /\ Len(Tail(s)) = Len(s) - 1
  BY <1>3
<1> QED BY <1>1, <1>2, <1>3

(* A call starts with empty channels and nothing said.                     *)
LEMMA ShotInit ==
  ASSUME Lengths, T!Init
  PROVE  ShotInv
<1>1. <<>> \in Seq(Frames) /\ <<>> \in Seq(Events) /\ Len(<<>>) = 0 OBVIOUS
<1> QED BY <1>1 DEF T!Init, ShotInv, ShotTypes, Fired, ReadOut, Lengths

(* The parser before it has said anything.                                 *)
LEMMA ParsingInv ==
  ASSUME Lengths, ShotInv, T!EmitStart \/ T!Skip \/ T!EmitContent \/ T!ContentCancelled
  PROVE  ShotInv'
<1> USE DEF ShotInv
<1>1. /\ parser \in {"start", "parse"} /\ parser' \in {"parse", "drain"} /\ said = "none"
      /\ UNCHANGED <<kind, exit, reaped, said, T!callerVars>>
  BY DEF T!EmitStart, T!Skip, T!EmitContent, T!ContentCancelled, T!Goto, Fired, T!processVars
<1>2. /\ pipe' \in Seq(Frames) /\ Len(pipe') <= MaxUnread
      /\ pipe' # pipe => pipe # <<>>
  <2>1. pipe' = pipe \/ (pipe # <<>> /\ pipe' = Tail(pipe))
    BY DEF T!EmitStart, T!Skip, T!EmitContent, T!ContentCancelled, T!processVars
  <2>2. pipe \in Seq(Frames) /\ Len(pipe) \in Nat /\ Len(pipe) <= MaxUnread /\ MaxUnread \in Nat
    BY DEF ShotTypes, Lengths
  <2>3. CASE pipe # <<>> /\ pipe' = Tail(pipe)
    <3>1. pipe' \in Seq(Frames) /\ Len(pipe') = Len(pipe) - 1 BY <2>2, <2>3, Channels
    <3>2. \A a, b \in Nat : a <= b => a - 1 <= b OBVIOUS
    <3> QED BY <2>2, <2>3, <3>1, <3>2, Zenon
  <2> QED BY <2>1, <2>2, <2>3
<1>3. /\ events' \in Seq(Events) /\ Len(events') <= Capacity
      /\ \A i \in 1 .. Len(events') : events'[i] \in {"event", said}
  <2>1. events' = events \/ (Len(events) < Capacity /\ events' = Append(events, "event"))
    BY DEF T!EmitStart, T!Skip, T!EmitContent, T!ContentCancelled, T!Emitted, T!Discarded, T!Room
  <2>2. CASE events' = events BY <2>2 DEF ShotTypes, Fired
  <2>3. CASE Len(events) < Capacity /\ events' = Append(events, "event")
    <3>1. "event" \in Events BY DEF Events
    <3> QED BY <2>3, <3>1, Channels DEF ShotTypes, Fired, Lengths
  <2> QED BY <2>1, <2>2, <2>3
<1>4. ShotTypes' BY <1>1, <1>2, <1>3 DEF ShotTypes, T!callerVars
<1>5. Fired' BY <1>1, <1>3 DEF Fired, T!callerVars
<1>6. ReadOut' BY <1>1, <1>2 DEF ReadOut
<1> QED BY <1>4, <1>5, <1>6

(* The parser says how the call has ended, and sends it.                   *)
LEMMA SayingInv ==
  ASSUME Lengths, ShotInv, T!Result \/ T!EndOfFrames \/ T!EndOfText \/ T!Decide
  PROVE  ShotInv'
<1> USE DEF ShotInv
<1>1. /\ UNCHANGED <<kind, exit, reaped, events, relayed, heard>>
      /\ parser \in {"parse", "decide"} /\ parser' \in {"fire", "drain", "done"}
  BY DEF T!Result, T!EndOfFrames, T!EndOfText, T!Decide, T!Goto, T!Fire, T!processVars, T!callerVars
<1>2. /\ pipe' \in Seq(Frames) /\ Len(pipe') <= MaxUnread
      /\ pipe' # pipe => pipe # <<>>
  <2>1. pipe' = pipe \/ (pipe # <<>> /\ pipe' = Tail(pipe))
    BY DEF T!Result, T!EndOfFrames, T!EndOfText, T!Decide, T!processVars
  <2>2. pipe \in Seq(Frames) /\ Len(pipe) \in Nat /\ Len(pipe) <= MaxUnread /\ MaxUnread \in Nat
    BY DEF ShotTypes, Lengths
  <2>3. CASE pipe # <<>> /\ pipe' = Tail(pipe)
    <3>1. pipe' \in Seq(Frames) /\ Len(pipe') = Len(pipe) - 1 BY <2>2, <2>3, Channels
    <3>2. \A a, b \in Nat : a <= b => a - 1 <= b OBVIOUS
    <3> QED BY <2>2, <2>3, <3>1, <3>2, Zenon
  <2> QED BY <2>1, <2>2, <2>3
<1>3. /\ said' \in {"none", "endTurn", "cancelled", "error"}
      /\ said' # said => said = "none"
      /\ parser' = "fire" => said' # "none"
      /\ kind = "text" /\ said' = "endTurn" => exit = "ok" /\ reaped
  <2>1. CASE T!Result BY <2>1 DEF T!Result, T!Fire, T!Goto, Fired, T!Framed, ReadOut
  <2>2. CASE T!EndOfFrames BY <2>2 DEF T!EndOfFrames, T!Fire, T!Goto, Fired, T!Framed, ReadOut
  <2>3. CASE T!EndOfText BY <2>3 DEF T!EndOfText, T!Goto, Fired, ReadOut, ShotTypes
  <2>4. CASE T!Decide
    <3>1. CASE said # "none" BY <2>4, <3>1 DEF T!Decide, T!Goto, ShotTypes, ReadOut
    <3>2. CASE said = "none"
      <4>1. said' = IF T!Framed THEN T!OutcomeOfFrames ELSE T!OutcomeOfText
        BY <2>4, <3>2 DEF T!Decide, T!Fire
      <4>2. said' \in {"endTurn", "cancelled", "error"}
        BY <4>1 DEF T!OutcomeOfFrames, T!OutcomeOfText
      <4>3. kind = "text" /\ said' = "endTurn" => exit = "ok"
        BY <4>1 DEF T!Framed, T!OutcomeOfText
      <4> QED BY <2>4, <3>2, <4>2, <4>3 DEF T!Decide, ReadOut
    <3> QED BY <3>1, <3>2
  <2> QED BY <2>1, <2>2, <2>3, <2>4
<1>4. ShotTypes' BY <1>1, <1>2, <1>3 DEF ShotTypes
<1>5. Fired'
  <2>1. CASE said' = said BY <1>1, <1>3, <2>1 DEF Fired
  <2>2. CASE said' # said
    <3>1. said = "none" BY <1>3, <2>2
    <3>2. /\ \A i \in 1 .. Len(events) : events[i] \in {"event", said'}
          /\ \A i \in 1 .. Len(relayed) : relayed[i] \in {"event", said'}
      <4>1. "none" \notin Events BY DEF Events
      <4> QED BY <3>1, <4>1 DEF Fired, ShotTypes
    <3> QED BY <1>1, <1>3, <3>1, <3>2 DEF Fired
  <2> QED BY <2>1, <2>2
<1>6. ReadOut' BY <1>1, <1>2, <1>3 DEF ReadOut
<1> QED BY <1>4, <1>5, <1>6

(* The terminal event is the one fired, and only after the process ended.  *)
LEMMA SendingInv ==
  ASSUME Lengths, ShotInv, T!SendTerminal \/ T!Drain \/ T!Wait
  PROVE  ShotInv'
<1> USE DEF ShotInv
<1>1. CASE T!SendTerminal
  <2>1. /\ said \in Events /\ Len(events) < Capacity /\ events' = Append(events, said)
        /\ parser' \in {"drain", "done"} /\ UNCHANGED <<kind, exit, pipe, reaped, said, relayed, heard>>
    BY <1>1 DEF T!SendTerminal, T!Room, T!Goto, T!processVars, T!callerVars, Fired, ShotTypes,
      Events
  <2>2. /\ events' \in Seq(Events) /\ Len(events') <= Capacity
        /\ \A i \in 1 .. Len(events') : events'[i] \in {"event", said}
    BY <2>1, Channels DEF ShotTypes, Fired, Lengths
  <2>3. ShotTypes' BY <2>1, <2>2 DEF ShotTypes
  <2>4. Fired' BY <2>1, <2>2 DEF Fired
  <2>5. ReadOut' BY <2>1 DEF ReadOut
  <2> QED BY <2>3, <2>4, <2>5
<1>2. CASE T!Drain
  <2>1. pipe' \in Seq(Frames) /\ Len(pipe') <= MaxUnread
    BY <1>2, Channels DEF T!Drain, ShotTypes, Lengths
  <2>2. ShotTypes' BY <1>2, <2>1 DEF T!Drain, ShotTypes, T!callerVars
  <2>3. Fired' BY <1>2 DEF T!Drain, Fired, T!callerVars
  <2>4. ReadOut' BY <1>2 DEF T!Drain, ReadOut
  <2> QED BY <2>2, <2>3, <2>4
<1>3. CASE T!Wait
  <2>1. ShotTypes' BY <1>3 DEF T!Wait, ShotTypes, T!callerVars, T!Goto
  <2>2. Fired' BY <1>3 DEF T!Wait, Fired, T!callerVars, T!Goto
  <2>3. ReadOut' BY <1>3 DEF T!Wait, ReadOut, T!Goto, T!AtEOF
  <2> QED BY <2>1, <2>2, <2>3
<1> QED BY <1>1, <1>2, <1>3

(* The process and its end.                                                *)
LEMMA ProcessInv ==
  ASSUME Lengths, ShotInv,
         T!Terminate \/ T!ObeysSignal \/ T!Kill \/ T!Cancel \/ T!ProcessWrites \/ T!ProcessExits
  PROVE  ShotInv'
<1> USE DEF ShotInv
<1>1. UNCHANGED <<kind, parser, reaped, said, events, relayed, heard>>
  BY DEF T!Terminate, T!ObeysSignal, T!Kill, T!Cancel, T!ProcessWrites, T!ProcessExits,
    T!callerVars, T!processVars
<1>2. /\ exit' \in {"none", "ok", "failed", "killed"}
      /\ exit # "none" => exit' = exit
  BY DEF T!Terminate, T!ObeysSignal, T!Kill, T!Cancel, T!ProcessWrites, T!ProcessExits,
    T!processVars, ShotTypes
<1>3. /\ pipe' \in Seq(Frames) /\ Len(pipe') <= MaxUnread
      /\ exit # "none" => pipe' = pipe
  <2>1. CASE T!ProcessWrites
    <3>1. PICK f \in Frames : pipe' = Append(pipe, f) BY <2>1 DEF T!ProcessWrites, Frames
    <3>2. Len(pipe) < MaxUnread /\ exit = "none" BY <2>1 DEF T!ProcessWrites
    <3> QED BY <3>1, <3>2, Channels DEF ShotTypes, Lengths
  <2>2. CASE ~T!ProcessWrites
    BY <2>2 DEF T!Terminate, T!ObeysSignal, T!Kill, T!Cancel, T!ProcessExits, T!processVars,
      ShotTypes
  <2> QED BY <2>1, <2>2
<1>4. ShotTypes' BY <1>1, <1>2, <1>3 DEF ShotTypes
<1>5. Fired' BY <1>1 DEF Fired
<1>6. ReadOut' BY <1>1, <1>2, <1>3 DEF ReadOut
<1> QED BY <1>4, <1>5, <1>6

(* What is passed on was in the channel, so it is the event or the end.    *)
LEMMA CallerInv ==
  ASSUME Lengths, ShotInv, T!Relay \/ T!Receive \/ T!Leave
  PROVE  ShotInv'
<1> USE DEF ShotInv
<1>1. UNCHANGED <<kind, exit, pipe, parser, reaped, said>>
  BY DEF T!Relay, T!Receive, T!Leave, T!processVars
<1>2. CASE T!Relay
  <2>1. /\ events # <<>> /\ Len(relayed) < Capacity /\ heard' = heard
        /\ relayed' = Append(relayed, Head(events)) /\ events' = Tail(events)
    BY <1>2 DEF T!Relay
  <2>2. /\ Head(events) \in Events /\ Head(events) \in {"event", said}
        /\ events' \in Seq(Events) /\ Len(events') <= Capacity
        /\ \A i \in 1 .. Len(events') : events'[i] \in {"event", said}
    BY <2>1, Channels DEF ShotTypes, Fired, Lengths
  <2>3. /\ relayed' \in Seq(Events) /\ Len(relayed') <= Capacity
        /\ \A i \in 1 .. Len(relayed') : relayed'[i] \in {"event", said}
    BY <2>1, <2>2, Channels DEF ShotTypes, Fired, Lengths
  <2>4. ShotTypes' BY <1>1, <2>2, <2>3 DEF ShotTypes
  <2>5. Fired' BY <1>1, <2>1, <2>2, <2>3 DEF Fired
  <2>6. ReadOut' BY <1>1 DEF ReadOut
  <2> QED BY <2>4, <2>5, <2>6
<1>3. CASE T!Receive
  <2>1. /\ relayed # <<>> /\ events' = events /\ relayed' = Tail(relayed)
        /\ heard' = IF Head(relayed) = "event" THEN heard ELSE Head(relayed)
    BY <1>3 DEF T!Receive
  <2>2. /\ Head(relayed) \in {"event", said}
        /\ relayed' \in Seq(Events) /\ Len(relayed') <= Capacity
        /\ \A i \in 1 .. Len(relayed') : relayed'[i] \in {"event", said}
    BY <2>1, Channels DEF ShotTypes, Fired, Lengths
  <2>3. heard' \in {"none", said} BY <2>1, <2>2 DEF Fired
  <2>4. ShotTypes' BY <1>1, <2>1, <2>2 DEF ShotTypes
  <2>5. Fired' BY <1>1, <2>1, <2>2, <2>3 DEF Fired
  <2>6. ReadOut' BY <1>1 DEF ReadOut
  <2> QED BY <2>4, <2>5, <2>6
<1>4. CASE T!Leave BY <1>1, <1>4 DEF T!Leave, ShotTypes, Fired, ReadOut
<1> QED BY <1>2, <1>3, <1>4

(* No step of a one-shot call disturbs ShotInv.                            *)
LEMMA ShotNext ==
  ASSUME Lengths, ShotInv, [T!Next]_(T!shotVars)
  PROVE  ShotInv'
<1>1. CASE UNCHANGED T!shotVars
  BY <1>1 DEF T!shotVars, ShotInv, ShotTypes, Fired, ReadOut
<1>2. CASE T!Next
  BY <1>2, ParsingInv, SayingInv, SendingInv, ProcessInv, CallerInv
  DEF T!Next, T!ParserStep, T!OtherStep
<1> QED BY <1>1, <1>2

(* ShotInv says what AnswersAreWhole asks.                                 *)
LEMMA Whole ==
  ASSUME ShotInv
  PROVE  T!AnswersAreWhole
BY DEF ShotInv, Fired, ReadOut, T!AnswersAreWhole

(* A caller of a one-shot backend that is told an answer has come gets all *)
(* of it, however many frames there are and wherever the context is done.  *)
THEOREM AnswersGetThrough ==
  ASSUME Lengths
  PROVE  Spec => []AnswersAreWhole
<1> DEFINE I == part = "oneshot" => ShotInv
<1>1. Init => I BY PartInit, ShotInit
<1>2. I /\ [Next]_runtimeVars => I' BY PartStep, ShotNext
<1>3. I => AnswersAreWhole BY Whole DEF AnswersAreWhole
<1> QED BY <1>1, <1>2, <1>3, PTL DEF Spec

-----------------------------------------------------------------------------
(* What is on its way between a persistent backend and its process: the    *)
(* frames of the output and the requests of the input, of members of W.    *)
(* Each request is there once, and ends with its final frame.              *)
FrameKinds == {"delta", "final", "bad"}

FramesOf(W) == [kind : FrameKinds, of : W]

Wire(W, out, todo) ==
  /\ out \in Seq(FramesOf(W)) /\ todo \in Seq(W)
  /\ \A i, j \in 1 .. Len(todo) : todo[i] = todo[j] => i = j
  /\ \A i \in 1 .. Len(out) : out[i].kind = "final" =>
       /\ \A j \in 1 .. Len(out) : i < j => out[j].of # out[i].of
       /\ \A j \in 1 .. Len(todo) : todo[j] # out[i].of

(* Whose frames and requests they are.                                     *)
Whose(out, todo) == {out[i].of : i \in 1 .. Len(out)} \cup {todo[i] : i \in 1 .. Len(todo)}

(* An empty wire carries nothing; dropped requests leave the frames as is. *)
LEMMA WireEmpty ==
  ASSUME NEW W
  PROVE  /\ Wire(W, <<>>, <<>>) /\ Whose(<<>>, <<>>) = {}
         /\ \A out, todo : Wire(W, out, todo) =>
              Wire(W, out, <<>>) /\ Whose(out, <<>>) \subseteq Whose(out, todo)
<1>1. <<>> \in Seq(FramesOf(W)) /\ <<>> \in Seq(W) /\ Len(<<>>) = 0 OBVIOUS
<1> QED BY <1>1 DEF Wire, Whose

(* Only callers have something on the wire.                                *)
LEMMA WireWhose ==
  ASSUME NEW W, NEW out, NEW todo, Wire(W, out, todo)
  PROVE  Whose(out, todo) \subseteq W
<1>1. \A i \in 1 .. Len(out) : out[i].of \in W
  <2>1. \A i \in 1 .. Len(out) : out[i] \in FramesOf(W) BY DEF Wire
  <2> QED BY <2>1 DEF FramesOf
<1>2. \A i \in 1 .. Len(todo) : todo[i] \in W BY DEF Wire
<1> QED BY <1>1, <1>2 DEF Whose

(* A request of someone who has nothing on the wire may join it.           *)
LEMMA WireAsked ==
  ASSUME NEW W, NEW out, NEW todo, Wire(W, out, todo), NEW c \in W, c \notin Whose(out, todo)
  PROVE  /\ Wire(W, out, Append(todo, c))
         /\ Whose(out, Append(todo, c)) \subseteq Whose(out, todo) \cup {c}
<1>1. /\ Append(todo, c) \in Seq(W) /\ Len(Append(todo, c)) = Len(todo) + 1 /\ Len(todo) \in Nat
      /\ Append(todo, c)[Len(todo) + 1] = c
      /\ \A i \in 1 .. Len(todo) : Append(todo, c)[i] = todo[i]
  BY DEF Wire
<1>2. /\ \A i \in 1 .. Len(todo) : todo[i] # c
      /\ \A i \in 1 .. Len(out) : out[i].of # c
  BY DEF Whose
<1>3. \A i, j \in 1 .. Len(todo) + 1 : Append(todo, c)[i] = Append(todo, c)[j] => i = j
  BY <1>1, <1>2 DEF Wire
<1>4. \A i \in 1 .. Len(out), j \in 1 .. Len(todo) + 1 :
        out[i].kind = "final" => Append(todo, c)[j] # out[i].of
  <2>1. \A j \in 1 .. Len(todo) + 1 : j \in 1 .. Len(todo) \/ j = Len(todo) + 1 BY <1>1
  <2> QED BY <1>1, <1>2, <2>1 DEF Wire
<1>5. Whose(out, Append(todo, c)) \subseteq Whose(out, todo) \cup {c}
  BY <1>1 DEF Whose
<1> QED BY <1>1, <1>3, <1>4, <1>5 DEF Wire

(* Reading a frame leaves a wire; the final frame was the last of its      *)
(* owner.                                                                  *)
LEMMA WireTaken ==
  ASSUME NEW W, NEW out, NEW todo, Wire(W, out, todo), out # <<>>
  PROVE  /\ Wire(W, Tail(out), todo)
         /\ Whose(Tail(out), todo) \subseteq Whose(out, todo)
         /\ Head(out) \in FramesOf(W) /\ Head(out).of \in Whose(out, todo)
         /\ Head(out).kind = "final" => Head(out).of \notin Whose(Tail(out), todo)
<1>1. /\ Tail(out) \in Seq(FramesOf(W)) /\ Len(Tail(out)) = Len(out) - 1 /\ Len(out) \in Nat
      /\ 1 \in 1 .. Len(out) /\ Head(out) = out[1] /\ Head(out) \in FramesOf(W)
      /\ \A i \in 1 .. Len(out) - 1 : Tail(out)[i] = out[i + 1] /\ i + 1 \in 1 .. Len(out) /\ 1 < i + 1
      /\ \A i, j \in 1 .. Len(out) - 1 : i < j => i + 1 < j + 1
  BY DEF Wire
<1>2. Wire(W, Tail(out), todo)
  BY <1>1 DEF Wire
<1>3. Whose(Tail(out), todo) \subseteq Whose(out, todo) /\ Head(out).of \in Whose(out, todo)
  BY <1>1 DEF Whose
<1>4. Head(out).kind = "final" => Head(out).of \notin Whose(Tail(out), todo)
  BY <1>1 DEF Wire, Whose
<1> QED BY <1>1, <1>2, <1>3, <1>4

(* A process answers the first request that waits, and is done with it at  *)
(* the final frame.                                                        *)
LEMMA WireSaid ==
  ASSUME NEW W, NEW out, NEW todo, Wire(W, out, todo), todo # <<>>, NEW sort \in FrameKinds
  PROVE  LET new == Append(out, [kind |-> sort, of |-> Head(todo)])
             rest == IF sort = "final" THEN Tail(todo) ELSE todo
         IN  Wire(W, new, rest) /\ Whose(new, rest) \subseteq Whose(out, todo)
<1> DEFINE f == [kind |-> sort, of |-> Head(todo)]
           new == Append(out, f)
           rest == IF sort = "final" THEN Tail(todo) ELSE todo
<1>1. /\ 1 \in 1 .. Len(todo) /\ Head(todo) = todo[1] /\ Head(todo) \in W /\ Len(todo) \in Nat
      /\ Tail(todo) \in Seq(W) /\ Len(Tail(todo)) = Len(todo) - 1
      /\ \A i \in 1 .. Len(todo) - 1 : Tail(todo)[i] = todo[i + 1] /\ i + 1 \in 1 .. Len(todo) /\ i + 1 # 1
      /\ \A i, j \in 1 .. Len(todo) - 1 : i + 1 = j + 1 => i = j
  BY DEF Wire
<1>2. /\ f \in FramesOf(W) /\ f.kind = sort /\ f.of = Head(todo)
  BY <1>1 DEF FramesOf
<1> HIDE DEF f
<1>3. /\ new \in Seq(FramesOf(W)) /\ Len(new) = Len(out) + 1 /\ Len(out) \in Nat
      /\ new[Len(out) + 1] = f
      /\ \A i \in 1 .. Len(out) : new[i] = out[i]
      /\ \A i \in 1 .. Len(out) + 1 : i \in 1 .. Len(out) \/ i = Len(out) + 1
      /\ \A i, j \in 1 .. Len(out) + 1 : i < j => i \in 1 .. Len(out)
  BY <1>2 DEF Wire
<1> HIDE DEF new
<1>4. /\ rest \in Seq(W)
      /\ \A i \in 1 .. Len(rest) : \E j \in 1 .. Len(todo) : rest[i] = todo[j]
      /\ \A i, j \in 1 .. Len(rest) : rest[i] = rest[j] => i = j
      /\ sort = "final" => \A i \in 1 .. Len(rest) : rest[i] # Head(todo)
  <2>1. CASE sort = "final"
    <3>1. rest = Tail(todo) BY <2>1
    <3>2. \A i \in 1 .. Len(todo) - 1 : todo[i + 1] # todo[1] BY <1>1 DEF Wire
    <3>3. \A i, j \in 1 .. Len(todo) - 1 : todo[i + 1] = todo[j + 1] => i = j BY <1>1 DEF Wire
    <3> HIDE DEF rest
    <3> QED BY <1>1, <3>1, <3>2, <3>3
  <2>2. CASE sort # "final" BY <2>2 DEF Wire
  <2> QED BY <2>1, <2>2
<1> HIDE DEF rest
<1>5. ASSUME NEW i \in 1 .. Len(new), new[i].kind = "final"
      PROVE  /\ \A j \in 1 .. Len(new) : i < j => new[j].of # new[i].of
             /\ \A j \in 1 .. Len(rest) : rest[j] # new[i].of
  <2>1. CASE i = Len(out) + 1
    <3>1. sort = "final" /\ new[i].of = Head(todo) BY <1>2, <1>3, <1>5, <2>1
    <3>2. \A j \in 1 .. Len(new) : ~(i < j) BY <1>3, <2>1
    <3> QED BY <1>4, <3>1, <3>2
  <2>2. CASE i \in 1 .. Len(out)
    <3>1. new[i] = out[i] /\ out[i].kind = "final" BY <1>3, <1>5, <2>2
    <3>2. /\ \A j \in 1 .. Len(out) : i < j => out[j].of # out[i].of
          /\ \A j \in 1 .. Len(todo) : todo[j] # out[i].of
      BY <2>2, <3>1 DEF Wire
    <3>3. \A j \in 1 .. Len(new) : i < j => new[j].of # new[i].of
      BY <1>1, <1>2, <1>3, <3>1, <3>2
    <3> QED BY <1>4, <3>1, <3>2, <3>3
  <2> QED BY <1>3, <2>1, <2>2
<1>6. Wire(W, new, rest) BY <1>3, <1>4, <1>5 DEF Wire
<1>7. Whose(new, rest) \subseteq Whose(out, todo)
  <2>1. \A i \in 1 .. Len(new) : new[i].of \in Whose(out, todo)
    BY <1>1, <1>2, <1>3 DEF Whose
  <2>2. \A i \in 1 .. Len(rest) : rest[i] \in Whose(out, todo) BY <1>4 DEF Whose
  <2> QED BY <2>1, <2>2 DEF Whose
<1> QED BY <1>6, <1>7 DEF new, f, rest

-----------------------------------------------------------------------------
(* The Codex backend.                                                      *)

TurnBounds == MaxTurns \in Nat /\ MaxUnread \in Nat /\ MaxFaults \in Nat

CodexTurnPCs == {"idle", "wait", "ensure", "handshake", "send", "read", "line", "release", "done"}

CodexTurnCalls ==
  [pc : CodexTurnPCs, gen : Nat, cancelled : BOOLEAN, fed : SUBSET X!Turns,
   end : {"none", "endTurn", "cancelled", "error"}]

CodexTurnProcs ==
  [up : BOOLEAN, killed : BOOLEAN, todo : Seq(X!Turns), out : Seq(FramesOf(X!Turns))]

CodexTypes ==
  /\ call \in [X!Turns -> CodexTurnCalls]
  /\ procs \in Seq(CodexTurnProcs)
  /\ token \in BOOLEAN /\ closed \in BOOLEAN
  /\ watch \in [X!Turns -> {"none", "new", "parked", "due", "off"}]
  /\ cur \in 0 .. Len(procs)
  /\ faults \in 0 .. MaxFaults
  /\ \A t \in X!Turns : call[t].gen <= Len(procs)

CodexHolding(t) == call[t].pc \notin {"idle", "wait", "done"}

CodexReads(t, g) == call[t].pc \in {"read", "line"} /\ call[t].gen = g

CodexHasAsked(t) == call[t].pc \in {"read", "line", "release", "done"}

(* A turn that may have left frames behind.                                *)
CodexAstray(t) == call[t].cancelled \/ X!Misled(t)

(* The turn lock is held by one turn.                                      *)
CodexTokenOK ==
  /\ token => \A t \in X!Turns : ~CodexHolding(t)
  /\ ~token => \E t \in X!Turns : CodexHolding(t)
  /\ \A t, u \in X!Turns : CodexHolding(t) /\ CodexHolding(u) => t = u

(* A process that is gone has no requests.                                 *)
CodexPeerOK(p) ==
  /\ p \in CodexTurnProcs /\ Wire(X!Turns, p.out, p.todo)
  /\ Len(p.out) <= MaxUnread
  /\ p.killed => ~p.up
  /\ ~p.up => p.todo = <<>>

(* A process is the one the backend holds or was ended by it.              *)
CodexProcOK(g) == CodexPeerOK(procs[g]) /\ (procs[g].killed \/ g = cur)

CodexOf(p) == Whose(p.out, p.todo)

CodexLeft(g) == CodexOf(procs[g])

(* Nobody reads from a process that was ended, ever again.                 *)
CodexDead(g) == procs[g].killed /\ \A t \in X!Turns : ~CodexReads(t, g)

(* What else is on its way belongs to the turn that reads, or to one that  *)
(* went astray.                                                            *)
CodexClean(g) == \A t \in CodexLeft(g) : CodexAstray(t) \/ CodexReads(t, g)

CodexTurnOK(t) ==
  /\ call[t].pc \in {"handshake", "send", "read", "line"} => call[t].gen \in 1 .. Len(procs)
  /\ \A d \in call[t].fed \ {t} : CodexAstray(d)

CodexOrigin == (\E t \in X!Turns : X!Misled(t)) => \E t \in X!Turns : call[t].cancelled

CodexInv ==
  /\ CodexTypes /\ CodexTokenOK /\ CodexOrigin
  /\ \A t \in X!Turns : CodexTurnOK(t)
  /\ \A g \in 1 .. Len(procs) :
       /\ CodexProcOK(g)
       /\ CodexDead(g) \/ CodexClean(g)
       /\ \A t \in CodexLeft(g) : CodexHasAsked(t)

-----------------------------------------------------------------------------
(* Without turns and processes CodexInv holds.                             *)
LEMMA CodexInit ==
  ASSUME TurnBounds, X!Init
  PROVE  CodexInv
<1>1. procs = <<>> /\ Len(procs) = 0 /\ procs \in Seq(CodexTurnProcs) BY DEF X!Init
<1>2. \A t \in X!Turns : call[t] = X!Idle BY DEF X!Init
<1>3. X!Idle \in CodexTurnCalls BY DEF X!Idle, CodexTurnCalls, CodexTurnPCs
<1>4. CodexTypes
  <2>1. call \in [X!Turns -> CodexTurnCalls] BY <1>2, <1>3 DEF X!Init
  <2>2. \A t \in X!Turns : call[t].gen = 0 BY <1>2 DEF X!Idle
  <2>3. cur \in 0 .. Len(procs) /\ faults \in 0 .. MaxFaults BY <1>1 DEF X!Init, TurnBounds
  <2>4. \A t \in X!Turns : call[t].gen <= Len(procs) BY <1>1, <2>2
  <2>5. watch \in [X!Turns -> {"none", "new", "parked", "due", "off"}] BY DEF X!Init
  <2> QED BY <1>1, <2>1, <2>3, <2>4, <2>5 DEF X!Init, CodexTypes
<1>5. CodexTokenOK /\ CodexOrigin /\ \A t \in X!Turns : CodexTurnOK(t)
  BY <1>2 DEF X!Init, CodexTokenOK, CodexOrigin, CodexTurnOK, CodexHolding, X!Misled, X!Idle
<1> QED BY <1>1, <1>4, <1>5 DEF CodexInv

(* The step of a turn t, or of none of the turns.                          *)
LEMMA CodexStep ==
  ASSUME CodexInv, CodexTypes', CodexTokenOK', NEW t,
         \A u \in X!Turns \ {t} : call'[u] = call[u],
         t \in X!Turns =>
           /\ call[t].cancelled => call'[t].cancelled
           /\ call[t].fed \subseteq call'[t].fed
           /\ \A d \in call'[t].fed \ {t} : d \in call[t].fed \/ CodexAstray(d)
           /\ CodexHasAsked(t) => CodexHasAsked(t)'
           /\ call'[t].pc \in {"handshake", "send", "read", "line"} => call'[t].gen \in 1 .. Len(procs'),
         Len(procs') >= Len(procs),
         \A g \in 1 .. Len(procs') :
           /\ CodexProcOK(g)'
           /\ \/ CodexLeft(g)' = {}
              \/ /\ g \in 1 .. Len(procs)
                 /\ CodexLeft(g)' \subseteq CodexLeft(g) \cup {t}
                 /\ t \in CodexLeft(g)' => CodexHasAsked(t)'
                 /\ \/ CodexDead(g)'
                    \/ ~CodexDead(g) /\ (t \in CodexLeft(g)' => CodexAstray(t)' \/ CodexReads(t, g)')
  PROVE  CodexInv'
<1>1. /\ CodexTypes /\ CodexOrigin /\ \A u \in X!Turns : CodexTurnOK(u)
      /\ Len(procs) \in Nat /\ Len(procs') \in Nat
  BY DEF CodexInv, CodexTypes
<1>2. \A u \in X!Turns : X!Misled(u) => X!Misled(u)'
  BY DEF X!Misled
<1>3. \A u \in X!Turns : CodexAstray(u) => CodexAstray(u)'
  BY <1>2 DEF CodexAstray
<1>4. ASSUME NEW u \in X!Turns PROVE CodexTurnOK(u)'
  <2>1. call'[u].pc \in {"handshake", "send", "read", "line"} => call'[u].gen \in 1 .. Len(procs')
    <3>1. CASE u = t BY <3>1
    <3>2. CASE u # t
      <4>1. call[u].gen \in Nat BY <1>1 DEF CodexTypes, CodexTurnCalls
      <4> QED BY <1>1, <3>2, <4>1 DEF CodexTurnOK
    <3> QED BY <3>1, <3>2
  <2>2. call[u].fed \subseteq X!Turns /\ call'[u].fed \subseteq X!Turns
    BY <1>1 DEF CodexTypes, CodexTurnCalls
  <2>3. \A d \in call'[u].fed \ {u} : CodexAstray(d)
    BY <1>1 DEF CodexTurnOK
  <2> QED BY <1>3, <2>1, <2>2, <2>3 DEF CodexTurnOK
<1>5. CodexOrigin'
  <2>1. ASSUME NEW u \in X!Turns, X!Misled(u)' PROVE \E v \in X!Turns : call'[v].cancelled
    <3>1. PICK d \in call'[u].fed : d # u BY <2>1 DEF X!Misled
    <3>2. d \in X!Turns BY <3>1 DEF CodexTypes, CodexTurnCalls
    <3>3. CodexAstray(d)' BY <1>4, <3>1 DEF CodexTurnOK
    <3>4. (\E v \in X!Turns : X!Misled(v)) \/ CodexAstray(d)
      BY <1>1, <3>1, <3>2 DEF CodexTurnOK, X!Misled
    <3>5. \E v \in X!Turns : call[v].cancelled BY <1>1, <3>2, <3>4 DEF CodexOrigin, CodexAstray
    <3> QED BY <3>5
  <2> QED BY <2>1 DEF CodexOrigin
<1>6. ASSUME NEW g \in 1 .. Len(procs')
      PROVE  (CodexDead(g) \/ CodexClean(g))' /\ \A u \in CodexLeft(g)' : CodexHasAsked(u)'
  <2>1. CASE CodexLeft(g)' = {} BY <2>1 DEF CodexClean
  <2>2. CASE CodexLeft(g)' # {}
    <3>1. /\ g \in 1 .. Len(procs)
          /\ CodexLeft(g)' \subseteq CodexLeft(g) \cup {t}
          /\ t \in CodexLeft(g)' => CodexHasAsked(t)'
          /\ \/ CodexDead(g)'
             \/ ~CodexDead(g) /\ (t \in CodexLeft(g)' => CodexAstray(t)' \/ CodexReads(t, g)')
      BY <2>2
    <3>2. CodexLeft(g)' \subseteq X!Turns
      <4>1. CodexPeerOK(procs'[g]) BY DEF CodexProcOK
      <4>2. CodexOf(procs'[g]) \subseteq X!Turns BY <4>1, WireWhose DEF CodexPeerOK, CodexOf
      <4> QED BY <4>2 DEF CodexLeft
    <3>3. \A u \in CodexLeft(g)' \ {t} : CodexHasAsked(u)'
      BY <3>1, <3>2 DEF CodexInv, CodexHasAsked
    <3>4. CASE ~CodexDead(g) /\ (t \in CodexLeft(g)' => CodexAstray(t)' \/ CodexReads(t, g)')
      <4>1. CodexClean(g) BY <3>1, <3>4 DEF CodexInv
      <4>2. \A u \in CodexLeft(g)' \ {t} : CodexAstray(u)' \/ CodexReads(u, g)'
        BY <1>3, <3>1, <3>2, <4>1 DEF CodexClean, CodexReads
      <4>3. CodexClean(g)' BY <3>4, <4>2 DEF CodexClean
      <4> QED BY <3>1, <3>3, <4>3
    <3> QED BY <3>1, <3>3, <3>4
  <2> QED BY <2>1, <2>2
<1> QED BY <1>4, <1>5, <1>6 DEF CodexInv

(* What happens to a process.                                              *)
LEMMA CodexPeer ==
  ASSUME TurnBounds, NEW p, CodexPeerOK(p)
  PROVE  /\ CodexPeerOK(X!Killed(p)) /\ X!Killed(p).killed /\ CodexOf(X!Killed(p)) \subseteq CodexOf(p)
         /\ CodexPeerOK(X!Died(p)) /\ X!Died(p).killed = p.killed /\ CodexOf(X!Died(p)) \subseteq CodexOf(p)
         /\ CodexOf(p) \subseteq X!Turns
<1>1. /\ p \in CodexTurnProcs /\ Wire(X!Turns, p.out, p.todo) /\ Wire(X!Turns, p.out, <<>>)
      /\ Whose(p.out, <<>>) \subseteq CodexOf(p) /\ CodexOf(p) \subseteq X!Turns
      /\ <<>> \in Seq(X!Turns)
  <2>1. p \in CodexTurnProcs /\ Wire(X!Turns, p.out, p.todo) BY DEF CodexPeerOK
  <2>2. Wire(X!Turns, p.out, <<>>) /\ Whose(p.out, <<>>) \subseteq CodexOf(p)
    BY <2>1, WireEmpty DEF CodexOf
  <2>3. CodexOf(p) \subseteq X!Turns BY <2>1, WireWhose DEF CodexOf
  <2>4. <<>> \in Seq(X!Turns) OBVIOUS
  <2> QED BY <2>1, <2>2, <2>3, <2>4
<1>2. PICK q : q = X!Killed(p) OBVIOUS
<1>3. /\ q \in CodexTurnProcs /\ q.up = FALSE /\ q.killed = TRUE /\ q.todo = <<>> /\ q.out = p.out
  BY <1>1, <1>2 DEF X!Killed, CodexTurnProcs
<1>4. PICK r : r = X!Died(p) OBVIOUS
<1>5. /\ r \in CodexTurnProcs /\ r.up = FALSE /\ r.killed = p.killed /\ r.todo = <<>> /\ r.out = p.out
  BY <1>1, <1>4 DEF X!Died, CodexTurnProcs
<1>6. CodexPeerOK(q) /\ CodexOf(q) \subseteq CodexOf(p) BY <1>1, <1>3 DEF CodexPeerOK, CodexOf
<1>7. CodexPeerOK(r) /\ CodexOf(r) \subseteq CodexOf(p) BY <1>1, <1>5 DEF CodexPeerOK, CodexOf
<1> QED BY <1>1, <1>2, <1>3, <1>4, <1>5, <1>6, <1>7

(* A request sent to a process that lives joins its wire.                  *)
LEMMA CodexPeerAsked ==
  ASSUME NEW p, CodexPeerOK(p), p.up, NEW t \in X!Turns, t \notin CodexOf(p)
  PROVE  CodexPeerOK(X!Asked(p, t)) /\ ~X!Asked(p, t).killed /\ CodexOf(X!Asked(p, t)) \subseteq CodexOf(p) \cup {t}
<1>1. /\ p \in CodexTurnProcs /\ Wire(X!Turns, p.out, Append(p.todo, t))
      /\ Whose(p.out, Append(p.todo, t)) \subseteq CodexOf(p) \cup {t}
      /\ Append(p.todo, t) \in Seq(X!Turns)
  <2>1. /\ p \in CodexTurnProcs /\ Wire(X!Turns, p.out, Append(p.todo, t))
        /\ Whose(p.out, Append(p.todo, t)) \subseteq CodexOf(p) \cup {t}
    BY WireAsked DEF CodexPeerOK, CodexOf
  <2> QED BY <2>1 DEF Wire
<1>2. PICK q : q = X!Asked(p, t) OBVIOUS
<1>3. /\ q \in CodexTurnProcs /\ q.up /\ q.killed = p.killed /\ q.todo = Append(p.todo, t)
      /\ q.out = p.out
  BY <1>1, <1>2 DEF X!Asked, CodexTurnProcs
<1>4. ~p.killed BY DEF CodexPeerOK
<1>5. CodexPeerOK(q) /\ CodexOf(q) \subseteq CodexOf(p) \cup {t}
  BY <1>1, <1>3, <1>4 DEF CodexPeerOK, CodexOf
<1> QED BY <1>2, <1>3, <1>4, <1>5

(* A frame said by a process is of a request it had.                       *)
LEMMA CodexPeerSaid ==
  ASSUME TurnBounds, NEW p, CodexPeerOK(p), X!Serves(p), Len(p.out) < MaxUnread, NEW sort \in FrameKinds
  PROVE  CodexPeerOK(X!Said(p, sort)) /\ ~X!Said(p, sort).killed /\ CodexOf(X!Said(p, sort)) \subseteq CodexOf(p)
<1> DEFINE new == Append(p.out, [kind |-> sort, of |-> Head(p.todo)])
           rest == IF sort = "final" THEN Tail(p.todo) ELSE p.todo
<1>1. /\ p \in CodexTurnProcs /\ p.up /\ ~p.killed
      /\ Wire(X!Turns, new, rest) /\ Whose(new, rest) \subseteq CodexOf(p)
  BY WireSaid DEF CodexPeerOK, CodexOf, X!Serves
<1>2. Len(new) <= MaxUnread
  <2>1. Len(new) = Len(p.out) + 1 /\ Len(p.out) \in Nat BY DEF CodexPeerOK, Wire
  <2> HIDE DEF new
  <2> QED BY <2>1 DEF TurnBounds
<1>3. new \in Seq(FramesOf(X!Turns)) /\ rest \in Seq(X!Turns) BY <1>1 DEF Wire
<1>4. PICK q : q = X!Said(p, sort) OBVIOUS
<1>5. q = [p EXCEPT !.out = new, !.todo = rest] BY <1>4 DEF X!Said
<1> HIDE DEF new, rest
<1>6. /\ q \in CodexTurnProcs /\ q.up = p.up /\ q.killed = p.killed /\ q.todo = rest /\ q.out = new
  BY <1>1, <1>3, <1>5 DEF CodexTurnProcs
<1>7. CodexPeerOK(q) /\ CodexOf(q) \subseteq CodexOf(p) BY <1>1, <1>2, <1>6 DEF CodexPeerOK, CodexOf
<1> QED BY <1>1, <1>4, <1>6, <1>7

(* A frame read from a process was on its wire.                            *)
LEMMA CodexPeerTaken ==
  ASSUME TurnBounds, NEW p, CodexPeerOK(p), p.out # <<>>
  PROVE  /\ CodexPeerOK(X!Taken(p)) /\ X!Taken(p).killed = p.killed /\ CodexOf(X!Taken(p)) \subseteq CodexOf(p)
         /\ Head(p.out).of \in CodexOf(p)
         /\ Head(p.out).kind = "final" => Head(p.out).of \notin CodexOf(X!Taken(p))
<1>1. /\ p \in CodexTurnProcs /\ Wire(X!Turns, Tail(p.out), p.todo)
      /\ Whose(Tail(p.out), p.todo) \subseteq CodexOf(p) /\ Head(p.out).of \in CodexOf(p)
      /\ Head(p.out).kind = "final" => Head(p.out).of \notin Whose(Tail(p.out), p.todo)
  BY WireTaken DEF CodexPeerOK, CodexOf
<1>2. Len(Tail(p.out)) <= MaxUnread
  <2>1. Len(Tail(p.out)) = Len(p.out) - 1 /\ Len(p.out) \in Nat /\ Len(p.out) <= MaxUnread
    BY DEF CodexPeerOK, Wire
  <2>2. PICK n \in Nat : n = Len(p.out) BY <2>1
  <2>3. n <= MaxUnread => n - 1 <= MaxUnread BY DEF TurnBounds
  <2> QED BY <2>1, <2>2, <2>3
<1>3. Tail(p.out) \in Seq(FramesOf(X!Turns)) BY <1>1 DEF Wire
<1>4. PICK q : q = X!Taken(p) OBVIOUS
<1>5. /\ q \in CodexTurnProcs /\ q.up = p.up /\ q.killed = p.killed /\ q.todo = p.todo
      /\ q.out = Tail(p.out)
  BY <1>1, <1>3, <1>4 DEF X!Taken, CodexTurnProcs
<1>6. CodexPeerOK(q) BY <1>1, <1>2, <1>5 DEF CodexPeerOK
<1> QED BY <1>1, <1>4, <1>5, <1>6 DEF CodexOf

(* A new process has an empty wire.                                        *)
LEMMA CodexPeerStarted ==
  ASSUME TurnBounds
  PROVE  CodexPeerOK(X!Started) /\ CodexOf(X!Started) = {}
<1>1. PICK q : q = X!Started OBVIOUS
<1>2. <<>> \in Seq(X!Turns) /\ <<>> \in Seq(FramesOf(X!Turns)) /\ Len(<<>>) = 0 OBVIOUS
<1>3. /\ q \in CodexTurnProcs /\ q.up = TRUE /\ q.killed = FALSE /\ q.todo = <<>> /\ q.out = <<>>
  BY <1>1, <1>2 DEF X!Started, CodexTurnProcs
<1>4. CodexPeerOK(q) /\ CodexOf(q) = {} BY <1>2, <1>3, WireEmpty DEF CodexPeerOK, CodexOf, TurnBounds
<1> QED BY <1>1, <1>4

-----------------------------------------------------------------------------
(* A step of t that leaves the processes alone, and reads as before.       *)
LEMMA CodexQuietTurn ==
  ASSUME CodexInv, CodexTypes', CodexTokenOK', NEW t \in X!Turns,
         \A u \in X!Turns \ {t} : call'[u] = call[u],
         call[t].cancelled => call'[t].cancelled,
         call'[t].fed = call[t].fed,
         CodexHasAsked(t) => CodexHasAsked(t)',
         call'[t].pc \in {"handshake", "send", "read", "line"} => call'[t].gen \in 1 .. Len(procs),
         \A g \in 1 .. Len(procs) : CodexReads(t, g)' <=> CodexReads(t, g),
         UNCHANGED <<procs, cur>>
  PROVE  CodexInv'
<1>1. Len(procs') >= Len(procs) BY DEF CodexInv, CodexTypes
<1>2. ASSUME NEW g \in 1 .. Len(procs')
      PROVE  /\ CodexProcOK(g)' /\ g \in 1 .. Len(procs) /\ CodexLeft(g)' = CodexLeft(g)
             /\ t \in CodexLeft(g) => CodexHasAsked(t)'
             /\ \/ CodexDead(g)'
                \/ ~CodexDead(g) /\ (t \in CodexLeft(g)' => CodexAstray(t)' \/ CodexReads(t, g)')
  <2>1. /\ CodexProcOK(g)' /\ g \in 1 .. Len(procs) /\ CodexLeft(g)' = CodexLeft(g)
        /\ t \in CodexLeft(g) => CodexHasAsked(t)'
    BY DEF CodexInv, CodexProcOK, CodexLeft
  <2>2. CodexDead(g) => CodexDead(g)' BY <2>1 DEF CodexDead, CodexReads
  <2>3. CodexClean(g) => (t \in CodexLeft(g)' => CodexAstray(t)' \/ CodexReads(t, g)')
    BY <2>1 DEF CodexClean, CodexAstray, X!Misled
  <2> QED BY <2>1, <2>2, <2>3 DEF CodexInv
<1>3. \A d \in call'[t].fed \ {t} : d \in call[t].fed \/ CodexAstray(d) OBVIOUS
<1>4. call'[t].pc \in {"handshake", "send", "read", "line"} => call'[t].gen \in 1 .. Len(procs')
  OBVIOUS
<1> QED BY <1>1, <1>2, <1>3, <1>4, CodexStep

(* The token: a step of t that holds as before, or takes or gives it back. *)
LEMMA CodexTokenStep ==
  ASSUME CodexTokenOK, NEW t \in X!Turns, \A u \in X!Turns \ {t} : call'[u] = call[u], token \in BOOLEAN,
         \/ token' = token /\ (CodexHolding(t)' <=> CodexHolding(t))
         \/ token /\ ~token' /\ CodexHolding(t)'
         \/ token' = TRUE /\ CodexHolding(t) /\ ~CodexHolding(t)'
  PROVE  CodexTokenOK'
<1>1. \A u \in X!Turns \ {t} : CodexHolding(u)' <=> CodexHolding(u) BY DEF CodexHolding
<1> QED BY <1>1 DEF CodexTokenOK

(* What a turn holds, reads and has asked for, by where it is.             *)
LEMMA CodexTurnFacts ==
  ASSUME CodexInv, NEW t \in X!Turns
  PROVE  /\ CodexTypes /\ CodexTokenOK /\ call[t] \in CodexTurnCalls /\ Len(procs) \in Nat
         /\ cur \in Nat /\ cur <= Len(procs) /\ faults \in Nat /\ token \in BOOLEAN
         /\ call[t].gen \in Nat /\ call[t].gen <= Len(procs)
BY DEF CodexInv, CodexTypes, CodexTurnCalls

(* Steps of a turn that neither send nor read a frame.                     *)
LEMMA CodexQuietInv ==
  ASSUME TurnBounds, CodexInv, NEW t \in X!Turns,
         \/ X!Call(t) \/ X!Take(t) \/ X!GiveUp(t) \/ X!Reuse(t) \/ X!HandshakeAnswered(t) \/ X!ReadLine(t)
         \/ X!Release(t) \/ X!Cancel(t)
  PROVE  CodexInv'
<1>1. /\ CodexTypes /\ CodexTokenOK /\ call[t] \in CodexTurnCalls /\ Len(procs) \in Nat
      /\ cur \in Nat /\ cur <= Len(procs) /\ faults \in Nat /\ token \in BOOLEAN
      /\ call[t].gen \in Nat /\ call[t].gen <= Len(procs)
  BY CodexTurnFacts
<1>2. PICK j : j = call[t] OBVIOUS
<1>3. PICK k : k = call'[t] OBVIOUS
<1>4. /\ UNCHANGED <<procs, cur, closed>>
      /\ faults' \in 0 .. MaxFaults
      /\ watch' \in [X!Turns -> {"none", "new", "parked", "due", "off"}]
      /\ token' \in BOOLEAN
  <2>1. faults' = faults \/ (faults < MaxFaults /\ faults' = faults + 1)
    BY DEF X!Call, X!Take, X!GiveUp, X!Reuse, X!HandshakeAnswered, X!ReadLine, X!Release, X!Cancel,
      X!Fault
  <2>2. faults' \in 0 .. MaxFaults
    BY <1>1, <2>1 DEF CodexTypes, TurnBounds
  <2>3. watch' = watch \/ watch' = [watch EXCEPT ![t] = IF @ = "parked" THEN "due" ELSE @]
    BY DEF X!Call, X!Take, X!GiveUp, X!Reuse, X!HandshakeAnswered, X!ReadLine, X!Release, X!Cancel
  <2>4. watch' \in [X!Turns -> {"none", "new", "parked", "due", "off"}]
    BY <1>1, <2>3 DEF CodexTypes
  <2> QED BY <1>1, <2>2, <2>4
        DEF X!Call, X!Take, X!GiveUp, X!Reuse, X!HandshakeAnswered, X!ReadLine, X!Release, X!Cancel
<1>5. /\ call' = [call EXCEPT ![t] = k] /\ k \in CodexTurnCalls /\ k.fed = j.fed
      /\ j.cancelled => k.cancelled
      /\ k.gen \in Nat /\ k.gen <= Len(procs)
  <2>1. call \in [X!Turns -> CodexTurnCalls] /\ j \in CodexTurnCalls BY <1>1, <1>2 DEF CodexTypes
  <2>2. \/ call' = [call EXCEPT ![t].pc = "wait"] \/ call' = [call EXCEPT ![t].pc = "ensure"]
        \/ call' = [call EXCEPT ![t].pc = "done", ![t].end = "cancelled"]
        \/ call' = [call EXCEPT ![t].pc = "send", ![t].gen = cur]
        \/ call' = [call EXCEPT ![t].pc = "send"] \/ call' = [call EXCEPT ![t].pc = "line"]
        \/ call' = [call EXCEPT ![t].pc = "done"]
        \/ call' = [call EXCEPT ![t].cancelled = TRUE]
    BY DEF X!Call, X!Take, X!GiveUp, X!Reuse, X!HandshakeAnswered, X!ReadLine, X!Release, X!Cancel,
      X!Goto
  <2>3. /\ call' = [call EXCEPT ![t] = k]
        /\ \/ k = [j EXCEPT !.pc = "wait"] \/ k = [j EXCEPT !.pc = "ensure"]
           \/ k = [j EXCEPT !.pc = "done", !.end = "cancelled"]
           \/ k = [j EXCEPT !.pc = "send", !.gen = cur]
           \/ k = [j EXCEPT !.pc = "send"] \/ k = [j EXCEPT !.pc = "line"]
           \/ k = [j EXCEPT !.pc = "done"]
           \/ k = [j EXCEPT !.cancelled = TRUE]
    BY <1>2, <1>3, <2>1, <2>2
  <2>4. /\ k \in CodexTurnCalls /\ k.fed = j.fed /\ (j.cancelled => k.cancelled)
        /\ k.gen = j.gen \/ k.gen = cur
    BY <1>1, <2>1, <2>3 DEF CodexTurnCalls, CodexTurnPCs
  <2> QED BY <1>1, <1>2, <2>3, <2>4
<1>6. \/ j.pc = "idle" /\ k.pc = "wait" /\ token' = token /\ k.gen = j.gen
      \/ j.pc = "wait" /\ k.pc = "ensure" /\ token /\ ~token' /\ k.gen = j.gen
      \/ j.pc = "wait" /\ k.pc = "done" /\ token' = token /\ k.gen = j.gen
      \/ j.pc = "ensure" /\ k.pc = "send" /\ token' = token /\ k.gen = cur /\ cur # 0
      \/ j.pc = "handshake" /\ k.pc = "send" /\ token' = token /\ k.gen = j.gen
      \/ j.pc = "read" /\ k.pc = "line" /\ token' = token /\ k.gen = j.gen
      \/ j.pc = "release" /\ k.pc = "done" /\ token' = TRUE /\ k.gen = j.gen
      \/ j.pc = k.pc /\ token' = token /\ k.gen = j.gen
  BY <1>1, <1>2, <1>3
  DEF X!Call, X!Take, X!GiveUp, X!Reuse, X!HandshakeAnswered, X!ReadLine, X!Release, X!Cancel,
    X!At, X!Goto, CodexTypes,
      CodexTurnCalls
<1>7. CodexTypes'
  BY <1>1, <1>4, <1>5 DEF CodexTypes
<1>8. CodexTokenOK'
  <2>1. \A u \in X!Turns \ {t} : call'[u] = call[u] BY <1>5
  <2>2. \/ token' = token /\ (CodexHolding(t)' <=> CodexHolding(t))
        \/ token /\ ~token' /\ CodexHolding(t)'
        \/ token' = TRUE /\ CodexHolding(t) /\ ~CodexHolding(t)'
    BY <1>2, <1>3, <1>6 DEF CodexHolding
  <2> QED BY <1>1, <2>1, <2>2, CodexTokenStep
<1>9. CodexHasAsked(t) => CodexHasAsked(t)' BY <1>2, <1>3, <1>6 DEF CodexHasAsked
<1>10. \A g \in 1 .. Len(procs) : CodexReads(t, g)' <=> CodexReads(t, g)
  BY <1>2, <1>3, <1>6 DEF CodexReads
<1>11. k.pc \in {"handshake", "send", "read", "line"} => k.gen \in 1 .. Len(procs)
  <2>1. j.pc \in {"handshake", "send", "read", "line"} => j.gen \in 1 .. Len(procs)
    BY <1>2 DEF CodexInv, CodexTurnOK
  <2>2. cur # 0 => cur \in 1 .. Len(procs) BY <1>1
  <2> QED BY <1>6, <2>1, <2>2
<1>12. \A u \in X!Turns \ {t} : call'[u] = call[u] BY <1>5
<1> QED BY <1>2, <1>3, <1>4, <1>5, <1>7, <1>8, <1>9, <1>10, <1>11, <1>12, CodexQuietTurn

(* Steps of the watchers that only change themselves.                      *)
LEMMA CodexWatchInv ==
  ASSUME CodexInv, NEW t \in X!Turns, X!WatchSelects(t) \/ X!WatchReturns(t)
  PROVE  CodexInv'
<1>1. /\ UNCHANGED <<call, token, procs, cur, closed, faults>>
      /\ CodexTypes
  BY DEF X!WatchSelects, X!WatchReturns, CodexInv
<1>2. watch' \in [X!Turns -> {"none", "new", "parked", "due", "off"}]
  <2>1. PICK next \in {"parked", "due", "off"} : watch' = [watch EXCEPT ![t] = next]
    BY DEF X!WatchSelects, X!WatchReturns, X!Ready
  <2> QED BY <1>1, <2>1 DEF CodexTypes
<1>3. CodexTypes' BY <1>1, <1>2 DEF CodexTypes
<1>4. CodexTokenOK' BY <1>1 DEF CodexInv, CodexTokenOK, CodexHolding
<1> QED BY <1>1, <1>3, <1>4, CodexQuietTurn DEF CodexInv, CodexHasAsked, CodexReads, CodexTurnOK

(* Steps after which every process was ended by the backend.               *)
LEMMA CodexEndStep ==
  ASSUME CodexInv, CodexTypes', CodexTokenOK', NEW t,
         \/ t \notin X!Turns /\ call' = call
         \/ /\ t \in X!Turns /\ CodexHolding(t)
            /\ \A u \in X!Turns \ {t} : call'[u] = call[u]
            /\ call[t].cancelled => call'[t].cancelled
            /\ call'[t].fed = call[t].fed
            /\ CodexHasAsked(t) => CodexHasAsked(t)'
            /\ call'[t].pc \in {"release", "done"},
         Len(procs') = Len(procs),
         \A g \in 1 .. Len(procs) :
           CodexPeerOK(procs'[g]) /\ procs'[g].killed /\ CodexOf(procs'[g]) \subseteq CodexOf(procs[g])
  PROVE  CodexInv'
<1>1. ASSUME NEW g \in 1 .. Len(procs')
      PROVE  /\ CodexProcOK(g)' /\ g \in 1 .. Len(procs) /\ CodexLeft(g)' \subseteq CodexLeft(g) \cup {t}
             /\ t \in CodexLeft(g)' => CodexHasAsked(t)'
             /\ \/ CodexDead(g)'
                \/ ~CodexDead(g) /\ (t \in CodexLeft(g)' => CodexAstray(t)' \/ CodexReads(t, g)')
  <2>1. CodexProcOK(g)' /\ g \in 1 .. Len(procs) /\ CodexLeft(g)' \subseteq CodexLeft(g)
    BY DEF CodexProcOK, CodexLeft
  <2>2. CodexLeft(g)' \subseteq X!Turns
    BY <2>1, WireWhose DEF CodexProcOK, CodexPeerOK, CodexLeft, CodexOf
  <2>3. t \in CodexLeft(g)' => CodexHasAsked(t)' BY <2>1, <2>2 DEF CodexInv, CodexHasAsked
  <2>4. CASE t \notin X!Turns
    <3>1. call' = call BY <2>4
    <3>2. CodexDead(g) => CodexDead(g)' BY <2>1, <3>1 DEF CodexDead, CodexReads
    <3> QED BY <2>1, <2>2, <2>3, <2>4, <3>2
  <2>5. CASE t \in X!Turns
    <3>1. ASSUME NEW u \in X!Turns, CodexReads(u, g)' PROVE FALSE
      <4>1. u # t BY <2>5, <3>1 DEF CodexReads
      <4>2. CodexHolding(u) BY <3>1, <4>1 DEF CodexReads, CodexHolding
      <4> QED BY <2>5, <4>1, <4>2 DEF CodexInv, CodexTokenOK
    <3>2. CodexDead(g)' BY <2>1, <3>1 DEF CodexDead
    <3> QED BY <2>1, <2>3, <3>2
  <2> QED BY <2>4, <2>5
<1>2. Len(procs') >= Len(procs) BY DEF CodexInv, CodexTypes
<1> QED BY <1>1, <1>2, CodexStep

(* restartAfterProtocolError, for processes ps like those there are.       *)
LEMMA CodexAllEnded ==
  ASSUME TurnBounds, CodexInv, NEW ps \in Seq(CodexTurnProcs), Len(ps) = Len(procs),
         \A g \in 1 .. Len(procs) : /\ CodexPeerOK(ps[g]) /\ CodexOf(ps[g]) \subseteq CodexOf(procs[g])
                                    /\ ps[g].killed \/ g = cur,
         X!RestartAfterProtocolError(ps)
  PROVE  /\ procs' \in Seq(CodexTurnProcs) /\ Len(procs') = Len(procs) /\ cur' = 0
         /\ \A g \in 1 .. Len(procs) :
              CodexPeerOK(procs'[g]) /\ procs'[g].killed /\ CodexOf(procs'[g]) \subseteq CodexOf(procs[g])
<1>1. cur \in 0 .. Len(procs) /\ Len(procs) \in Nat BY DEF CodexInv, CodexTypes
<1>2. CASE cur = 0 BY <1>1, <1>2 DEF X!RestartAfterProtocolError
<1>3. CASE cur # 0
  <2>1. cur \in 1 .. Len(procs) BY <1>1, <1>3
  <2>2. PICK c : c = cur OBVIOUS
  <2>3. procs' = [ps EXCEPT ![c] = X!Killed(ps[c])] BY <1>3, <2>2 DEF X!RestartAfterProtocolError
  <2>4. /\ CodexPeerOK(X!Killed(ps[c])) /\ X!Killed(ps[c]).killed /\ CodexOf(X!Killed(ps[c])) \subseteq CodexOf(ps[c])
    BY <2>1, <2>2, CodexPeer
  <2>5. PICK q : q = X!Killed(ps[c]) OBVIOUS
  <2>6. q \in CodexTurnProcs BY <2>4, <2>5 DEF CodexPeerOK
  <2>7. procs' \in Seq(CodexTurnProcs) /\ Len(procs') = Len(procs) BY <2>1, <2>2, <2>3, <2>5, <2>6
  <2>8. \A g \in 1 .. Len(procs) : procs'[g] = IF g = c THEN q ELSE ps[g]
    BY <2>1, <2>2, <2>3, <2>5
  <2>9. cur' = 0 BY DEF X!RestartAfterProtocolError
  <2> QED BY <2>2, <2>4, <2>5, <2>7, <2>8, <2>9
<1> QED BY <1>2, <1>3

(* What CodexInv says of the processes alone.                              *)
LEMMA CodexProcsFacts ==
  ASSUME CodexInv
  PROVE  /\ procs \in Seq(CodexTurnProcs)
         /\ \A g \in 1 .. Len(procs) : CodexPeerOK(procs[g]) /\ (procs[g].killed \/ g = cur)
BY DEF CodexInv, CodexTypes, CodexProcOK

(* A frame is read.                                                        *)
LEMMA CodexRestFacts ==
  ASSUME TurnBounds, CodexInv, NEW t \in X!Turns, X!At(t, "line"), X!Proc(t).out # <<>>
  PROVE  LET g == call[t].gen
             d == Head(X!Proc(t).out).of
         IN  /\ g \in 1 .. Len(procs) /\ CodexReads(t, g) /\ ~CodexDead(g)
             /\ X!Rest(t) \in Seq(CodexTurnProcs) /\ Len(X!Rest(t)) = Len(procs)
             /\ d \in X!Turns /\ (d = t \/ CodexAstray(d))
             /\ Head(X!Proc(t).out).kind = "final" => d \notin CodexOf(X!Rest(t)[g])
             /\ \A h \in 1 .. Len(procs) :
                  /\ CodexPeerOK(X!Rest(t)[h]) /\ CodexOf(X!Rest(t)[h]) \subseteq CodexOf(procs[h])
                  /\ X!Rest(t)[h].killed = procs[h].killed
                  /\ h # g => X!Rest(t)[h] = procs[h]
<1>1. PICK g : g = call[t].gen OBVIOUS
<1>2. g \in 1 .. Len(procs) /\ call[t].pc = "line" BY <1>1 DEF CodexInv, CodexTurnOK, X!At
<1>3. CodexReads(t, g) /\ ~CodexDead(g) BY <1>1, <1>2 DEF CodexReads, CodexDead
<1>4. PICK p : p = procs[g] OBVIOUS
<1>5. CodexPeerOK(p) /\ p.out # <<>> /\ X!Proc(t) = p
  BY <1>1, <1>2, <1>4, CodexProcsFacts DEF X!Proc
<1>6. /\ CodexPeerOK(X!Taken(p)) /\ X!Taken(p).killed = p.killed /\ CodexOf(X!Taken(p)) \subseteq CodexOf(p)
      /\ Head(p.out).of \in CodexOf(p) /\ CodexOf(p) \subseteq X!Turns
      /\ Head(p.out).kind = "final" => Head(p.out).of \notin CodexOf(X!Taken(p))
  BY <1>5, CodexPeerTaken, CodexPeer
<1>7. PICK q : q = X!Taken(p) OBVIOUS
<1>8. X!Rest(t) = [procs EXCEPT ![g] = q] BY <1>1, <1>4, <1>7 DEF X!Rest
<1>9. q \in CodexTurnProcs BY <1>6, <1>7 DEF CodexPeerOK
<1>10. PICK ps : ps = X!Rest(t) OBVIOUS
<1>11. ps \in Seq(CodexTurnProcs) /\ Len(ps) = Len(procs)
  BY <1>2, <1>8, <1>9, <1>10, CodexProcsFacts
<1>12. \A h \in 1 .. Len(procs) : ps[h] = IF h = g THEN q ELSE procs[h]
  BY <1>2, <1>8, <1>10, CodexProcsFacts
<1>13. \A h \in 1 .. Len(procs) :
         /\ CodexPeerOK(ps[h]) /\ CodexOf(ps[h]) \subseteq CodexOf(procs[h])
         /\ ps[h].killed = procs[h].killed
         /\ h # g => ps[h] = procs[h]
  BY <1>4, <1>6, <1>7, <1>12, CodexProcsFacts
<1>14. CodexClean(g) BY <1>2, <1>3 DEF CodexInv
<1>15. \A d \in CodexOf(p) : d = t \/ CodexAstray(d)
  <2>1. ASSUME NEW d \in CodexOf(p), ~CodexAstray(d) PROVE d = t
    <3>1. d \in X!Turns /\ CodexReads(d, g) BY <1>4, <1>6, <1>14, <2>1 DEF CodexClean, CodexLeft
    <3> QED BY <1>3, <3>1 DEF CodexReads, CodexHolding, CodexInv, CodexTokenOK
  <2> QED BY <2>1
<1>16. PICK d : d = Head(p.out).of OBVIOUS
<1>17. d \in X!Turns /\ (d = t \/ CodexAstray(d)) BY <1>6, <1>15, <1>16
<1>18. Head(p.out).kind = "final" => d \notin CodexOf(ps[g]) BY <1>2, <1>6, <1>7, <1>12, <1>16
<1> QED BY <1>1, <1>2, <1>3, <1>5, <1>10, <1>11, <1>13, <1>16, <1>17, <1>18

-----------------------------------------------------------------------------
(* The turns that end with their process, and what else ends it.           *)
LEMMA CodexEndingInv ==
  ASSUME TurnBounds, CodexInv, NEW t \in X!Turns,
         \/ X!StartFails(t) \/ X!HandshakeCancelled(t) \/ X!HandshakeBroken(t) \/ X!SendFails(t)
         \/ X!ReadCancelled(t) \/ X!BadFrame(t) \/ X!EndOfOutput(t)
  PROVE  CodexInv'
<1>1. /\ CodexTypes /\ CodexTokenOK /\ call[t] \in CodexTurnCalls /\ Len(procs) \in Nat
      /\ cur \in Nat /\ cur <= Len(procs) /\ faults \in Nat /\ token \in BOOLEAN
      /\ call[t].gen \in Nat /\ call[t].gen <= Len(procs)
  BY CodexTurnFacts
<1>2. PICK j : j = call[t] OBVIOUS
<1>3. PICK k : k = call'[t] OBVIOUS
<1>4. /\ procs' \in Seq(CodexTurnProcs) /\ Len(procs') = Len(procs) /\ cur' = 0
      /\ \A g \in 1 .. Len(procs) :
           CodexPeerOK(procs'[g]) /\ procs'[g].killed /\ CodexOf(procs'[g]) \subseteq CodexOf(procs[g])
  <2>1. CASE X!RestartAfterProtocolError(procs)
    BY <2>1, CodexProcsFacts, CodexAllEnded
  <2>2. CASE X!BadFrame(t)
    <3>1. X!At(t, "line") /\ X!Proc(t).out # <<>> /\ X!RestartAfterProtocolError(X!Rest(t))
      BY <2>2 DEF X!BadFrame, X!Frame
    <3>2. PICK ps : ps = X!Rest(t) OBVIOUS
    <3>3. /\ ps \in Seq(CodexTurnProcs) /\ Len(ps) = Len(procs)
          /\ \A h \in 1 .. Len(procs) :
               /\ CodexPeerOK(ps[h]) /\ CodexOf(ps[h]) \subseteq CodexOf(procs[h])
               /\ ps[h].killed = procs[h].killed
      BY <3>1, <3>2, CodexRestFacts
    <3>4. X!RestartAfterProtocolError(ps) BY <3>1, <3>2 DEF X!RestartAfterProtocolError
    <3> QED BY <3>3, <3>4, CodexProcsFacts, CodexAllEnded
  <2>3. X!StartFails(t) => X!RestartAfterProtocolError(procs)
    BY DEF X!StartFails, X!WithoutStale, X!RestartAfterProtocolError
  <2> QED BY <2>1, <2>2, <2>3
        DEF X!HandshakeCancelled, X!HandshakeBroken, X!SendFails, X!ReadCancelled, X!EndOfOutput
<1>5. /\ closed' = closed /\ faults' \in 0 .. MaxFaults
      /\ watch' \in [X!Turns -> {"none", "new", "parked", "due", "off"}]
  <2>1. faults' = faults \/ (faults < MaxFaults /\ faults' = faults + 1)
    BY DEF X!StartFails, X!HandshakeCancelled, X!HandshakeBroken, X!SendFails, X!ReadCancelled,
      X!BadFrame,
           X!EndOfOutput, X!Fault
  <2>2. faults' \in 0 .. MaxFaults BY <1>1, <2>1 DEF CodexTypes, TurnBounds
  <2>3. watch' = watch \/ watch' = [watch EXCEPT ![t] = IF @ = "parked" THEN "off" ELSE @]
    BY DEF X!StartFails, X!HandshakeCancelled, X!HandshakeBroken, X!SendFails, X!ReadCancelled,
      X!BadFrame,
           X!EndOfOutput, X!Finish
  <2>4. watch' \in [X!Turns -> {"none", "new", "parked", "due", "off"}]
    BY <1>1, <2>3 DEF CodexTypes
  <2> QED BY <2>2, <2>4
        DEF X!StartFails, X!HandshakeCancelled, X!HandshakeBroken, X!SendFails, X!ReadCancelled,
          X!BadFrame,
            X!EndOfOutput
<1>6. /\ call' = [call EXCEPT ![t] = k] /\ k \in CodexTurnCalls /\ k.fed = j.fed
      /\ k.cancelled = j.cancelled /\ k.gen = j.gen
      /\ \/ k.pc = "done" /\ token' = TRUE /\ j.pc \in {"ensure", "handshake"}
         \/ k.pc = "release" /\ token' = token /\ j.pc \in {"send", "read", "line"}
  <2>1. call \in [X!Turns -> CodexTurnCalls] /\ j \in CodexTurnCalls BY <1>1, <1>2 DEF CodexTypes
  <2>2. PICK end \in {"cancelled", "error", "endTurn"} :
          \/ /\ call' = [call EXCEPT ![t].pc = "done", ![t].end = end]
             /\ token' = TRUE /\ j.pc \in {"ensure", "handshake"}
          \/ /\ call' = [call EXCEPT ![t].pc = "release", ![t].end = end]
             /\ token' = token /\ j.pc \in {"send", "read", "line"}
    BY <1>2 DEF X!StartFails, X!HandshakeCancelled, X!HandshakeBroken, X!SendFails,
      X!ReadCancelled, X!BadFrame,
           X!EndOfOutput, X!Finish, X!Refuse, X!At, X!Frame
  <2>3. /\ call' = [call EXCEPT ![t] = k]
        /\ \/ k = [j EXCEPT !.pc = "done", !.end = end] /\ token' = TRUE /\ j.pc \in {"ensure", "handshake"}
           \/ k = [j EXCEPT !.pc = "release", !.end = end] /\ token' = token /\ j.pc \in {"send", "read", "line"}
    BY <1>2, <1>3, <2>1, <2>2
  <2> QED BY <2>1, <2>3 DEF CodexTurnCalls, CodexTurnPCs
<1>7. CodexTypes'
  <2>1. token' \in BOOLEAN BY <1>1, <1>6
  <2>2. cur' \in 0 .. Len(procs') BY <1>1, <1>4
  <2>3. call' \in [X!Turns -> CodexTurnCalls] BY <1>1, <1>6 DEF CodexTypes
  <2>4. \A u \in X!Turns : call'[u].gen <= Len(procs')
    BY <1>1, <1>2, <1>4, <1>6 DEF CodexTypes
  <2> QED BY <1>1, <1>4, <1>5, <2>1, <2>2, <2>3, <2>4 DEF CodexTypes
<1>8. \A u \in X!Turns \ {t} : call'[u] = call[u] BY <1>6
<1>9. CodexHolding(t) /\ (CodexHasAsked(t) => CodexHasAsked(t)')
  BY <1>2, <1>3, <1>6 DEF CodexHolding, CodexHasAsked
<1>10. CodexTokenOK'
  <2>1. \/ token' = token /\ (CodexHolding(t)' <=> CodexHolding(t))
        \/ token' = TRUE /\ CodexHolding(t) /\ ~CodexHolding(t)'
    BY <1>2, <1>3, <1>6 DEF CodexHolding
  <2> QED BY <1>1, <1>8, <2>1, CodexTokenStep
<1> QED BY <1>2, <1>3, <1>4, <1>6, <1>7, <1>8, <1>9, <1>10, CodexEndStep

(* A close, or the watcher of a cancelled turn, ends the process held.     *)
LEMMA CodexEndedInv ==
  ASSUME TurnBounds, CodexInv, X!Close \/ \E t \in X!Turns : X!WatchRestarts(t)
  PROVE  CodexInv'
<1>1. /\ CodexTypes /\ CodexTokenOK /\ X!RestartAfterProtocolError(procs)
      /\ UNCHANGED <<call, token>>
  BY DEF X!Close, X!WatchRestarts, CodexInv
<1>2. /\ procs' \in Seq(CodexTurnProcs) /\ Len(procs') = Len(procs) /\ cur' = 0
      /\ \A g \in 1 .. Len(procs) :
           CodexPeerOK(procs'[g]) /\ procs'[g].killed /\ CodexOf(procs'[g]) \subseteq CodexOf(procs[g])
  BY <1>1, CodexProcsFacts, CodexAllEnded
<1>3. closed' \in BOOLEAN /\ faults' \in 0 .. MaxFaults
  <2>1. \A n, m \in Nat : n < m => n + 1 \in 0 .. m OBVIOUS
  <2>2. faults \in Nat /\ MaxFaults \in Nat BY <1>1 DEF CodexTypes, TurnBounds
  <2>3. X!Fault => faults' \in 0 .. MaxFaults BY <2>1, <2>2, Zenon DEF X!Fault
  <2>4. UNCHANGED faults => faults' \in 0 .. MaxFaults BY <1>1 DEF CodexTypes
  <2>5. closed' \in BOOLEAN BY <1>1 DEF CodexTypes, X!Close, X!WatchRestarts
  <2> QED BY <2>3, <2>4, <2>5 DEF X!Close, X!WatchRestarts
<1>4. watch' \in [X!Turns -> {"none", "new", "parked", "due", "off"}]
  BY <1>1 DEF X!Close, X!WatchRestarts, CodexTypes
<1>5. cur' \in 0 .. Len(procs') BY <1>1, <1>2 DEF CodexTypes
<1>6. CodexTypes' BY <1>1, <1>2, <1>3, <1>4, <1>5 DEF CodexTypes
<1>7. CodexTokenOK' BY <1>1 DEF CodexTokenOK, CodexHolding
<1>8. 0 \notin X!Turns BY DEF X!Turns, TurnBounds
<1> QED BY <1>1, <1>2, <1>6, <1>7, <1>8, CodexEndStep

(* The turns that go on, or end, with a frame.                             *)
LEMMA CodexFrameInv ==
  ASSUME TurnBounds, CodexInv, NEW t \in X!Turns, X!Delta(t) \/ X!DeltaCancelled(t) \/ X!TurnCompleted(t)
  PROVE  CodexInv'
<1>1. /\ CodexTypes /\ CodexTokenOK /\ call[t] \in CodexTurnCalls /\ Len(procs) \in Nat
      /\ cur \in Nat /\ cur <= Len(procs) /\ faults \in Nat /\ token \in BOOLEAN
      /\ call[t].gen \in Nat /\ call[t].gen <= Len(procs)
  BY CodexTurnFacts
<1>2. PICK j : j = call[t] OBVIOUS
<1>3. PICK k : k = call'[t] OBVIOUS
<1>4. PICK g : g = call[t].gen OBVIOUS
<1>5. PICK d : d = Head(X!Proc(t).out).of OBVIOUS
<1>6. PICK sort : sort = Head(X!Proc(t).out).kind OBVIOUS
<1>7. /\ X!At(t, "line") /\ X!Proc(t).out # <<>> /\ procs' = X!Rest(t)
      /\ UNCHANGED <<token, cur, closed, faults>>
      /\ X!TurnCompleted(t) => sort = "final"
  BY <1>6 DEF X!Delta, X!DeltaCancelled, X!TurnCompleted, X!Frame
<1>8. /\ g \in 1 .. Len(procs) /\ CodexReads(t, g) /\ ~CodexDead(g)
      /\ procs' \in Seq(CodexTurnProcs) /\ Len(procs') = Len(procs)
      /\ d \in X!Turns /\ (d = t \/ CodexAstray(d))
      /\ sort = "final" => d \notin CodexOf(procs'[g])
      /\ \A h \in 1 .. Len(procs) :
           /\ CodexPeerOK(procs'[h]) /\ CodexOf(procs'[h]) \subseteq CodexOf(procs[h])
           /\ procs'[h].killed = procs[h].killed
           /\ h # g => procs'[h] = procs[h]
  BY <1>4, <1>5, <1>6, <1>7, CodexRestFacts
<1>9. watch' \in [X!Turns -> {"none", "new", "parked", "due", "off"}]
  <2>1. watch' = watch \/ watch' = [watch EXCEPT ![t] = IF @ = "parked" THEN "off" ELSE @]
    BY DEF X!Delta, X!DeltaCancelled, X!TurnCompleted, X!Finish
  <2> QED BY <1>1, <2>1 DEF CodexTypes
<1>10. /\ call' = [call EXCEPT ![t] = k] /\ k \in CodexTurnCalls /\ j.pc = "line"
       /\ k.cancelled = j.cancelled /\ k.gen = j.gen
       /\ \/ k.pc = "read" /\ k.fed = j.fed \cup {d}
          \/ k.pc = "release" /\ k.fed = j.fed /\ j.cancelled
          \/ k.pc = "release" /\ k.fed = j.fed \cup {d} /\ sort = "final"
  <2>1. call \in [X!Turns -> CodexTurnCalls] /\ j \in CodexTurnCalls BY <1>1, <1>2 DEF CodexTypes
  <2>2. \/ call' = [call EXCEPT ![t].pc = "read", ![t].fed = call[t].fed \cup {d}]
        \/ call' = [call EXCEPT ![t].pc = "release", ![t].end = "cancelled"] /\ call[t].cancelled
        \/ /\ call' = [call EXCEPT ![t].pc = "release", ![t].end = "endTurn", ![t].fed = call[t].fed \cup {d}]
           /\ sort = "final"
    BY <1>5, <1>7 DEF X!Delta, X!DeltaCancelled, X!TurnCompleted, X!Finish, X!Feed
  <2>3. /\ call' = [call EXCEPT ![t] = k]
        /\ \/ k = [j EXCEPT !.pc = "read", !.fed = j.fed \cup {d}]
           \/ k = [j EXCEPT !.pc = "release", !.end = "cancelled"] /\ j.cancelled
           \/ /\ k = [j EXCEPT !.pc = "release", !.end = "endTurn", !.fed = j.fed \cup {d}]
              /\ sort = "final"
    BY <1>2, <1>3, <2>1, <2>2
  <2>4. j.pc = "line" BY <1>2, <1>7 DEF X!At
  <2>5. PICK fed : fed = j.fed \cup {d} OBVIOUS
  <2>6. fed \in SUBSET X!Turns BY <1>8, <2>1, <2>5 DEF CodexTurnCalls
  <2>7. /\ k \in CodexTurnCalls /\ k.cancelled = j.cancelled /\ k.gen = j.gen
        /\ \/ k.pc = "read" /\ k.fed = fed
           \/ k.pc = "release" /\ k.fed = j.fed /\ j.cancelled
           \/ k.pc = "release" /\ k.fed = fed /\ sort = "final"
    BY <2>1, <2>3, <2>5, <2>6 DEF CodexTurnCalls, CodexTurnPCs
  <2> QED BY <2>3, <2>4, <2>5, <2>7
<1>11. CodexTypes'
  <2>1. cur' \in 0 .. Len(procs') BY <1>1, <1>7, <1>8
  <2>2. call' \in [X!Turns -> CodexTurnCalls] BY <1>1, <1>10 DEF CodexTypes
  <2>3. \A u \in X!Turns : call'[u].gen <= Len(procs')
    BY <1>1, <1>2, <1>8, <1>10 DEF CodexTypes
  <2> QED BY <1>1, <1>7, <1>8, <1>9, <2>1, <2>2, <2>3 DEF CodexTypes
<1>12. \A u \in X!Turns \ {t} : call'[u] = call[u] BY <1>10
<1>13. CodexTokenOK'
  <2>1. token' = token /\ CodexHolding(t) /\ CodexHolding(t)'
    BY <1>2, <1>3, <1>7, <1>10 DEF CodexHolding
  <2> QED BY <1>1, <1>12, <2>1, CodexTokenStep
<1>14. CodexHasAsked(t) /\ CodexHasAsked(t)' BY <1>2, <1>3, <1>10 DEF CodexHasAsked
<1>15. ASSUME NEW h \in 1 .. Len(procs')
       PROVE  /\ CodexProcOK(h)' /\ h \in 1 .. Len(procs) /\ CodexLeft(h)' \subseteq CodexLeft(h) \cup {t}
              /\ \/ CodexDead(h)'
                 \/ ~CodexDead(h) /\ (t \in CodexLeft(h)' => CodexAstray(t)' \/ CodexReads(t, h)')
  <2>1. h \in 1 .. Len(procs) /\ CodexLeft(h)' \subseteq CodexLeft(h) BY <1>8 DEF CodexLeft
  <2>2. CodexProcOK(h)' BY <1>7, <1>8, <2>1, CodexProcsFacts DEF CodexProcOK
  <2>3. CASE h # g
    <3>1. CodexDead(h) => CodexDead(h)'
      BY <1>2, <1>3, <1>4, <1>8, <1>10, <1>12, <2>1, <2>3 DEF CodexDead, CodexReads
    <3>2. CodexLeft(h)' = CodexLeft(h) BY <1>8, <2>1, <2>3 DEF CodexLeft
    <3>3. ~CodexDead(h) /\ t \in CodexLeft(h) => CodexAstray(t)
      BY <1>4, <1>8, <2>1, <2>3 DEF CodexInv, CodexClean, CodexReads
    <3>4. CodexAstray(t) => CodexAstray(t)'
      BY <1>2, <1>3, <1>10 DEF CodexAstray, X!Misled
    <3> QED BY <2>1, <2>2, <3>1, <3>2, <3>3, <3>4
  <2>4. CASE h = g
    <3>1. k.pc = "read" => CodexReads(t, g)' BY <1>2, <1>3, <1>4, <1>10 DEF CodexReads
    <3>2. j.cancelled => CodexAstray(t)' BY <1>2, <1>3, <1>10 DEF CodexAstray
    <3>3. sort = "final" /\ k.fed = j.fed \cup {d} /\ d # t => CodexAstray(t)'
      BY <1>3 DEF CodexAstray, X!Misled
    <3>4. sort = "final" /\ d = t => t \notin CodexLeft(g)' BY <1>8 DEF CodexLeft
    <3> QED BY <1>8, <1>10, <2>1, <2>2, <2>4, <3>1, <3>2, <3>3, <3>4
  <2> QED BY <2>3, <2>4
<1>16. \A e \in k.fed \ {t} : e \in j.fed \/ CodexAstray(e) BY <1>8, <1>10
<1>17. k.pc \notin {"handshake", "send", "line"} /\ k.gen \in 1 .. Len(procs')
  BY <1>2, <1>4, <1>8, <1>10
<1>18. Len(procs') >= Len(procs) BY <1>1, <1>8
<1> QED BY <1>2, <1>3, <1>10, <1>11, <1>12, <1>13, <1>14, <1>15, <1>16, <1>17, <1>18, CodexStep

(* A turn sends its first and only request to the process it holds.        *)
LEMMA CodexSendInv ==
  ASSUME TurnBounds, CodexInv, NEW t \in X!Turns, X!Send(t)
  PROVE  CodexInv'
<1>1. /\ CodexTypes /\ CodexTokenOK /\ call[t] \in CodexTurnCalls /\ Len(procs) \in Nat
      /\ cur \in Nat /\ cur <= Len(procs) /\ faults \in Nat /\ token \in BOOLEAN
      /\ call[t].gen \in Nat /\ call[t].gen <= Len(procs)
  BY CodexTurnFacts
<1>2. PICK j : j = call[t] OBVIOUS
<1>3. PICK g : g = j.gen OBVIOUS
<1>4. PICK p : p = procs[g] OBVIOUS
<1>5. /\ j.pc = "send" /\ g \in 1 .. Len(procs) /\ p.up /\ CodexPeerOK(p) /\ ~p.killed
      /\ UNCHANGED <<token, cur, closed, faults>>
  <2>1. j.pc = "send" /\ p.up /\ UNCHANGED <<token, cur, closed, faults>>
    BY <1>2, <1>3, <1>4 DEF X!Send, X!At, X!Proc
  <2>2. g \in 1 .. Len(procs) BY <1>2, <1>3, <2>1 DEF CodexInv, CodexTurnOK
  <2> QED BY <1>4, <2>1, <2>2, CodexProcsFacts DEF CodexPeerOK
<1>6. t \notin CodexOf(p)
  <2>1. ~CodexHasAsked(t) BY <1>2, <1>5 DEF CodexHasAsked
  <2> QED BY <1>4, <1>5, <2>1 DEF CodexInv, CodexLeft
<1>7. PICK q : q = X!Asked(p, t) OBVIOUS
<1>8. CodexPeerOK(q) /\ ~q.killed /\ CodexOf(q) \subseteq CodexOf(p) \cup {t} /\ q \in CodexTurnProcs
  BY <1>5, <1>6, <1>7, CodexPeerAsked DEF CodexPeerOK
<1>9. /\ procs' \in Seq(CodexTurnProcs) /\ Len(procs') = Len(procs)
      /\ \A h \in 1 .. Len(procs) : procs'[h] = IF h = g THEN q ELSE procs[h]
  <2>1. procs' = [procs EXCEPT ![g] = q] BY <1>2, <1>3, <1>4, <1>7 DEF X!Send
  <2> QED BY <1>5, <1>8, <2>1, CodexProcsFacts
<1>10. PICK k : k = [j EXCEPT !.pc = "read"] OBVIOUS
<1>11. /\ call' = [call EXCEPT ![t] = k] /\ call'[t] = k /\ k \in CodexTurnCalls /\ k.fed = j.fed
       /\ k.cancelled = j.cancelled /\ k.gen = g /\ k.pc = "read"
  <2>1. call \in [X!Turns -> CodexTurnCalls] /\ j \in CodexTurnCalls BY <1>1, <1>2 DEF CodexTypes
  <2>2. call' = [call EXCEPT ![t] = k] BY <1>2, <1>10, <2>1 DEF X!Send, X!Goto
  <2> QED BY <1>3, <1>10, <2>1, <2>2 DEF CodexTurnCalls, CodexTurnPCs
<1>12. watch' \in [X!Turns -> {"none", "new", "parked", "due", "off"}]
  BY <1>1 DEF X!Send, CodexTypes
<1>13. CodexTypes'
  <2>1. cur' \in 0 .. Len(procs') BY <1>1, <1>5, <1>9
  <2>2. call' \in [X!Turns -> CodexTurnCalls] BY <1>1, <1>11 DEF CodexTypes
  <2>3. \A u \in X!Turns : call'[u].gen <= Len(procs')
    BY <1>1, <1>2, <1>3, <1>9, <1>11 DEF CodexTypes
  <2> QED BY <1>1, <1>5, <1>9, <1>12, <2>1, <2>2, <2>3 DEF CodexTypes
<1>14. \A u \in X!Turns \ {t} : call'[u] = call[u] BY <1>11
<1>15. CodexTokenOK'
  <2>1. token' = token /\ CodexHolding(t) /\ CodexHolding(t)' BY <1>2, <1>5, <1>11 DEF CodexHolding
  <2> QED BY <1>1, <1>14, <2>1, CodexTokenStep
<1>16. CodexHasAsked(t)' BY <1>11 DEF CodexHasAsked
<1>17. ASSUME NEW h \in 1 .. Len(procs')
       PROVE  /\ CodexProcOK(h)' /\ h \in 1 .. Len(procs) /\ CodexLeft(h)' \subseteq CodexLeft(h) \cup {t}
              /\ \/ CodexDead(h)'
                 \/ ~CodexDead(h) /\ (t \in CodexLeft(h)' => CodexAstray(t)' \/ CodexReads(t, h)')
  <2>1. h \in 1 .. Len(procs) /\ CodexLeft(h)' \subseteq CodexLeft(h) \cup {t}
    BY <1>4, <1>8, <1>9 DEF CodexLeft
  <2>2. CodexProcOK(h)' BY <1>4, <1>5, <1>8, <1>9, <2>1, CodexProcsFacts DEF CodexProcOK
  <2>3. CASE h # g
    <3>1. CodexDead(h) => CodexDead(h)' BY <1>9, <1>11, <1>14, <2>1, <2>3 DEF CodexDead, CodexReads
    <3>2. CodexLeft(h)' = CodexLeft(h) BY <1>9, <2>1, <2>3 DEF CodexLeft
    <3>3. ~CodexDead(h) /\ t \in CodexLeft(h) => CodexHasAsked(t) BY <2>1 DEF CodexInv
    <3>4. ~CodexHasAsked(t) BY <1>2, <1>5 DEF CodexHasAsked
    <3> QED BY <2>1, <2>2, <3>1, <3>2, <3>3, <3>4
  <2>4. CASE h = g
    <3>1. CodexReads(t, g)' BY <1>11 DEF CodexReads
    <3>2. ~CodexDead(g) BY <1>4, <1>5 DEF CodexDead
    <3> QED BY <2>1, <2>2, <2>4, <3>1, <3>2
  <2> QED BY <2>3, <2>4
<1>18. \A e \in call'[t].fed \ {t} : e \in call[t].fed BY <1>2, <1>11
<1>19. call'[t].gen \in 1 .. Len(procs') BY <1>5, <1>9, <1>11
<1>20. Len(procs') >= Len(procs) BY <1>1, <1>9
<1> QED BY <1>2, <1>11, <1>13, <1>14, <1>15, <1>16, <1>17, <1>18, <1>19, <1>20, CodexStep

(* A new process replaces one that was ended.                              *)
LEMMA CodexStartsInv ==
  ASSUME TurnBounds, CodexInv, NEW t \in X!Turns, X!Start(t)
  PROVE  CodexInv'
<1>1. /\ CodexTypes /\ CodexTokenOK /\ call[t] \in CodexTurnCalls /\ Len(procs) \in Nat
      /\ cur \in Nat /\ cur <= Len(procs) /\ faults \in Nat /\ token \in BOOLEAN
      /\ call[t].gen \in Nat /\ call[t].gen <= Len(procs)
  BY CodexTurnFacts
<1>2. PICK j : j = call[t] OBVIOUS
<1>3. PICK n : n = Len(procs) OBVIOUS
<1>4. PICK ps : ps = X!WithoutStale OBVIOUS
<1>5. /\ ps \in Seq(CodexTurnProcs) /\ Len(ps) = n
      /\ \A h \in 1 .. n :
           CodexPeerOK(ps[h]) /\ ps[h].killed /\ CodexOf(ps[h]) \subseteq CodexOf(procs[h])
  <2>1. CASE cur = 0 BY <1>3, <1>4, <2>1, CodexProcsFacts DEF X!WithoutStale
  <2>2. CASE cur # 0
    <3>1. PICK c : c = cur OBVIOUS
    <3>2. c \in 1 .. n BY <1>1, <1>3, <2>2, <3>1
    <3>3. PICK q : q = X!Killed(procs[c]) OBVIOUS
    <3>4. CodexPeerOK(procs[c]) BY <1>3, <3>2, CodexProcsFacts
    <3>5. CodexPeerOK(q) /\ q.killed /\ CodexOf(q) \subseteq CodexOf(procs[c]) /\ q \in CodexTurnProcs
      BY <3>3, <3>4, CodexPeer DEF CodexPeerOK
    <3>6. ps = [procs EXCEPT ![c] = q] BY <1>4, <2>2, <3>1, <3>3 DEF X!WithoutStale
    <3>7. ps \in Seq(CodexTurnProcs) /\ Len(ps) = n
      BY <1>3, <3>2, <3>5, <3>6, CodexProcsFacts
    <3>8. \A h \in 1 .. n : ps[h] = IF h = c THEN q ELSE procs[h]
      BY <1>3, <3>2, <3>6, CodexProcsFacts
    <3> QED BY <1>3, <3>1, <3>5, <3>7, <3>8, CodexProcsFacts
  <2> QED BY <2>1, <2>2
<1>6. PICK q : q = X!Started OBVIOUS
<1>7. CodexPeerOK(q) /\ CodexOf(q) = {} /\ q \in CodexTurnProcs
  BY <1>6, CodexPeerStarted DEF CodexPeerOK
<1>8. /\ procs' \in Seq(CodexTurnProcs) /\ Len(procs') = n + 1 /\ n \in Nat
      /\ procs'[n + 1] = q
      /\ \A h \in 1 .. n : procs'[h] = ps[h]
      /\ cur' = n + 1
      /\ UNCHANGED <<token, watch, closed, faults>> /\ j.pc = "ensure"
  <2>1. procs' = Append(ps, q) /\ cur' = Len(procs') BY <1>4, <1>6 DEF X!Start
  <2>2. UNCHANGED <<token, watch, closed, faults>> /\ j.pc = "ensure" BY <1>2 DEF X!Start, X!At
  <2>3. procs' \in Seq(CodexTurnProcs) /\ Len(procs') = n + 1 /\ n \in Nat /\ procs'[n + 1] = q
    BY <1>1, <1>3, <1>5, <1>7, <2>1
  <2>4. \A h \in 1 .. n : procs'[h] = ps[h] BY <1>5, <2>1
  <2> QED BY <2>1, <2>2, <2>3, <2>4
<1>9. PICK k : k = [j EXCEPT !.pc = "handshake", !.gen = n + 1] OBVIOUS
<1>10. /\ call' = [call EXCEPT ![t] = k] /\ call'[t] = k /\ k \in CodexTurnCalls /\ k.fed = j.fed
       /\ k.cancelled = j.cancelled /\ k.gen = n + 1 /\ k.pc = "handshake"
  <2>1. call \in [X!Turns -> CodexTurnCalls] /\ j \in CodexTurnCalls BY <1>1, <1>2 DEF CodexTypes
  <2>2. call' = [call EXCEPT ![t].pc = "handshake", ![t].gen = n + 1] BY <1>8 DEF X!Start
  <2>3. call' = [call EXCEPT ![t] = k] BY <1>2, <1>9, <2>1, <2>2
  <2>4. n + 1 \in Nat BY <1>8
  <2>5. PICK m \in Nat : m = n + 1 BY <2>4
  <2>6. /\ k \in CodexTurnCalls /\ k.fed = j.fed /\ k.cancelled = j.cancelled /\ k.gen = m
        /\ k.pc = "handshake"
    BY <1>9, <2>1, <2>5 DEF CodexTurnCalls, CodexTurnPCs
  <2>7. call'[t] = k BY <2>1, <2>3
  <2> QED BY <2>3, <2>5, <2>6, <2>7
<1>11. CodexTypes'
  <2>1. cur' \in 0 .. Len(procs') BY <1>8
  <2>2. call' \in [X!Turns -> CodexTurnCalls] BY <1>1, <1>10 DEF CodexTypes
  <2>3. \A u \in X!Turns : call'[u].gen <= Len(procs')
    <3>1. call'[t].gen <= n + 1 BY <1>8, <1>10
    <3>2. ASSUME NEW u \in X!Turns \ {t} PROVE call'[u].gen <= n + 1
      <4>1. call[u].gen \in Nat /\ call[u].gen <= n BY <1>1, <1>3 DEF CodexTypes, CodexTurnCalls
      <4>2. call'[u] = call[u] BY <1>10
      <4>3. PICK m \in Nat : m = call[u].gen /\ m <= n BY <4>1
      <4>4. m <= n + 1 BY <1>8, <4>3
      <4> QED BY <4>2, <4>3, <4>4
    <3> QED BY <1>8, <3>1, <3>2
  <2> QED BY <1>1, <1>8, <2>1, <2>2, <2>3 DEF CodexTypes
<1>12. \A u \in X!Turns \ {t} : call'[u] = call[u] BY <1>10
<1>13. CodexTokenOK'
  <2>1. token' = token /\ CodexHolding(t) /\ CodexHolding(t)' BY <1>2, <1>8, <1>10 DEF CodexHolding
  <2> QED BY <1>1, <1>12, <2>1, CodexTokenStep
<1>14. ~CodexHasAsked(t) /\ \A h : ~CodexReads(t, h) /\ ~CodexReads(t, h)'
  BY <1>2, <1>8, <1>10 DEF CodexHasAsked, CodexReads
<1>15. ASSUME NEW h \in 1 .. Len(procs')
       PROVE  /\ CodexProcOK(h)'
              /\ \/ CodexLeft(h)' = {}
                 \/ /\ h \in 1 .. Len(procs) /\ CodexLeft(h)' \subseteq CodexLeft(h) \cup {t}
                    /\ t \in CodexLeft(h)' => CodexHasAsked(t)'
                    /\ \/ CodexDead(h)'
                       \/ ~CodexDead(h) /\ (t \in CodexLeft(h)' => CodexAstray(t)' \/ CodexReads(t, h)')
  <2>1. h = n + 1 \/ h \in 1 .. n BY <1>8
  <2>2. CASE h = n + 1 BY <1>7, <1>8, <2>2 DEF CodexProcOK, CodexLeft
  <2>3. CASE h \in 1 .. n
    <3>1. procs'[h] = ps[h] /\ CodexPeerOK(ps[h]) /\ ps[h].killed /\ CodexOf(ps[h]) \subseteq CodexOf(procs[h])
      BY <1>5, <1>8, <2>3
    <3>2. CodexProcOK(h)' BY <3>1 DEF CodexProcOK
    <3>3. CodexLeft(h)' \subseteq CodexLeft(h) BY <3>1 DEF CodexLeft
    <3>4. t \notin CodexLeft(h) BY <1>3, <1>14, <2>3 DEF CodexInv
    <3>5. CodexDead(h) => CodexDead(h)' BY <1>12, <1>14, <3>1 DEF CodexDead, CodexReads
    <3> QED BY <1>3, <2>3, <3>2, <3>3, <3>4, <3>5
  <2> QED BY <2>1, <2>2, <2>3
<1>16. call'[t].gen \in 1 .. Len(procs') BY <1>8, <1>10
<1>17. Len(procs') >= Len(procs) BY <1>3, <1>8
<1>18. \A e \in call'[t].fed \ {t} : e \in call[t].fed BY <1>2, <1>10
<1> QED BY <1>2, <1>10, <1>11, <1>12, <1>13, <1>14, <1>15, <1>16, <1>17, <1>18, CodexStep

(* The process at work.                                                    *)
LEMMA CodexPeerInv ==
  ASSUME TurnBounds, CodexInv,
         NEW g \in DOMAIN procs, X!PeerSays(g) \/ X!PeerDies(g) \/ X!StartedAfterClose(g)
  PROVE  CodexInv'
<1>1. CodexTypes /\ CodexTokenOK /\ g \in 1 .. Len(procs) /\ Len(procs) \in Nat
  BY DEF CodexInv, CodexTypes
<1>2. UNCHANGED <<call, token, cur, watch, closed>>
  BY DEF X!PeerSays, X!PeerDies, X!StartedAfterClose
<1>3. PICK p : p = procs[g] OBVIOUS
<1>4. CodexPeerOK(p) /\ (p.killed \/ g = cur) BY <1>1, <1>3, CodexProcsFacts
<1>5. PICK q : /\ procs' = [procs EXCEPT ![g] = q]
               /\ CodexPeerOK(q) /\ CodexOf(q) \subseteq CodexOf(p) /\ (p.killed => q.killed)
  <2>1. CASE X!PeerSays(g)
    <3>1. PICK sort \in FrameKinds : procs' = [procs EXCEPT ![g] = X!Said(p, sort)]
      BY <1>3, <2>1 DEF X!PeerSays, FrameKinds
    <3>2. X!Serves(p) /\ Len(p.out) < MaxUnread /\ ~p.killed
      BY <1>3, <1>4, <2>1 DEF X!PeerSays, X!Serves, CodexPeerOK
    <3> QED BY <1>4, <3>1, <3>2, CodexPeerSaid
  <2>2. CASE X!PeerDies(g) BY <1>3, <1>4, <2>2, CodexPeer DEF X!PeerDies
  <2>3. CASE X!StartedAfterClose(g) BY <1>3, <1>4, <2>3, CodexPeer DEF X!StartedAfterClose
  <2> QED BY <2>1, <2>2, <2>3
<1>6. q \in CodexTurnProcs BY <1>5 DEF CodexPeerOK
<1>7. /\ procs' \in Seq(CodexTurnProcs) /\ Len(procs') = Len(procs)
      /\ \A h \in 1 .. Len(procs) : procs'[h] = IF h = g THEN q ELSE procs[h]
  BY <1>1, <1>5, <1>6, CodexProcsFacts
<1>8. CodexTypes'
  <2>1. faults' \in 0 .. MaxFaults
    <3>1. faults \in Nat /\ MaxFaults \in Nat /\ faults <= MaxFaults
      BY <1>1 DEF CodexTypes, TurnBounds
    <3>2. faults' = faults \/ (faults < MaxFaults /\ faults' = faults + 1)
      BY DEF X!PeerSays, X!PeerDies, X!StartedAfterClose, X!Fault
    <3> QED BY <3>1, <3>2
  <2> QED BY <1>1, <1>2, <1>7, <2>1 DEF CodexTypes
<1>9. CodexTokenOK' BY <1>1, <1>2 DEF CodexTokenOK, CodexHolding
<1>10. 0 \notin X!Turns BY DEF X!Turns, TurnBounds
<1>11. ASSUME NEW h \in 1 .. Len(procs')
       PROVE  /\ CodexProcOK(h)' /\ h \in 1 .. Len(procs) /\ CodexLeft(h)' \subseteq CodexLeft(h) \cup {0}
              /\ 0 \notin CodexLeft(h)'
              /\ CodexDead(h) => CodexDead(h)'
  <2>1. h \in 1 .. Len(procs) /\ CodexLeft(h)' \subseteq CodexLeft(h)
    BY <1>3, <1>5, <1>7 DEF CodexLeft
  <2>2. CodexProcOK(h)' BY <1>2, <1>3, <1>4, <1>5, <1>7, <2>1, CodexProcsFacts DEF CodexProcOK
  <2>3. CodexLeft(h)' \subseteq X!Turns BY <2>2, WireWhose DEF CodexProcOK, CodexPeerOK, CodexLeft, CodexOf
  <2>4. CodexDead(h) => CodexDead(h)' BY <1>2, <1>3, <1>5, <1>7, <2>1 DEF CodexDead, CodexReads
  <2> QED BY <1>10, <2>1, <2>2, <2>3, <2>4
<1>12. Len(procs') >= Len(procs) BY <1>1, <1>7
<1> QED BY <1>2, <1>8, <1>9, <1>10, <1>11, <1>12, CodexStep

(* No step of Codex disturbs CodexInv.                                     *)
LEMMA CodexNext ==
  ASSUME TurnBounds, CodexInv, [X!Next]_(X!vars)
  PROVE  CodexInv'
<1>1. CASE UNCHANGED X!vars
  BY <1>1 DEF X!vars, CodexInv, CodexTypes, CodexTokenOK, CodexHolding, CodexOrigin, X!Misled,
    CodexTurnOK, CodexAstray, CodexProcOK,
     CodexLeft, CodexDead, CodexClean, CodexReads, CodexHasAsked
<1>2. CASE X!Next
  BY <1>2, CodexQuietInv, CodexWatchInv, CodexEndingInv, CodexEndedInv, CodexFrameInv,
    CodexSendInv, CodexStartsInv, CodexPeerInv
  DEF X!Next, X!TurnStep, X!WatchStep
<1> QED BY <1>1, <1>2

(* What CodexInv is for.                                                   *)
LEMMA CodexKeeps ==
  ASSUME TurnBounds, CodexInv
  PROVE  X!OneTurn /\ X!OwnFrames /\ X!NoneIsLost
<1>1. X!OneTurn
  <2>1. CASE token BY <2>1 DEF CodexInv, CodexTokenOK, X!OneTurn, CodexHolding
  <2>2. CASE ~token
    <3>1. PICK t \in X!Turns : CodexHolding(t) BY <2>2 DEF CodexInv, CodexTokenOK
    <3>2. {u \in X!Turns : call[u].pc \notin {"idle", "wait", "done"}} = {t}
      BY <3>1 DEF CodexInv, CodexTokenOK, CodexHolding
    <3> QED BY <2>2, <3>2 DEF X!OneTurn
  <2> QED BY <2>1, <2>2
<1>2. X!OwnFrames
  <2>1. \A t \in X!Turns : \A d \in call[t].fed \ {t} : CodexAstray(d) BY DEF CodexInv, CodexTurnOK
  <2> QED BY <2>1 DEF CodexInv, CodexOrigin, X!OwnFrames, CodexAstray
<1>3. X!NoneIsLost
  BY DEF CodexInv, CodexTypes, CodexProcOK, CodexPeerOK, X!NoneIsLost
<1> QED BY <1>1, <1>2, <1>3

-----------------------------------------------------------------------------
(* The bounds of the Claude and the omp backend.                           *)
CallBounds == MaxCalls \in Nat /\ MaxUnread \in Nat /\ MaxFaults \in Nat

(* The Claude backend.                                                     *)

ClaudeCallPCs == {"idle", "ensure", "teardown", "drain", "start", "publish", "lock", "send", "read",
            "grab", "kill", "done"}

ClaudeCallRecords ==
  [pc : ClaudeCallPCs, gen : Nat, cancelled : BOOLEAN, fed : SUBSET C!Calls,
   end : {"none", "endTurn", "cancelled", "error"}]

ClaudePeerRecords ==
  [up : BOOLEAN, killed : BOOLEAN, todo : Seq(C!Calls), out : Seq(FramesOf(C!Calls)),
   turn : 0 .. MaxCalls, lost : 0 .. 1]

ClaudeTypes ==
  /\ call \in [C!Calls -> ClaudeCallRecords]
  /\ procs \in Seq(ClaudePeerRecords)
  /\ closed \in BOOLEAN
  /\ cur \in 0 .. Len(procs)
  /\ faults \in 0 .. MaxFaults
  /\ \A c \in C!Calls : call[c].gen <= Len(procs)

ClaudeReads(c, g) == call[c].pc = "read" /\ call[c].gen = g

ClaudeLocks(c, g) == call[c].pc \in {"send", "read"} /\ call[c].gen = g

ClaudeHasAsked(c) == call[c].pc \in {"read", "grab", "kill", "done"}

ClaudeAstray(c) == call[c].cancelled \/ C!Misled(c)

ClaudePeerOK(p) ==
  /\ p \in ClaudePeerRecords /\ Wire(C!Calls, p.out, p.todo)
  /\ p.killed => ~p.up
  /\ ~p.up => p.todo = <<>>

ClaudeOf(p) == Whose(p.out, p.todo)

ClaudeLeft(g) == ClaudeOf(procs[g])

ClaudeDead(g) == procs[g].killed /\ \A c \in C!Calls : ~ClaudeReads(c, g)

ClaudeClean(g) == \A c \in ClaudeLeft(g) : ClaudeAstray(c) \/ ClaudeReads(c, g)

ClaudeCallOK(c) ==
  /\ call[c].pc \in {"teardown", "drain", "publish", "lock", "send", "read", "kill"} =>
       call[c].gen \in 1 .. Len(procs)
  /\ \A d \in call[c].fed \ {c} : ClaudeAstray(d)

ClaudeOrigin == (\E c \in C!Calls : C!Misled(c)) => \E c \in C!Calls : call[c].cancelled

(* Unlike that of Codex, the lock of turns is one of the process.          *)
ClaudeInv ==
  /\ ClaudeTypes /\ ClaudeOrigin
  /\ \A c \in C!Calls : ClaudeCallOK(c)
  /\ \A g \in 1 .. Len(procs) :
       /\ ClaudePeerOK(procs[g])
       /\ \A c \in C!Calls : procs[g].turn = c <=> ClaudeLocks(c, g)
       /\ ClaudeDead(g) \/ ClaudeClean(g)
       /\ \A c \in ClaudeLeft(g) : ClaudeHasAsked(c)

-----------------------------------------------------------------------------
(* Without calls and processes ClaudeInv holds.                            *)
LEMMA ClaudeInit ==
  ASSUME CallBounds, C!Init
  PROVE  ClaudeInv
<1>1. procs = <<>> /\ Len(procs) = 0 /\ procs \in Seq(ClaudePeerRecords) BY DEF C!Init
<1>2. \A c \in C!Calls : call[c] = C!Idle BY DEF C!Init
<1>3. C!Idle \in ClaudeCallRecords BY DEF C!Idle, ClaudeCallRecords, ClaudeCallPCs
<1>4. ClaudeTypes
  <2>1. call \in [C!Calls -> ClaudeCallRecords] BY <1>2, <1>3 DEF C!Init
  <2>2. \A c \in C!Calls : call[c].gen = 0 BY <1>2 DEF C!Idle
  <2>3. cur \in 0 .. Len(procs) /\ faults \in 0 .. MaxFaults BY <1>1 DEF C!Init, CallBounds
  <2>4. \A c \in C!Calls : call[c].gen <= Len(procs) BY <1>1, <2>2
  <2> QED BY <1>1, <2>1, <2>3, <2>4 DEF C!Init, ClaudeTypes
<1>5. ClaudeOrigin /\ \A c \in C!Calls : ClaudeCallOK(c)
  BY <1>2 DEF C!Init, ClaudeOrigin, ClaudeCallOK, C!Misled, C!Idle
<1> QED BY <1>1, <1>4, <1>5 DEF ClaudeInv

(* What an invariant part says of calls and processes.                     *)
LEMMA ClaudeFacts ==
  ASSUME ClaudeInv
  PROVE  /\ ClaudeTypes /\ Len(procs) \in Nat /\ procs \in Seq(ClaudePeerRecords)
         /\ cur \in Nat /\ cur <= Len(procs) /\ faults \in Nat
         /\ \A c \in C!Calls : /\ call[c] \in ClaudeCallRecords /\ call[c].gen \in Nat
                               /\ call[c].gen <= Len(procs)
         /\ \A g \in 1 .. Len(procs) : ClaudePeerOK(procs[g]) /\ ClaudeLeft(g) \subseteq C!Calls
<1>1. ClaudeTypes /\ \A g \in 1 .. Len(procs) : ClaudePeerOK(procs[g]) BY DEF ClaudeInv
<1>2. \A c \in C!Calls : /\ call[c] \in ClaudeCallRecords /\ call[c].gen \in Nat
                         /\ call[c].gen <= Len(procs)
  BY <1>1 DEF ClaudeTypes, ClaudeCallRecords
<1>3. \A g \in 1 .. Len(procs) : ClaudeLeft(g) \subseteq C!Calls
  BY <1>1, WireWhose DEF ClaudePeerOK, ClaudeLeft, ClaudeOf
<1>4. /\ Len(procs) \in Nat /\ procs \in Seq(ClaudePeerRecords)
      /\ cur \in Nat /\ cur <= Len(procs) /\ faults \in Nat
  BY <1>1 DEF ClaudeTypes
<1> QED BY <1>1, <1>2, <1>3, <1>4

(* The calls after a step of c, or of none of them.                        *)
LEMMA ClaudeCallsStep ==
  ASSUME ClaudeInv, ClaudeTypes', NEW c, Len(procs') >= Len(procs),
         \A u \in C!Calls \ {c} : call'[u] = call[u],
         c \in C!Calls =>
           /\ call[c].cancelled => call'[c].cancelled
           /\ call[c].fed \subseteq call'[c].fed
           /\ \A d \in call'[c].fed \ {c} : d \in call[c].fed \/ ClaudeAstray(d)
           /\ call'[c].pc \in {"teardown", "drain", "publish", "lock", "send", "read", "kill"} =>
                call'[c].gen \in 1 .. Len(procs')
  PROVE  /\ ClaudeOrigin' /\ \A u \in C!Calls : ClaudeCallOK(u)'
         /\ \A u \in C!Calls : ClaudeAstray(u) => ClaudeAstray(u)'
<1>1. /\ ClaudeTypes /\ ClaudeOrigin /\ \A u \in C!Calls : ClaudeCallOK(u)
      /\ Len(procs) \in Nat /\ Len(procs') \in Nat
  BY DEF ClaudeInv, ClaudeTypes
<1>2. \A u \in C!Calls : C!Misled(u) => C!Misled(u)'
  BY DEF C!Misled
<1>3. \A u \in C!Calls : ClaudeAstray(u) => ClaudeAstray(u)'
  BY <1>2 DEF ClaudeAstray
<1>4. ASSUME NEW u \in C!Calls PROVE ClaudeCallOK(u)'
  <2>1. call'[u].pc \in {"teardown", "drain", "publish", "lock", "send", "read", "kill"} =>
          call'[u].gen \in 1 .. Len(procs')
    <3>1. CASE u = c BY <3>1
    <3>2. CASE u # c
      <4>1. call[u].gen \in Nat BY ClaudeFacts
      <4> QED BY <1>1, <3>2, <4>1 DEF ClaudeCallOK
    <3> QED BY <3>1, <3>2
  <2>2. call[u].fed \subseteq C!Calls /\ call'[u].fed \subseteq C!Calls
    BY <1>1 DEF ClaudeTypes, ClaudeCallRecords
  <2>3. \A d \in call'[u].fed \ {u} : ClaudeAstray(d)
    BY <1>1 DEF ClaudeCallOK
  <2> QED BY <1>3, <2>1, <2>2, <2>3 DEF ClaudeCallOK
<1>5. ClaudeOrigin'
  <2>1. ASSUME NEW u \in C!Calls, C!Misled(u)' PROVE \E v \in C!Calls : call'[v].cancelled
    <3>1. PICK d \in call'[u].fed : d # u BY <2>1 DEF C!Misled
    <3>2. d \in C!Calls BY <3>1 DEF ClaudeTypes, ClaudeCallRecords
    <3>4. (\E v \in C!Calls : C!Misled(v)) \/ ClaudeAstray(d)
      BY <1>1, <3>1, <3>2 DEF ClaudeCallOK, C!Misled
    <3>5. \E v \in C!Calls : call[v].cancelled BY <1>1, <3>2, <3>4 DEF ClaudeOrigin, ClaudeAstray
    <3> QED BY <3>5
  <2> QED BY <2>1 DEF ClaudeOrigin
<1> QED BY <1>3, <1>4, <1>5

(* A step of c, or of none, that changes one process at most, g.           *)
LEMMA ClaudeStep ==
  ASSUME ClaudeInv, ClaudeTypes', NEW c, NEW g \in Nat, NEW q,
         \A u \in C!Calls \ {c} : call'[u] = call[u],
         c \in C!Calls =>
           /\ call[c].cancelled => call'[c].cancelled
           /\ call[c].fed \subseteq call'[c].fed
           /\ \A d \in call'[c].fed \ {c} : d \in call[c].fed \/ ClaudeAstray(d)
           /\ ClaudeHasAsked(c) => ClaudeHasAsked(c)'
           /\ call'[c].pc \in {"teardown", "drain", "publish", "lock", "send", "read", "kill"} =>
                call'[c].gen \in 1 .. Len(procs)
           /\ \A h \in 1 .. Len(procs) : h # g =>
                (ClaudeReads(c, h)' <=> ClaudeReads(c, h)) /\ (ClaudeLocks(c, h)' <=> ClaudeLocks(c, h)),
         Len(procs') = Len(procs),
         \A h \in 1 .. Len(procs) : procs'[h] = IF h = g THEN q ELSE procs[h],
         g \in 1 .. Len(procs) =>
           /\ ClaudePeerOK(q) /\ ClaudeOf(q) \subseteq ClaudeOf(procs[g]) \cup {c}
           /\ c \in C!Calls /\ c \in ClaudeOf(q) => ClaudeHasAsked(c)'
           /\ procs[g].killed => q.killed
           /\ \/ q.turn = procs[g].turn /\ (c \in C!Calls => (ClaudeLocks(c, g)' <=> ClaudeLocks(c, g)))
              \/ q.turn = c /\ c \in C!Calls /\ ClaudeLocks(c, g)' /\ procs[g].turn = 0
              \/ q.turn = 0 /\ c \in C!Calls /\ procs[g].turn = c /\ ~ClaudeLocks(c, g)'
           /\ \/ ClaudeOf(q) = {}
              \/ q.killed /\ \A u \in C!Calls : ~ClaudeReads(u, g)'
              \/ /\ ClaudeDead(g) /\ c \in C!Calls => ~ClaudeReads(c, g)'
                 /\ ~ClaudeDead(g) => (c \in C!Calls /\ c \in ClaudeOf(q) => ClaudeAstray(c)' \/ ClaudeReads(c, g)')
  PROVE  ClaudeInv'
<1>1. /\ ClaudeOrigin' /\ \A u \in C!Calls : ClaudeCallOK(u)'
      /\ \A u \in C!Calls : ClaudeAstray(u) => ClaudeAstray(u)'
  <2>1. Len(procs') >= Len(procs) BY ClaudeFacts
  <2> QED BY <2>1, ClaudeCallsStep
<1>2. \A h : \A u \in C!Calls \ {c} :
        (ClaudeReads(u, h)' <=> ClaudeReads(u, h)) /\ (ClaudeLocks(u, h)' <=> ClaudeLocks(u, h))
        /\ (ClaudeHasAsked(u)' <=> ClaudeHasAsked(u))
  BY DEF ClaudeReads, ClaudeLocks, ClaudeHasAsked
<1>3. 0 \notin C!Calls BY DEF C!Calls
<1>4. ASSUME NEW h \in 1 .. Len(procs')
      PROVE  /\ ClaudePeerOK(procs'[h])
             /\ \A u \in C!Calls : procs'[h].turn = u <=> ClaudeLocks(u, h)'
             /\ (ClaudeDead(h) \/ ClaudeClean(h))'
             /\ \A u \in ClaudeLeft(h)' : ClaudeHasAsked(u)'
  <2>1. /\ h \in 1 .. Len(procs) /\ ClaudePeerOK(procs[h]) /\ ClaudeLeft(h) \subseteq C!Calls
        /\ \A u \in C!Calls : procs[h].turn = u <=> ClaudeLocks(u, h)
        /\ ClaudeDead(h) \/ ClaudeClean(h)
        /\ \A u \in ClaudeLeft(h) : ClaudeHasAsked(u)
    BY ClaudeFacts DEF ClaudeInv
  <2>2. CASE h # g
    <3>1. procs'[h] = procs[h] BY <2>1, <2>2
    <3>2. ClaudeLeft(h)' = ClaudeLeft(h) BY <3>1 DEF ClaudeLeft
    <3>3. \A u \in C!Calls : (ClaudeReads(u, h)' <=> ClaudeReads(u, h)) /\ (ClaudeLocks(u, h)' <=> ClaudeLocks(u, h))
      BY <1>2, <2>1, <2>2
    <3>4. ClaudeDead(h) => ClaudeDead(h)' BY <3>1, <3>3 DEF ClaudeDead
    <3>5. ClaudeClean(h) => ClaudeClean(h)' BY <1>1, <2>1, <3>2, <3>3 DEF ClaudeClean
    <3>6. \A u \in ClaudeLeft(h)' : ClaudeHasAsked(u)' BY <1>2, <2>1, <3>2
    <3> QED BY <2>1, <3>1, <3>3, <3>4, <3>5, <3>6
  <2>3. CASE h = g
    <3>1. procs'[h] = q /\ ClaudePeerOK(q) BY <2>1, <2>3
    <3>2. ClaudeLeft(h)' = ClaudeOf(q) /\ ClaudeOf(q) \subseteq C!Calls
      BY <3>1, WireWhose DEF ClaudePeerOK, ClaudeLeft, ClaudeOf
    <3>3. ClaudeOf(q) \subseteq ClaudeLeft(h) \cup {c} BY <2>1, <2>3 DEF ClaudeLeft
    <3>4. \A u \in C!Calls : q.turn = u <=> ClaudeLocks(u, h)'
      BY <1>2, <1>3, <2>1, <2>3
    <3>5. \A u \in ClaudeLeft(h)' : ClaudeHasAsked(u)'
      <4>1. \A u \in ClaudeOf(q) \ {c} : ClaudeHasAsked(u)' BY <1>2, <2>1, <3>2, <3>3
      <4> QED BY <2>1, <2>3, <3>2, <4>1
    <3>6. (ClaudeDead(h) \/ ClaudeClean(h))'
      <4>1. CASE ClaudeOf(q) = {} BY <3>2, <4>1 DEF ClaudeClean
      <4>2. CASE q.killed /\ \A u \in C!Calls : ~ClaudeReads(u, g)'
        BY <2>3, <3>1, <4>2 DEF ClaudeDead
      <4>3. CASE /\ ClaudeDead(g) /\ c \in C!Calls => ~ClaudeReads(c, g)'
                 /\ ~ClaudeDead(g) => (c \in C!Calls /\ c \in ClaudeOf(q) => ClaudeAstray(c)' \/ ClaudeReads(c, g)')
        <5>1. CASE ClaudeDead(g)
          <6>1. q.killed BY <2>1, <2>3, <5>1 DEF ClaudeDead
          <6>2. \A u \in C!Calls : ~ClaudeReads(u, g)' BY <1>2, <4>3, <5>1 DEF ClaudeDead
          <6> QED BY <2>3, <3>1, <6>1, <6>2 DEF ClaudeDead
        <5>2. CASE ~ClaudeDead(g)
          <6>1. \A u \in ClaudeOf(q) \ {c} : ClaudeAstray(u)' \/ ClaudeReads(u, h)'
            BY <1>1, <1>2, <2>1, <2>3, <3>2, <3>3, <5>2 DEF ClaudeClean
          <6>2. ClaudeClean(h)' BY <2>3, <3>2, <4>3, <5>2, <6>1 DEF ClaudeClean
          <6> QED BY <6>2
        <5> QED BY <5>1, <5>2
      <4> QED BY <2>1, <2>3, <4>1, <4>2, <4>3
    <3> QED BY <3>1, <3>4, <3>5, <3>6
  <2> QED BY <2>2, <2>3
<1> QED BY <1>1, <1>4 DEF ClaudeInv

-----------------------------------------------------------------------------
(* What happens to a process.                                              *)
LEMMA ClaudePeer ==
  ASSUME CallBounds, NEW p, ClaudePeerOK(p)
  PROVE  /\ ClaudePeerOK(C!Killed(p)) /\ C!Killed(p).killed /\ ClaudeOf(C!Killed(p)) \subseteq ClaudeOf(p)
         /\ C!Killed(p).turn = p.turn
         /\ ClaudePeerOK(C!Died(p)) /\ C!Died(p).killed = p.killed /\ ClaudeOf(C!Died(p)) \subseteq ClaudeOf(p)
         /\ C!Died(p).turn = p.turn
         /\ ClaudePeerOK(C!Drained(p)) /\ C!Drained(p).killed = p.killed /\ ClaudeOf(C!Drained(p)) \subseteq ClaudeOf(p)
         /\ C!Drained(p).turn = p.turn
         /\ p \in ClaudePeerRecords /\ ClaudeOf(p) \subseteq C!Calls
<1>1. /\ p \in ClaudePeerRecords /\ Wire(C!Calls, p.out, p.todo) /\ Wire(C!Calls, p.out, <<>>)
      /\ Whose(p.out, <<>>) \subseteq ClaudeOf(p) /\ ClaudeOf(p) \subseteq C!Calls
      /\ <<>> \in Seq(C!Calls) /\ <<>> \in Seq(FramesOf(C!Calls))
  <2>1. p \in ClaudePeerRecords /\ Wire(C!Calls, p.out, p.todo) BY DEF ClaudePeerOK
  <2>2. Wire(C!Calls, p.out, <<>>) /\ Whose(p.out, <<>>) \subseteq ClaudeOf(p)
    BY <2>1, WireEmpty DEF ClaudeOf
  <2>3. ClaudeOf(p) \subseteq C!Calls BY <2>1, WireWhose DEF ClaudeOf
  <2>4. <<>> \in Seq(C!Calls) /\ <<>> \in Seq(FramesOf(C!Calls)) OBVIOUS
  <2> QED BY <2>1, <2>2, <2>3, <2>4
<1>2. Wire(C!Calls, <<>>, p.todo) /\ Whose(<<>>, p.todo) \subseteq ClaudeOf(p)
  BY <1>1 DEF Wire, Whose, ClaudeOf
<1>3. PICK q : q = C!Killed(p) OBVIOUS
<1>4. /\ q \in ClaudePeerRecords /\ q.up = FALSE /\ q.killed = TRUE /\ q.todo = <<>> /\ q.out = p.out
      /\ q.turn = p.turn
  BY <1>1, <1>3 DEF C!Killed, ClaudePeerRecords
<1>5. ClaudePeerOK(q) /\ ClaudeOf(q) \subseteq ClaudeOf(p) BY <1>1, <1>4 DEF ClaudePeerOK, ClaudeOf
<1>6. PICK r : r = C!Died(p) OBVIOUS
<1>7. /\ r \in ClaudePeerRecords /\ r.up = FALSE /\ r.killed = p.killed /\ r.todo = <<>> /\ r.out = p.out
      /\ r.turn = p.turn
  BY <1>1, <1>6 DEF C!Died, ClaudePeerRecords
<1>8. ClaudePeerOK(r) /\ ClaudeOf(r) \subseteq ClaudeOf(p) BY <1>1, <1>7 DEF ClaudePeerOK, ClaudeOf
<1>9. PICK s : s = C!Drained(p) OBVIOUS
<1>10. /\ s \in ClaudePeerRecords /\ s.up = p.up /\ s.killed = p.killed /\ s.todo = p.todo /\ s.out = <<>>
       /\ s.turn = p.turn
  BY <1>1, <1>9 DEF C!Drained, ClaudePeerRecords
<1>11. ClaudePeerOK(s) /\ ClaudeOf(s) \subseteq ClaudeOf(p)
  BY <1>2, <1>10 DEF ClaudePeerOK, ClaudeOf
<1> QED BY <1>1, <1>3, <1>4, <1>5, <1>6, <1>7, <1>8, <1>9, <1>10, <1>11

(* Who has the turn lock of a process changes nothing on its wire.         *)
LEMMA ClaudePeerTurn ==
  ASSUME NEW p, ClaudePeerOK(p), NEW n \in 0 .. MaxCalls
  PROVE  LET q == [p EXCEPT !.turn = n]
         IN  ClaudePeerOK(q) /\ q.turn = n /\ q.killed = p.killed /\ ClaudeOf(q) = ClaudeOf(p)
<1>1. p \in ClaudePeerRecords BY DEF ClaudePeerOK
<1>2. PICK q : q = [p EXCEPT !.turn = n] OBVIOUS
<1>3. /\ q \in ClaudePeerRecords /\ q.up = p.up /\ q.killed = p.killed /\ q.todo = p.todo /\ q.out = p.out
      /\ q.turn = n
  BY <1>1, <1>2 DEF ClaudePeerRecords
<1>4. ClaudePeerOK(q) /\ ClaudeOf(q) = ClaudeOf(p) BY <1>3 DEF ClaudePeerOK, ClaudeOf
<1> QED BY <1>2, <1>3, <1>4

ClaudeRequested(p, c, n) == [C!Asked(p, c) EXCEPT !.lost = n]

(* A request sent to a process joins its wire.                             *)
LEMMA ClaudePeerAsked ==
  ASSUME NEW p, ClaudePeerOK(p), NEW c \in C!Calls, c \notin ClaudeOf(p), NEW n \in 0 .. 1
  PROVE  LET q == ClaudeRequested(p, c, n)
         IN  ClaudePeerOK(q) /\ q.turn = p.turn /\ q.killed = p.killed /\ ClaudeOf(q) \subseteq ClaudeOf(p) \cup {c}
<1>1. p \in ClaudePeerRecords BY DEF ClaudePeerOK
<1>2. /\ Wire(C!Calls, p.out, Append(p.todo, c))
      /\ Whose(p.out, Append(p.todo, c)) \subseteq ClaudeOf(p) \cup {c}
      /\ Append(p.todo, c) \in Seq(C!Calls)
  <2>1. /\ Wire(C!Calls, p.out, Append(p.todo, c))
        /\ Whose(p.out, Append(p.todo, c)) \subseteq ClaudeOf(p) \cup {c}
    BY WireAsked DEF ClaudePeerOK, ClaudeOf
  <2> QED BY <2>1 DEF Wire
<1>3. PICK a, q : a = C!Asked(p, c) /\ q = [a EXCEPT !.lost = n] /\ q = ClaudeRequested(p, c, n)
  BY DEF ClaudeRequested
<1>4. CASE p.up
  <2>1. a = [p EXCEPT !.todo = Append(p.todo, c)] BY <1>3, <1>4 DEF C!Asked
  <2>2. /\ q \in ClaudePeerRecords /\ q.up = p.up /\ q.killed = p.killed /\ q.todo = Append(p.todo, c)
        /\ q.out = p.out /\ q.turn = p.turn
    BY <1>1, <1>2, <1>3, <2>1 DEF ClaudePeerRecords
  <2>3. ClaudePeerOK(q) /\ ClaudeOf(q) \subseteq ClaudeOf(p) \cup {c}
    BY <1>2, <1>4, <2>2 DEF ClaudePeerOK, ClaudeOf
  <2> QED BY <1>3, <2>2, <2>3
<1>5. CASE ~p.up
  <2>1. a = p BY <1>3, <1>5 DEF C!Asked
  <2>2. /\ q \in ClaudePeerRecords /\ q.up = p.up /\ q.killed = p.killed /\ q.todo = p.todo
        /\ q.out = p.out /\ q.turn = p.turn
    BY <1>1, <1>3, <2>1 DEF ClaudePeerRecords
  <2>3. ClaudePeerOK(q) /\ ClaudeOf(q) \subseteq ClaudeOf(p) \cup {c}
    BY <2>2 DEF ClaudePeerOK, ClaudeOf
  <2> QED BY <1>3, <2>2, <2>3
<1> QED BY <1>4, <1>5

(* A frame said by a process is of a request it had.                       *)
LEMMA ClaudePeerSaid ==
  ASSUME NEW p, ClaudePeerOK(p), C!Serves(p), NEW sort \in FrameKinds
  PROVE  /\ ClaudePeerOK(C!Said(p, sort)) /\ C!Said(p, sort).killed = p.killed
         /\ C!Said(p, sort).turn = p.turn /\ ClaudeOf(C!Said(p, sort)) \subseteq ClaudeOf(p)
<1> DEFINE new == Append(p.out, [kind |-> sort, of |-> Head(p.todo)])
           rest == IF sort = "final" THEN Tail(p.todo) ELSE p.todo
<1>1. /\ p \in ClaudePeerRecords /\ p.up
      /\ Wire(C!Calls, new, rest) /\ Whose(new, rest) \subseteq ClaudeOf(p)
  BY WireSaid DEF ClaudePeerOK, ClaudeOf, C!Serves
<1>2. new \in Seq(FramesOf(C!Calls)) /\ rest \in Seq(C!Calls) BY <1>1 DEF Wire
<1>3. PICK q : q = C!Said(p, sort) OBVIOUS
<1>4. q = [p EXCEPT !.out = new, !.todo = rest] BY <1>3 DEF C!Said
<1> HIDE DEF new, rest
<1>5. /\ q \in ClaudePeerRecords /\ q.up = p.up /\ q.killed = p.killed /\ q.todo = rest /\ q.out = new
      /\ q.turn = p.turn
  BY <1>1, <1>2, <1>4 DEF ClaudePeerRecords
<1>6. ClaudePeerOK(q) /\ ClaudeOf(q) \subseteq ClaudeOf(p) BY <1>1, <1>5 DEF ClaudePeerOK, ClaudeOf
<1> QED BY <1>3, <1>5, <1>6

(* A frame read from a process was on its wire.                            *)
LEMMA ClaudePeerTaken ==
  ASSUME NEW p, ClaudePeerOK(p), p.out # <<>>
  PROVE  /\ ClaudePeerOK(C!Taken(p)) /\ C!Taken(p).killed = p.killed /\ C!Taken(p).turn = p.turn
         /\ ClaudeOf(C!Taken(p)) \subseteq ClaudeOf(p)
         /\ Head(p.out).of \in ClaudeOf(p)
         /\ Head(p.out).kind = "final" => Head(p.out).of \notin ClaudeOf(C!Taken(p))
<1>1. /\ p \in ClaudePeerRecords /\ Wire(C!Calls, Tail(p.out), p.todo)
      /\ Whose(Tail(p.out), p.todo) \subseteq ClaudeOf(p) /\ Head(p.out).of \in ClaudeOf(p)
      /\ Head(p.out).kind = "final" => Head(p.out).of \notin Whose(Tail(p.out), p.todo)
  BY WireTaken DEF ClaudePeerOK, ClaudeOf
<1>2. Tail(p.out) \in Seq(FramesOf(C!Calls)) BY <1>1 DEF Wire
<1>3. PICK q : q = C!Taken(p) OBVIOUS
<1>4. /\ q \in ClaudePeerRecords /\ q.up = p.up /\ q.killed = p.killed /\ q.todo = p.todo
      /\ q.out = Tail(p.out) /\ q.turn = p.turn
  BY <1>1, <1>2, <1>3 DEF C!Taken, ClaudePeerRecords
<1>5. ClaudePeerOK(q) BY <1>1, <1>4 DEF ClaudePeerOK
<1> QED BY <1>1, <1>3, <1>4, <1>5 DEF ClaudeOf

(* A new process has an empty wire and a free turn lock.                   *)
LEMMA ClaudePeerFresh ==
  ASSUME CallBounds
  PROVE  ClaudePeerOK(C!Fresh) /\ ClaudeOf(C!Fresh) = {} /\ C!Fresh.turn = 0
<1>1. PICK q : q = C!Fresh OBVIOUS
<1>2. <<>> \in Seq(C!Calls) /\ <<>> \in Seq(FramesOf(C!Calls)) OBVIOUS
<1>3. 0 \in 0 .. MaxCalls BY DEF CallBounds
<1>4. /\ q \in ClaudePeerRecords /\ q.up = TRUE /\ q.killed = FALSE /\ q.todo = <<>> /\ q.out = <<>>
      /\ q.turn = 0
  BY <1>1, <1>2, <1>3 DEF C!Fresh, ClaudePeerRecords
<1>5. ClaudePeerOK(q) /\ ClaudeOf(q) = {} BY <1>4, WireEmpty DEF ClaudePeerOK, ClaudeOf
<1> QED BY <1>1, <1>4, <1>5

(* Types after a step of c that changes one process at most.               *)
LEMMA ClaudeTypesStep ==
  ASSUME CallBounds, ClaudeInv, closed' \in BOOLEAN,
         faults' = faults \/ (faults < MaxFaults /\ faults' = faults + 1),
         cur' \in {0, cur} \/ cur' \in 1 .. Len(procs),
         call' = call \/ \E c \in C!Calls, k \in ClaudeCallRecords :
           call' = [call EXCEPT ![c] = k] /\ k.gen <= Len(procs),
         procs' = procs \/ \E g \in 1 .. Len(procs), q \in ClaudePeerRecords : procs' = [procs EXCEPT ![g] = q]
  PROVE  ClaudeTypes' /\ Len(procs') = Len(procs)
<1>1. procs' \in Seq(ClaudePeerRecords) /\ Len(procs') = Len(procs) BY ClaudeFacts
<1>2. faults' \in 0 .. MaxFaults
  <2>1. \A n, m \in Nat : n < m => n + 1 \in 0 .. m OBVIOUS
  <2>2. faults \in 0 .. MaxFaults BY ClaudeFacts DEF ClaudeTypes
  <2>3. faults \in Nat /\ MaxFaults \in Nat BY ClaudeFacts DEF CallBounds
  <2>4. faults < MaxFaults => faults + 1 \in 0 .. MaxFaults BY <2>1, <2>3
  <2> QED BY <2>2, <2>4
<1>3. cur' \in 0 .. Len(procs') BY <1>1, ClaudeFacts
<1>4. call' \in [C!Calls -> ClaudeCallRecords] BY ClaudeFacts DEF ClaudeTypes
<1>5. \A u \in C!Calls : call'[u].gen <= Len(procs') BY <1>1, ClaudeFacts DEF ClaudeTypes
<1> QED BY <1>1, <1>2, <1>3, <1>4, <1>5 DEF ClaudeTypes

-----------------------------------------------------------------------------
(* A call goes on without touching a process.                              *)
LEMMA ClaudeCallsInv ==
  ASSUME CallBounds, ClaudeInv, NEW c \in C!Calls,
         \/ C!Call(c) \/ C!EnsureClosed(c) \/ C!Reuse(c) \/ C!Replace(c) \/ C!StartFails(c) \/ C!Publish(c)
         \/ C!Grab(c) \/ C!Cancel(c)
  PROVE  ClaudeInv'
<1>1. PICK j : j = call[c] OBVIOUS
<1>2. PICK k : k = call'[c] OBVIOUS
<1>3. /\ ClaudeTypes /\ j \in ClaudeCallRecords /\ j.gen \in Nat /\ j.gen <= Len(procs)
      /\ cur \in Nat /\ cur <= Len(procs) /\ Len(procs) \in Nat
  BY <1>1, ClaudeFacts
<1>4. /\ UNCHANGED <<procs, closed>>
      /\ faults' = faults \/ (faults < MaxFaults /\ faults' = faults + 1)
  BY DEF C!Call, C!EnsureClosed, C!Reuse, C!Replace, C!StartFails, C!Publish, C!Grab, C!Cancel,
    C!Fault
<1>5. /\ call' = [call EXCEPT ![c] = k] /\ k \in ClaudeCallRecords /\ k.fed = j.fed
      /\ j.cancelled => k.cancelled
      /\ \/ k.gen = j.gen
         \/ k.gen = cur /\ k.pc \notin {"read", "send"} /\ j.pc \notin {"read", "send"}
  <2>1. call \in [C!Calls -> ClaudeCallRecords] BY <1>3 DEF ClaudeTypes
  <2>2. PICK pc \in {"ensure", "teardown", "start", "lock", "kill", "done"} :
          /\ \/ call' = [call EXCEPT ![c].pc = pc]
             \/ call' = [call EXCEPT ![c].pc = pc, ![c].end = "error"]
             \/ call' = [call EXCEPT ![c].pc = pc, ![c].gen = cur] /\ j.pc \in {"ensure", "grab"}
             \/ call' = [call EXCEPT ![c].cancelled = TRUE]
    BY <1>1 DEF C!Call, C!EnsureClosed, C!Reuse, C!Replace, C!StartFails, C!Publish, C!Grab,
      C!Cancel, C!Goto, C!Refuse, C!At
  <2>3. /\ call' = [call EXCEPT ![c] = k]
        /\ \/ k = [j EXCEPT !.pc = pc]
           \/ k = [j EXCEPT !.pc = pc, !.end = "error"]
           \/ k = [j EXCEPT !.pc = pc, !.gen = cur] /\ j.pc \in {"ensure", "grab"}
           \/ k = [j EXCEPT !.cancelled = TRUE]
    BY <1>1, <1>2, <2>1, <2>2
  <2> QED BY <1>3, <2>3 DEF ClaudeCallRecords, ClaudeCallPCs
<1>6. /\ \/ j.pc = "idle" /\ k.pc = "ensure" /\ cur' = cur
         \/ j.pc \in {"ensure", "start"} /\ k.pc = "done" /\ cur' = cur
         \/ j.pc = "ensure" /\ k.pc = "lock" /\ k.gen = cur /\ cur # 0 /\ cur' = cur
         \/ j.pc = "ensure" /\ k.pc = "start" /\ cur' = 0
         \/ j.pc = "ensure" /\ k.pc = "teardown" /\ k.gen = cur /\ cur # 0 /\ cur' = 0
         \/ j.pc = "publish" /\ k.pc = "lock" /\ k.gen = j.gen /\ cur' = j.gen
         \/ j.pc = "grab" /\ k.pc = "done" /\ cur' = 0
         \/ j.pc = "grab" /\ k.pc = "kill" /\ k.gen = cur /\ cur # 0 /\ cur' = 0
         \/ j.pc = k.pc /\ k.gen = j.gen /\ cur' = cur
  BY <1>1, <1>2, <1>3
  DEF C!Call, C!EnsureClosed, C!Reuse, C!Replace, C!StartFails, C!Publish, C!Grab, C!Cancel, C!At,
    C!Goto, C!Refuse, ClaudeTypes,
      ClaudeCallRecords
<1>7. /\ cur # 0 => cur \in 1 .. Len(procs)
      /\ j.pc \in {"teardown", "drain", "publish", "lock", "send", "read", "kill"} =>
           j.gen \in 1 .. Len(procs)
  BY <1>1, <1>3 DEF ClaudeInv, ClaudeCallOK
<1>8. ClaudeTypes'
  <2>1. k.gen <= Len(procs) BY <1>3, <1>5
  <2>2. cur' \in {0, cur} \/ cur' \in 1 .. Len(procs) BY <1>6, <1>7
  <2>3. closed' \in BOOLEAN BY <1>3, <1>4 DEF ClaudeTypes
  <2> QED BY <1>4, <1>5, <2>1, <2>2, <2>3, ClaudeTypesStep
<1>9. /\ ClaudeHasAsked(c) => ClaudeHasAsked(c)'
      /\ \A h \in 1 .. Len(procs) : (ClaudeReads(c, h)' <=> ClaudeReads(c, h)) /\ (ClaudeLocks(c, h)' <=> ClaudeLocks(c, h))
  <2>1. j.pc \in {"read", "send"} \/ k.pc \in {"read", "send"} => j.pc = k.pc /\ j.gen = k.gen
    BY <1>6
  <2> QED BY <1>1, <1>2, <1>6, <2>1 DEF ClaudeHasAsked, ClaudeReads, ClaudeLocks
<1>10. k.pc \in {"teardown", "drain", "publish", "lock", "send", "read", "kill"} =>
         k.gen \in 1 .. Len(procs)
  BY <1>6, <1>7
<1>11. 0 \notin 1 .. Len(procs) BY <1>3
<1>12. \A u \in C!Calls \ {c} : call'[u] = call[u] BY <1>5
<1>13. \A h \in 1 .. Len(procs) : procs'[h] = IF h = 0 THEN 0 ELSE procs[h] BY <1>4, <1>11
<1> QED BY <1>1, <1>2, <1>4, <1>5, <1>8, <1>9, <1>10, <1>11, <1>12, <1>13, ClaudeStep

(* A call tears a process down that it does not have the turn lock of.     *)
LEMMA ClaudeTearsInv ==
  ASSUME CallBounds, ClaudeInv, NEW c \in C!Calls,
         C!Teardown(c) \/ C!Drain(c) \/ C!PublishClosed(c) \/ C!Kill(c)
  PROVE  ClaudeInv'
<1>1. PICK j : j = call[c] OBVIOUS
<1>2. PICK k : k = call'[c] OBVIOUS
<1>3. PICK g : g = j.gen OBVIOUS
<1>4. PICK p : p = procs[g] OBVIOUS
<1>5. /\ ClaudeTypes /\ j \in ClaudeCallRecords /\ g \in Nat /\ g <= Len(procs) /\ Len(procs) \in Nat
      /\ UNCHANGED <<cur, closed, faults>>
  BY <1>1, <1>3, ClaudeFacts DEF C!Teardown, C!Drain, C!PublishClosed, C!Kill
<1>6. /\ call' = [call EXCEPT ![c] = k] /\ k \in ClaudeCallRecords /\ k.fed = j.fed
      /\ k.cancelled = j.cancelled /\ k.gen = g
      /\ \/ j.pc = "teardown" /\ k.pc = "drain"
         \/ j.pc = "drain" /\ k.pc = "start"
         \/ j.pc = "publish" /\ k.pc = "done"
         \/ j.pc = "kill" /\ k.pc = "done"
  <2>1. call \in [C!Calls -> ClaudeCallRecords] BY <1>5 DEF ClaudeTypes
  <2>2. /\ call' = [call EXCEPT ![c] = k]
        /\ \/ k = [j EXCEPT !.pc = "drain"] /\ j.pc = "teardown"
           \/ k = [j EXCEPT !.pc = "start"] /\ j.pc = "drain"
           \/ k = [j EXCEPT !.pc = "done", !.end = "error"] /\ j.pc = "publish"
           \/ k = [j EXCEPT !.pc = "done"] /\ j.pc = "kill"
    BY <1>1, <1>2, <2>1 DEF C!Teardown, C!Drain, C!PublishClosed, C!Kill, C!Goto, C!Refuse, C!At
  <2> QED BY <1>3, <1>5, <2>2 DEF ClaudeCallRecords, ClaudeCallPCs
<1>7. g \in 1 .. Len(procs) BY <1>1, <1>3, <1>6 DEF ClaudeInv, ClaudeCallOK
<1>8. ClaudePeerOK(p) BY <1>4, <1>7, ClaudeFacts
<1>9. PICK q : /\ procs' = [procs EXCEPT ![g] = q]
               /\ ClaudePeerOK(q) /\ ClaudeOf(q) \subseteq ClaudeOf(p) /\ (p.killed => q.killed) /\ q.turn = p.turn
  <2>1. /\ ClaudePeerOK(C!Killed(p)) /\ C!Killed(p).killed /\ ClaudeOf(C!Killed(p)) \subseteq ClaudeOf(p)
        /\ C!Killed(p).turn = p.turn
        /\ ClaudePeerOK(C!Drained(p)) /\ C!Drained(p).killed = p.killed /\ ClaudeOf(C!Drained(p)) \subseteq ClaudeOf(p)
        /\ C!Drained(p).turn = p.turn
    BY <1>8, ClaudePeer
  <2>2. PICK r : r = C!Killed(p) OBVIOUS
  <2>3. /\ ClaudePeerOK(C!Drained(r)) /\ C!Drained(r).killed = r.killed /\ ClaudeOf(C!Drained(r)) \subseteq ClaudeOf(r)
        /\ C!Drained(r).turn = r.turn
    BY <2>1, <2>2, ClaudePeer
  <2>4. \/ procs' = [procs EXCEPT ![g] = r] \/ procs' = [procs EXCEPT ![g] = C!Drained(p)]
        \/ procs' = [procs EXCEPT ![g] = C!Drained(r)]
    BY <1>1, <1>3, <1>4, <2>2 DEF C!Teardown, C!Drain, C!PublishClosed, C!Kill
  <2>5. CASE procs' = [procs EXCEPT ![g] = r] BY <2>1, <2>2, <2>5
  <2>6. CASE procs' = [procs EXCEPT ![g] = C!Drained(p)] BY <2>1, <2>6
  <2>7. CASE procs' = [procs EXCEPT ![g] = C!Drained(r)] BY <2>1, <2>2, <2>3, <2>7
  <2> QED BY <2>4, <2>5, <2>6, <2>7
<1>10. q \in ClaudePeerRecords BY <1>9 DEF ClaudePeerOK
<1>11. \A h \in 1 .. Len(procs) : procs'[h] = IF h = g THEN q ELSE procs[h]
  BY <1>7, <1>9, <1>10, ClaudeFacts
<1>12. ClaudeTypes' /\ Len(procs') = Len(procs)
  <2>1. closed' \in BOOLEAN BY <1>5 DEF ClaudeTypes
  <2> QED BY <1>5, <1>6, <1>7, <1>9, <1>10, <2>1, ClaudeTypesStep
<1>13. /\ ClaudeHasAsked(c) => ClaudeHasAsked(c)'
       /\ \A h : ~ClaudeReads(c, h)' /\ ~ClaudeReads(c, h) /\ ~ClaudeLocks(c, h)' /\ ~ClaudeLocks(c, h)
  BY <1>1, <1>2, <1>6 DEF ClaudeHasAsked, ClaudeReads, ClaudeLocks
<1>14. c \in ClaudeOf(q) => ClaudeHasAsked(c) /\ (~ClaudeDead(g) => ClaudeAstray(c))
  <2>1. c \in ClaudeOf(q) => c \in ClaudeLeft(g) BY <1>4, <1>9 DEF ClaudeLeft
  <2> QED BY <1>7, <1>13, <2>1 DEF ClaudeInv, ClaudeClean
<1>15. ClaudeAstray(c) => ClaudeAstray(c)' BY <1>1, <1>2, <1>6 DEF ClaudeAstray, C!Misled
<1>16. k.pc \in {"teardown", "drain", "publish", "lock", "send", "read", "kill"} =>
         k.gen \in 1 .. Len(procs)
  BY <1>6, <1>7
<1>17. \A u \in C!Calls \ {c} : call'[u] = call[u] BY <1>6
<1>18. ClaudeOf(q) \subseteq ClaudeOf(procs[g]) \cup {c} /\ q.turn = procs[g].turn /\ (procs[g].killed => q.killed)
  BY <1>4, <1>9
<1>19. /\ call[c].cancelled => call'[c].cancelled
       /\ call[c].fed \subseteq call'[c].fed
       /\ \A d \in call'[c].fed \ {c} : d \in call[c].fed \/ ClaudeAstray(d)
       /\ call'[c].pc \in {"teardown", "drain", "publish", "lock", "send", "read", "kill"} =>
            call'[c].gen \in 1 .. Len(procs)
       /\ \A h \in 1 .. Len(procs) : h # g =>
            (ClaudeReads(c, h)' <=> ClaudeReads(c, h)) /\ (ClaudeLocks(c, h)' <=> ClaudeLocks(c, h))
  BY <1>1, <1>2, <1>6, <1>13, <1>16
<1>20. /\ ClaudePeerOK(q) /\ (c \in ClaudeOf(q) => ClaudeHasAsked(c)')
       /\ q.turn = procs[g].turn /\ (ClaudeLocks(c, g)' <=> ClaudeLocks(c, g))
       /\ ClaudeDead(g) => ~ClaudeReads(c, g)'
       /\ ~ClaudeDead(g) => (c \in ClaudeOf(q) => ClaudeAstray(c)' \/ ClaudeReads(c, g)')
  BY <1>9, <1>13, <1>14, <1>15, <1>18
<1> QED BY <1>5, <1>11, <1>12, <1>13, <1>17, <1>18, <1>19, <1>20, ClaudeStep

(* A call starts a process of its own, which no one else reads yet.        *)
LEMMA ClaudeStartsInv ==
  ASSUME CallBounds, ClaudeInv, NEW c \in C!Calls, C!Start(c)
  PROVE  ClaudeInv'
<1>1. PICK j : j = call[c] OBVIOUS
<1>2. PICK n : n = Len(procs) OBVIOUS
<1>3. /\ ClaudeTypes /\ j \in ClaudeCallRecords /\ n \in Nat /\ procs \in Seq(ClaudePeerRecords)
      /\ UNCHANGED <<cur, closed, faults>> /\ j.pc = "start"
      /\ cur \in Nat /\ cur <= n
  BY <1>1, <1>2, ClaudeFacts DEF C!Start, C!At
<1>4. PICK q : q = C!Fresh OBVIOUS
<1>5. ClaudePeerOK(q) /\ ClaudeOf(q) = {} /\ q.turn = 0 /\ q \in ClaudePeerRecords
  BY <1>4, ClaudePeerFresh DEF ClaudePeerOK
<1>6. /\ procs' \in Seq(ClaudePeerRecords) /\ Len(procs') = n + 1 /\ procs'[n + 1] = q
      /\ \A h \in 1 .. n : procs'[h] = procs[h]
  <2>1. procs' = Append(procs, q) BY <1>4 DEF C!Start
  <2> QED BY <1>2, <1>3, <1>5, <2>1
<1>7. PICK m \in Nat : m = n + 1 BY <1>3
<1>8. PICK k : k = [j EXCEPT !.pc = "publish", !.gen = m] OBVIOUS
<1>9. /\ call' = [call EXCEPT ![c] = k] /\ call'[c] = k /\ k \in ClaudeCallRecords /\ k.fed = j.fed
      /\ k.cancelled = j.cancelled /\ k.gen = m /\ k.pc = "publish"
  <2>1. call \in [C!Calls -> ClaudeCallRecords] /\ j \in ClaudeCallRecords
    BY <1>1, <1>3 DEF ClaudeTypes
  <2>2. call' = [call EXCEPT ![c].pc = "publish", ![c].gen = m] BY <1>6, <1>7 DEF C!Start
  <2>3. call' = [call EXCEPT ![c] = k] BY <1>1, <1>8, <2>1, <2>2
  <2>4. call'[c] = k BY <2>1, <2>3
  <2>5. /\ k \in ClaudeCallRecords /\ k.fed = j.fed
        /\ k.cancelled = j.cancelled /\ k.gen = m /\ k.pc = "publish"
    BY <1>8, <2>1 DEF ClaudeCallRecords, ClaudeCallPCs
  <2> QED BY <2>3, <2>4, <2>5
<1>10. \A u \in C!Calls \ {c} : call'[u] = call[u] BY <1>9
<1>11. \A i \in Nat : i <= n => i <= n + 1 BY <1>3
<1>12. ClaudeTypes'
  <2>1. call' \in [C!Calls -> ClaudeCallRecords] BY <1>3, <1>9 DEF ClaudeTypes
  <2>2. ASSUME NEW u \in C!Calls PROVE call'[u].gen <= n + 1
    <3>1. CASE u = c BY <1>7, <1>9, <3>1
    <3>2. CASE u # c
      <4>1. call[u].gen \in Nat /\ call[u].gen <= n BY <1>2, ClaudeFacts
      <4> QED BY <1>10, <1>11, <3>2, <4>1
    <3> QED BY <3>1, <3>2
  <2>3. cur' \in 0 .. n + 1 BY <1>3
  <2> QED BY <1>3, <1>6, <2>1, <2>2, <2>3 DEF ClaudeTypes
<1>13. /\ ClaudeOrigin' /\ \A u \in C!Calls : ClaudeCallOK(u)'
       /\ \A u \in C!Calls : ClaudeAstray(u) => ClaudeAstray(u)'
  <2>1. m \in 1 .. Len(procs') /\ Len(procs') >= Len(procs) BY <1>2, <1>3, <1>6, <1>7
  <2> QED BY <1>1, <1>9, <1>10, <1>12, <2>1, ClaudeCallsStep
<1>14. /\ \A h : ~ClaudeReads(c, h)' /\ ~ClaudeReads(c, h) /\ ~ClaudeLocks(c, h)' /\ ~ClaudeLocks(c, h)
       /\ \A h : \A u \in C!Calls \ {c} :
            (ClaudeReads(u, h)' <=> ClaudeReads(u, h)) /\ (ClaudeLocks(u, h)' <=> ClaudeLocks(u, h))
            /\ (ClaudeHasAsked(u)' <=> ClaudeHasAsked(u))
  BY <1>1, <1>3, <1>9, <1>10 DEF ClaudeReads, ClaudeLocks, ClaudeHasAsked
<1>15. ASSUME NEW h \in 1 .. Len(procs')
       PROVE  /\ ClaudePeerOK(procs'[h])
              /\ \A u \in C!Calls : procs'[h].turn = u <=> ClaudeLocks(u, h)'
              /\ (ClaudeDead(h) \/ ClaudeClean(h))'
              /\ \A u \in ClaudeLeft(h)' : ClaudeHasAsked(u)'
  <2>1. h = m \/ h \in 1 .. n BY <1>3, <1>6, <1>7
  <2>2. CASE h = m
    <3>1. procs'[h] = q BY <1>6, <1>7, <2>2
    <3>2. \A u \in C!Calls : ~ClaudeLocks(u, h)'
      <4>1. ASSUME NEW u \in C!Calls \ {c} PROVE ~ClaudeLocks(u, m)
        <5>1. call[u].gen \in Nat /\ call[u].gen <= n BY <1>2, ClaudeFacts
        <5>2. call[u].gen # m BY <1>3, <1>7, <5>1
        <5> QED BY <5>2 DEF ClaudeLocks
      <4> QED BY <1>14, <2>2, <4>1
    <3>3. 0 \notin C!Calls BY DEF C!Calls
    <3>4. ClaudeLeft(h)' = {} BY <1>5, <3>1 DEF ClaudeLeft
    <3> QED BY <1>5, <3>1, <3>2, <3>3, <3>4 DEF ClaudeClean
  <2>3. CASE h \in 1 .. n
    <3>1. /\ procs'[h] = procs[h] /\ ClaudePeerOK(procs[h]) /\ ClaudeLeft(h) \subseteq C!Calls
          /\ \A u \in C!Calls : procs[h].turn = u <=> ClaudeLocks(u, h)
          /\ ClaudeDead(h) \/ ClaudeClean(h)
          /\ \A u \in ClaudeLeft(h) : ClaudeHasAsked(u)
      BY <1>2, <1>6, <2>3, ClaudeFacts DEF ClaudeInv
    <3>2. ClaudeLeft(h)' = ClaudeLeft(h) BY <3>1 DEF ClaudeLeft
    <3>3. c \notin ClaudeLeft(h) BY <1>1, <1>3, <3>1 DEF ClaudeHasAsked
    <3>4. \A u \in C!Calls : procs'[h].turn = u <=> ClaudeLocks(u, h)' BY <1>14, <3>1
    <3>5. ClaudeDead(h) => ClaudeDead(h)' BY <1>14, <3>1 DEF ClaudeDead
    <3>6. ClaudeClean(h) => ClaudeClean(h)' BY <1>13, <1>14, <3>1, <3>2 DEF ClaudeClean
    <3>7. \A u \in ClaudeLeft(h)' : ClaudeHasAsked(u)' BY <1>14, <3>1, <3>2, <3>3
    <3> QED BY <3>1, <3>4, <3>5, <3>6, <3>7
  <2> QED BY <2>1, <2>2, <2>3
<1> QED BY <1>12, <1>13, <1>15 DEF ClaudeInv

-----------------------------------------------------------------------------
(* The process of a call that has, or may have, its turn lock.             *)
LEMMA ClaudeTurnOwner ==
  ASSUME CallBounds, ClaudeInv, NEW c \in C!Calls, call[c].pc \in {"lock", "send", "read"}
  PROVE  /\ call[c] \in ClaudeCallRecords /\ call \in [C!Calls -> ClaudeCallRecords]
         /\ call[c].gen \in 1 .. Len(procs) /\ ClaudePeerOK(procs[call[c].gen])
         /\ procs \in Seq(ClaudePeerRecords)
         /\ call[c].pc # "lock" =>
              procs[call[c].gen].turn = c /\ \A u \in C!Calls \ {c} : ~ClaudeReads(u, call[c].gen)
<1>1. PICK g : g = call[c].gen OBVIOUS
<1>2. /\ g \in 1 .. Len(procs) /\ ClaudePeerOK(procs[g])
      /\ \A u \in C!Calls : procs[g].turn = u <=> ClaudeLocks(u, g)
  BY <1>1 DEF ClaudeInv, ClaudeCallOK
<1>3. call[c].pc # "lock" => ClaudeLocks(c, g) BY <1>1 DEF ClaudeLocks
<1>4. \A u \in C!Calls : ClaudeReads(u, g) => procs[g].turn = u BY <1>2 DEF ClaudeReads, ClaudeLocks
<1>5. call[c].pc # "lock" => procs[g].turn = c /\ \A u \in C!Calls \ {c} : ~ClaudeReads(u, g)
  BY <1>2, <1>3, <1>4
<1>6. ClaudeTypes BY DEF ClaudeInv
<1> QED BY <1>1, <1>2, <1>5, <1>6 DEF ClaudeTypes

(* A step of c, which may have the turn lock, and of its process.          *)
LEMMA ClaudeTurnInv ==
  ASSUME CallBounds, ClaudeInv, NEW c \in C!Calls, call[c].pc \in {"lock", "send", "read"},
         NEW k \in ClaudeCallRecords, call' = [call EXCEPT ![c] = k],
         call[c].cancelled => k.cancelled, call[c].fed \subseteq k.fed, k.gen = call[c].gen,
         \A d \in k.fed \ {c} : d \in call[c].fed \/ ClaudeAstray(d),
         k.pc \in {"send", "read", "grab", "done"}, call[c].pc = "read" => k.pc # "send",
         NEW g, g = call[c].gen, NEW q, procs' = [procs EXCEPT ![g] = q],
         ClaudePeerOK(q), ClaudeOf(q) \subseteq ClaudeOf(procs[g]) \cup {c}, c \in ClaudeOf(q) => k.pc # "send",
         procs[g].killed => q.killed,
         \/ q.turn = procs[g].turn /\ call[c].pc # "lock" /\ k.pc \in {"send", "read"}
         \/ q.turn = c /\ procs[g].turn = 0 /\ k.pc \in {"send", "read"}
         \/ q.turn = 0 /\ call[c].pc # "lock" /\ k.pc \in {"grab", "done"},
         \/ ClaudeOf(q) = {}
         \/ call[c].pc # "lock" /\ q.killed /\ k.pc # "read"
         \/ ~ClaudeDead(g) /\ (c \in ClaudeOf(q) => k.cancelled \/ k.fed \ {c} # {} \/ k.pc = "read")
         \/ call[c].pc = "lock" /\ k.pc = "send",
         UNCHANGED <<cur, closed, faults>>
  PROVE  ClaudeInv'
<1>1. PICK j : j = call[c] OBVIOUS
<1>2. /\ j \in ClaudeCallRecords /\ call \in [C!Calls -> ClaudeCallRecords] /\ procs \in Seq(ClaudePeerRecords)
      /\ g \in 1 .. Len(procs) /\ ClaudePeerOK(procs[g])
      /\ j.pc # "lock" => procs[g].turn = c /\ \A u \in C!Calls \ {c} : ~ClaudeReads(u, g)
  BY <1>1, ClaudeTurnOwner
<1>3. call'[c] = k /\ \A u \in C!Calls \ {c} : call'[u] = call[u] BY <1>2
<1>4. q \in ClaudePeerRecords BY DEF ClaudePeerOK
<1>5. /\ \A h \in 1 .. Len(procs) : procs'[h] = IF h = g THEN q ELSE procs[h]
      /\ g \in Nat
  BY <1>2, <1>4
<1>6. ClaudeTypes' /\ Len(procs') = Len(procs)
  <2>1. closed' \in BOOLEAN BY DEF ClaudeInv, ClaudeTypes
  <2>2. k.gen <= Len(procs) BY <1>2
  <2> QED BY <1>2, <1>4, <2>1, <2>2, ClaudeTypesStep
<1>7. /\ \A h : h # g => ~ClaudeReads(c, h)' /\ ~ClaudeReads(c, h) /\ ~ClaudeLocks(c, h)' /\ ~ClaudeLocks(c, h)
      /\ ClaudeReads(c, g)' <=> k.pc = "read"
      /\ ClaudeLocks(c, g)' <=> k.pc \in {"send", "read"}
      /\ ClaudeLocks(c, g) <=> j.pc \in {"send", "read"}
      /\ ClaudeHasAsked(c) => ClaudeHasAsked(c)'
      /\ ClaudeHasAsked(c)' <=> k.pc # "send"
  BY <1>1, <1>3 DEF ClaudeReads, ClaudeLocks, ClaudeHasAsked
<1>8. /\ call[c].cancelled => call'[c].cancelled
      /\ call[c].fed \subseteq call'[c].fed
      /\ \A d \in call'[c].fed \ {c} : d \in call[c].fed \/ ClaudeAstray(d)
      /\ call'[c].pc \in {"teardown", "drain", "publish", "lock", "send", "read", "kill"} =>
           call'[c].gen \in 1 .. Len(procs)
      /\ \A h \in 1 .. Len(procs) : h # g =>
           (ClaudeReads(c, h)' <=> ClaudeReads(c, h)) /\ (ClaudeLocks(c, h)' <=> ClaudeLocks(c, h))
  BY <1>2, <1>3, <1>7
<1>9. \/ q.turn = procs[g].turn /\ (ClaudeLocks(c, g)' <=> ClaudeLocks(c, g))
      \/ q.turn = c /\ ClaudeLocks(c, g)' /\ procs[g].turn = 0
      \/ q.turn = 0 /\ procs[g].turn = c /\ ~ClaudeLocks(c, g)'
  BY <1>1, <1>2, <1>7
<1>10. k.cancelled \/ k.fed \ {c} # {} => ClaudeAstray(c)' BY <1>3 DEF ClaudeAstray, C!Misled
<1>11. \/ ClaudeOf(q) = {}
       \/ q.killed /\ \A u \in C!Calls : ~ClaudeReads(u, g)'
       \/ /\ ClaudeDead(g) => ~ClaudeReads(c, g)'
          /\ ~ClaudeDead(g) => (c \in ClaudeOf(q) => ClaudeAstray(c)' \/ ClaudeReads(c, g)')
  <2>1. CASE j.pc # "lock" /\ q.killed /\ k.pc # "read"
    <3>1. \A u \in C!Calls \ {c} : ~ClaudeReads(u, g)' BY <1>2, <1>3, <2>1 DEF ClaudeReads
    <3> QED BY <1>7, <2>1, <3>1
  <2>2. CASE ~ClaudeDead(g) /\ (c \in ClaudeOf(q) => k.cancelled \/ k.fed \ {c} # {} \/ k.pc = "read")
    BY <1>7, <1>10, <2>2
  <2>3. CASE j.pc = "lock" /\ k.pc = "send" BY <1>7, <2>3
  <2> QED BY <1>1, <2>1, <2>2, <2>3
<1>12. /\ ClaudePeerOK(q) /\ ClaudeOf(q) \subseteq ClaudeOf(procs[g]) \cup {c}
       /\ c \in ClaudeOf(q) => ClaudeHasAsked(c)'
       /\ procs[g].killed => q.killed
  BY <1>7
<1> QED BY <1>3, <1>5, <1>6, <1>7, <1>8, <1>9, <1>11, <1>12, ClaudeStep

(* A call takes the turn lock of its process and sends its request.        *)
LEMMA ClaudeLockSendInv ==
  ASSUME CallBounds, ClaudeInv, NEW c \in C!Calls, C!Lock(c) \/ C!Send(c)
  PROVE  ClaudeInv'
<1>1. PICK j : j = call[c] OBVIOUS
<1>2. PICK g : g = j.gen OBVIOUS
<1>3. PICK p : p = procs[g] OBVIOUS
<1>4. /\ j.pc \in {"lock", "send"} /\ UNCHANGED <<cur, closed, faults>>
  BY <1>1 DEF C!Lock, C!Send, C!At
<1>5. j \in ClaudeCallRecords /\ call \in [C!Calls -> ClaudeCallRecords] /\ g \in 1 .. Len(procs) /\ ClaudePeerOK(p)
  BY <1>1, <1>2, <1>3, <1>4, ClaudeTurnOwner
<1>6. c \notin ClaudeOf(p)
  <2>1. ~ClaudeHasAsked(c) BY <1>1, <1>4 DEF ClaudeHasAsked
  <2> QED BY <1>3, <1>5, <2>1 DEF ClaudeInv, ClaudeLeft
<1>7. c \in 0 .. MaxCalls BY DEF C!Calls, CallBounds
<1>8. CASE C!Lock(c)
  <2>1. PICK q : q = [p EXCEPT !.turn = c] OBVIOUS
  <2>2. PICK k : k = [j EXCEPT !.pc = "send"] OBVIOUS
  <2>3. /\ call' = [call EXCEPT ![c] = k] /\ k \in ClaudeCallRecords /\ k.fed = j.fed
        /\ k.cancelled = j.cancelled /\ k.gen = g /\ k.pc = "send"
    <3>1. call' = [call EXCEPT ![c] = k] BY <1>1, <1>5, <1>8, <2>2 DEF C!Lock, C!Goto
    <3> QED BY <1>2, <1>5, <2>2, <3>1 DEF ClaudeCallRecords, ClaudeCallPCs
  <2>4. procs' = [procs EXCEPT ![g] = q] /\ p.turn = 0 /\ j.pc = "lock"
    BY <1>1, <1>2, <1>3, <1>8, <2>1 DEF C!Lock, C!At, C!Proc
  <2>5. ClaudePeerOK(q) /\ q.turn = c /\ q.killed = p.killed /\ ClaudeOf(q) = ClaudeOf(p)
    BY <1>5, <1>7, <2>1, ClaudePeerTurn
  <2>6. ClaudeOf(q) \subseteq ClaudeOf(procs[g]) \cup {c} /\ (c \in ClaudeOf(q) => k.pc # "send")
    BY <1>3, <1>6, <2>5
  <2>7. /\ call[c].pc = "lock" /\ k.pc = "send" /\ q.turn = c /\ procs[g].turn = 0
        /\ procs[g].killed => q.killed
    BY <1>1, <1>3, <2>3, <2>4, <2>5
  <2>8. \A d \in k.fed \ {c} : d \in call[c].fed \/ ClaudeAstray(d) BY <1>1, <2>3
  <2>9. /\ call[c].cancelled => k.cancelled
        /\ call[c].fed \subseteq k.fed /\ k.gen = call[c].gen /\ g = call[c].gen
    BY <1>1, <1>2, <2>3
  <2> QED BY <1>4, <2>3, <2>4, <2>5, <2>6, <2>7, <2>8, <2>9, ClaudeTurnInv
<1>9. CASE C!Send(c)
  <2>1. PICK n \in 0 .. 1 : n = IF p.up THEN 0 ELSE 1 OBVIOUS
  <2>2. PICK q : q = ClaudeRequested(p, c, n) OBVIOUS
  <2>3. PICK k : k = [j EXCEPT !.pc = "read"] OBVIOUS
  <2>4. /\ call' = [call EXCEPT ![c] = k] /\ k \in ClaudeCallRecords /\ k.fed = j.fed
        /\ k.cancelled = j.cancelled /\ k.gen = g /\ k.pc = "read"
    <3>1. call' = [call EXCEPT ![c] = k] BY <1>1, <1>5, <1>9, <2>3 DEF C!Send, C!Goto
    <3> QED BY <1>2, <1>5, <2>3, <3>1 DEF ClaudeCallRecords, ClaudeCallPCs
  <2>5. procs' = [procs EXCEPT ![g] = q] /\ ~p.killed /\ j.pc = "send"
    BY <1>1, <1>2, <1>3, <1>9, <2>1, <2>2 DEF C!Send, C!At, C!Proc, ClaudeRequested
  <2>6. ClaudePeerOK(q) /\ q.turn = p.turn /\ q.killed = p.killed /\ ClaudeOf(q) \subseteq ClaudeOf(p) \cup {c}
    <3>1. n \in 0 .. 1 BY <2>1
    <3>2. ClaudePeerOK(p) /\ c \notin ClaudeOf(p) BY <1>5, <1>6
    <3> QED BY <2>2, <3>1, <3>2, ClaudePeerAsked
  <2>7. ~ClaudeDead(g) BY <1>3, <2>5 DEF ClaudeDead
  <2> QED BY <1>1, <1>2, <1>3, <1>4, <2>4, <2>5, <2>6, <2>7, ClaudeTurnInv
<1> QED BY <1>8, <1>9

(* A call that fails, or meets the end of the output, leaves its turn.     *)
LEMMA ClaudeEndsInv ==
  ASSUME CallBounds, ClaudeInv, NEW c \in C!Calls, C!SendFails(c) \/ C!ReadFails(c) \/ C!EndOfOutput(c)
  PROVE  ClaudeInv'
<1>1. PICK j : j = call[c] OBVIOUS
<1>2. PICK g : g = j.gen OBVIOUS
<1>3. PICK p : p = procs[g] OBVIOUS
<1>4. /\ j.pc \in {"send", "read"} /\ UNCHANGED <<cur, closed, faults>>
      /\ p.killed \/ (~p.up /\ p.out = <<>>)
      /\ \E next \in {"grab", "done"}, end \in {"error", "endTurn", "cancelled"} :
           C!Unlock(c, procs, next, end)
  BY <1>1, <1>2, <1>3 DEF C!SendFails, C!ReadFails, C!EndOfOutput, C!At, C!Proc
<1>5. PICK next \in {"grab", "done"}, end \in {"error", "endTurn", "cancelled"} :
        C!Unlock(c, procs, next, end)
  BY <1>4
<1>6. j \in ClaudeCallRecords /\ call \in [C!Calls -> ClaudeCallRecords] /\ g \in 1 .. Len(procs) /\ ClaudePeerOK(p)
  BY <1>1, <1>2, <1>3, <1>4, ClaudeTurnOwner
<1>7. PICK q : q = [p EXCEPT !.turn = 0] OBVIOUS
<1>8. PICK k : k = [j EXCEPT !.pc = next, !.end = end] OBVIOUS
<1>9. /\ call' = [call EXCEPT ![c] = k] /\ k \in ClaudeCallRecords /\ k.fed = j.fed
      /\ k.cancelled = j.cancelled /\ k.gen = g /\ k.pc = next
  <2>1. call' = [call EXCEPT ![c] = k] BY <1>1, <1>5, <1>6, <1>8 DEF C!Unlock
  <2> QED BY <1>2, <1>6, <1>8, <2>1 DEF ClaudeCallRecords, ClaudeCallPCs
<1>10. procs' = [procs EXCEPT ![g] = q] BY <1>1, <1>2, <1>3, <1>5, <1>7 DEF C!Unlock
<1>11. 0 \in 0 .. MaxCalls BY DEF CallBounds
<1>12. ClaudePeerOK(q) /\ q.turn = 0 /\ q.killed = p.killed /\ ClaudeOf(q) = ClaudeOf(p)
  BY <1>6, <1>7, <1>11, ClaudePeerTurn
<1>13. ClaudeOf(q) = {} \/ q.killed
  <2>1. CASE p.killed BY <1>12, <2>1
  <2>2. CASE ~p.up /\ p.out = <<>>
    <3>1. p.todo = <<>> BY <1>6, <2>2 DEF ClaudePeerOK
    <3> QED BY <1>12, <2>2, <3>1, WireEmpty DEF ClaudeOf
  <2> QED BY <1>4, <2>1, <2>2
<1> QED BY <1>1, <1>2, <1>3, <1>4, <1>5, <1>9, <1>10, <1>12, <1>13, ClaudeTurnInv

(* A call reads one frame, its own or one left behind.                     *)
LEMMA ClaudeFramesInv ==
  ASSUME CallBounds, ClaudeInv, NEW c \in C!Calls,
         C!Delta(c) \/ C!DeltaCancelled(c) \/ C!Result(c) \/ C!Skip(c)
  PROVE  ClaudeInv'
<1>1. PICK j : j = call[c] OBVIOUS
<1>2. PICK g : g = j.gen OBVIOUS
<1>3. PICK p : p = procs[g] OBVIOUS
<1>4. PICK d : d = Head(p.out).of OBVIOUS
<1>5. /\ j.pc = "read" /\ UNCHANGED <<cur, closed, faults>> /\ p.out # <<>>
      /\ C!Result(c) => Head(p.out).kind = "final"
  BY <1>1, <1>2, <1>3 DEF C!Delta, C!DeltaCancelled, C!Result, C!Skip, C!Frame, C!At, C!Proc
<1>6. /\ j \in ClaudeCallRecords /\ call \in [C!Calls -> ClaudeCallRecords] /\ g \in 1 .. Len(procs) /\ ClaudePeerOK(p)
      /\ procs \in Seq(ClaudePeerRecords) /\ \A u \in C!Calls \ {c} : ~ClaudeReads(u, g)
  BY <1>1, <1>2, <1>3, <1>5, ClaudeTurnOwner
<1>7. PICK r : r = C!Taken(p) OBVIOUS
<1>8. /\ ClaudePeerOK(r) /\ r.killed = p.killed /\ r.turn = p.turn /\ ClaudeOf(r) \subseteq ClaudeOf(p) /\ d \in ClaudeOf(p)
      /\ Head(p.out).kind = "final" => d \notin ClaudeOf(r)
  BY <1>4, <1>5, <1>6, <1>7, ClaudePeerTaken
<1>9. ~ClaudeDead(g) BY <1>1, <1>2, <1>5 DEF ClaudeDead, ClaudeReads
<1>10. d \in C!Calls /\ (d = c \/ ClaudeAstray(d))
  <2>1. ClaudeClean(g) /\ ClaudeLeft(g) \subseteq C!Calls BY <1>6, <1>9, ClaudeFacts DEF ClaudeInv
  <2>2. d \in ClaudeLeft(g) BY <1>3, <1>8 DEF ClaudeLeft
  <2> QED BY <1>6, <2>1, <2>2 DEF ClaudeClean
<1>11. PICK fed \in SUBSET C!Calls : fed = j.fed \cup {d} BY <1>6, <1>10 DEF ClaudeCallRecords
<1>12. \A e \in fed \ {c} : e \in j.fed \/ ClaudeAstray(e) BY <1>10, <1>11
<1>13. CASE C!Delta(c) \/ C!Skip(c)
  <2>1. PICK k : k = call'[c] OBVIOUS
  <2>2. /\ call' = [call EXCEPT ![c] = k] /\ k \in ClaudeCallRecords /\ k.fed \in {fed, j.fed}
        /\ k.cancelled = j.cancelled /\ k.gen = g /\ k.pc = "read"
    <3>1. call' = [call EXCEPT ![c] = k] /\ (k = [j EXCEPT !.fed = fed] \/ k = j)
      BY <1>1, <1>2, <1>3, <1>4, <1>6, <1>11, <1>13, <2>1 DEF C!Delta, C!Skip, C!Feed, C!Proc
    <3> QED BY <1>2, <1>5, <1>6, <1>11, <3>1 DEF ClaudeCallRecords, ClaudeCallPCs
  <2>3. procs' = [procs EXCEPT ![g] = r] BY <1>1, <1>2, <1>3, <1>7, <1>13 DEF C!Delta, C!Skip, C!Rest
  <2>4. /\ call[c].pc = "read" /\ (call[c].cancelled => k.cancelled) /\ k.pc = "read"
        /\ call[c].fed \subseteq k.fed /\ k.gen = call[c].gen /\ g = call[c].gen
        /\ \A e \in k.fed \ {c} : e \in call[c].fed \/ ClaudeAstray(e)
    BY <1>1, <1>2, <1>5, <1>11, <1>12, <2>2
  <2>5. /\ r.turn = procs[g].turn /\ (procs[g].killed => r.killed)
        /\ ClaudeOf(r) \subseteq ClaudeOf(procs[g]) \cup {c}
    BY <1>3, <1>8
  <2> QED BY <1>5, <1>8, <1>9, <2>2, <2>3, <2>4, <2>5, ClaudeTurnInv
<1>14. CASE C!DeltaCancelled(c) \/ C!Result(c)
  <2>1. PICK k : k = call'[c] OBVIOUS
  <2>2. /\ call' = [call EXCEPT ![c] = k] /\ k \in ClaudeCallRecords
        /\ k.cancelled = j.cancelled /\ k.gen = g /\ k.pc \in {"grab", "done"}
        /\ \/ k.fed = j.fed /\ j.cancelled
           \/ k.fed = fed /\ Head(p.out).kind = "final"
    <3>1. PICK next \in {"grab", "done"}, end \in {"endTurn", "cancelled"} :
            \/ call' = [call EXCEPT ![c].pc = next, ![c].end = end] /\ j.cancelled
            \/ /\ call' = [call EXCEPT ![c].pc = next, ![c].end = end, ![c].fed = fed]
               /\ Head(p.out).kind = "final"
      <4>1. CASE C!DeltaCancelled(c)
        <5>1. call' = [call EXCEPT ![c].pc = "grab", ![c].end = "cancelled"] /\ j.cancelled
          BY <1>1, <4>1 DEF C!DeltaCancelled, C!Unlock
        <5> QED BY <5>1
      <4>2. CASE C!Result(c)
        <5>1. C!Feed(c) = fed BY <1>1, <1>2, <1>3, <1>4, <1>11 DEF C!Feed, C!Proc
        <5>2. PICK next \in {"grab", "done"} : next = IF call[c].cancelled THEN "grab" ELSE "done" OBVIOUS
        <5>3. call' = [call EXCEPT ![c].pc = next, ![c].end = "endTurn", ![c].fed = fed]
          BY <4>2, <5>1, <5>2 DEF C!Result
        <5> QED BY <1>5, <4>2, <5>3
      <4> QED BY <1>14, <4>1, <4>2
    <3>2. /\ call' = [call EXCEPT ![c] = k]
          /\ \/ k = [j EXCEPT !.pc = next, !.end = end] /\ j.cancelled
             \/ k = [j EXCEPT !.pc = next, !.end = end, !.fed = fed] /\ Head(p.out).kind = "final"
      BY <1>1, <1>6, <2>1, <3>1
    <3> QED BY <1>2, <1>6, <1>11, <3>2 DEF ClaudeCallRecords, ClaudeCallPCs
  <2>3. PICK q : q = [r EXCEPT !.turn = 0] OBVIOUS
  <2>4. procs' = [procs EXCEPT ![g] = q]
    <3>1. PICK ps : ps = [procs EXCEPT ![g] = r] OBVIOUS
    <3>2. ps[g] = r BY <1>6, <1>8, <3>1 DEF ClaudePeerOK
    <3>3. procs' = [ps EXCEPT ![g].turn = 0]
      BY <1>1, <1>2, <1>3, <1>7, <1>14, <3>1 DEF C!DeltaCancelled, C!Result, C!Unlock, C!Rest
    <3>4. procs' = [ps EXCEPT ![g] = q] BY <2>3, <3>2, <3>3
    <3> QED BY <1>6, <1>8, <3>1, <3>4 DEF ClaudePeerOK
  <2>5. 0 \in 0 .. MaxCalls BY DEF CallBounds
  <2>6. ClaudePeerOK(q) /\ q.turn = 0 /\ q.killed = r.killed /\ ClaudeOf(q) = ClaudeOf(r)
    BY <1>8, <2>3, <2>5, ClaudePeerTurn
  <2>7. c \in ClaudeOf(q) => k.cancelled \/ k.fed \ {c} # {} \/ k.pc = "read"
    BY <1>8, <1>11, <2>2, <2>6
  <2>8. \A e \in k.fed \ {c} : e \in j.fed \/ ClaudeAstray(e) BY <1>12, <2>2
  <2>9. j.fed \subseteq k.fed BY <1>11, <2>2
  <2>10. /\ ClaudeOf(q) \subseteq ClaudeOf(procs[g]) /\ (procs[g].killed => q.killed)
    BY <1>3, <1>8, <2>6
  <2> QED BY <1>1, <1>2, <1>5, <1>9, <2>2, <2>4, <2>6, <2>7, <2>8, <2>9, <2>10, ClaudeTurnInv
<1> QED BY <1>13, <1>14

(* Close, and the process at work.                                         *)
LEMMA ClaudeOthersInv ==
  ASSUME CallBounds, ClaudeInv, C!Close \/ \E g \in DOMAIN procs : C!PeerSays(g) \/ C!PeerDies(g)
  PROVE  ClaudeInv'
<1>1. /\ ClaudeTypes /\ Len(procs) \in Nat /\ cur \in Nat /\ cur <= Len(procs) /\ faults \in Nat
      /\ procs \in Seq(ClaudePeerRecords) /\ call' = call
      /\ DOMAIN procs = 1 .. Len(procs)
  BY ClaudeFacts DEF C!Close, C!PeerSays, C!PeerDies
<1>2. \E g \in Nat : \E q :
        /\ \A h \in 1 .. Len(procs) : procs'[h] = IF h = g THEN q ELSE procs[h]
        /\ procs' = procs \/ (g \in 1 .. Len(procs) /\ procs' = [procs EXCEPT ![g] = q])
        /\ g \in 1 .. Len(procs) =>
             /\ ClaudePeerOK(q) /\ ClaudeOf(q) \subseteq ClaudeOf(procs[g])
             /\ (procs[g].killed => q.killed) /\ q.turn = procs[g].turn
  <2>1. CASE C!Close /\ cur = 0 BY <1>1, <2>1 DEF C!Close
  <2>2. CASE C!Close /\ cur # 0
    <3>1. PICK g : g = cur OBVIOUS
    <3>2. g \in 1 .. Len(procs) /\ g \in Nat BY <1>1, <2>2, <3>1
    <3>3. PICK q : q = C!Killed(procs[g]) OBVIOUS
    <3>4. /\ ClaudePeerOK(q) /\ ClaudeOf(q) \subseteq ClaudeOf(procs[g]) /\ q.killed /\ q.turn = procs[g].turn
          /\ q \in ClaudePeerRecords
      <4>1. ClaudePeerOK(procs[g]) BY <3>2, ClaudeFacts
      <4> QED BY <3>3, <4>1, ClaudePeer DEF ClaudePeerOK
    <3>5. procs' = [procs EXCEPT ![g] = q] BY <2>2, <3>1, <3>3 DEF C!Close
    <3> QED BY <1>1, <3>2, <3>4, <3>5
  <2>3. CASE \E g \in DOMAIN procs : C!PeerSays(g) \/ C!PeerDies(g)
    <3>1. PICK g \in 1 .. Len(procs) : C!PeerSays(g) \/ C!PeerDies(g) BY <1>1, <2>3
    <3>2. PICK p : p = procs[g] OBVIOUS
    <3>3. ClaudePeerOK(p) BY <3>2, ClaudeFacts
    <3>4. PICK q : /\ procs' = [procs EXCEPT ![g] = q]
                   /\ ClaudePeerOK(q) /\ ClaudeOf(q) \subseteq ClaudeOf(p) /\ q.killed = p.killed /\ q.turn = p.turn
      <4>1. CASE C!PeerSays(g)
        <5>1. PICK sort \in FrameKinds : procs' = [procs EXCEPT ![g] = C!Said(p, sort)]
          BY <3>2, <4>1 DEF C!PeerSays, FrameKinds
        <5>2. C!Serves(p) BY <3>2, <4>1 DEF C!PeerSays
        <5> QED BY <3>3, <5>1, <5>2, ClaudePeerSaid
      <4>2. CASE C!PeerDies(g) BY <3>2, <3>3, <4>2, ClaudePeer DEF C!PeerDies
      <4> QED BY <3>1, <4>1, <4>2
    <3>5. q \in ClaudePeerRecords BY <3>4 DEF ClaudePeerOK
    <3>6. g \in Nat OBVIOUS
    <3>7. \A h \in 1 .. Len(procs) : procs'[h] = IF h = g THEN q ELSE procs[h]
      BY <1>1, <3>4, <3>5
    <3> QED BY <3>2, <3>4, <3>6, <3>7
  <2> QED BY <2>1, <2>2, <2>3
<1>7. PICK g \in Nat : \E q :
        /\ \A h \in 1 .. Len(procs) : procs'[h] = IF h = g THEN q ELSE procs[h]
        /\ procs' = procs \/ (g \in 1 .. Len(procs) /\ procs' = [procs EXCEPT ![g] = q])
        /\ g \in 1 .. Len(procs) =>
             /\ ClaudePeerOK(q) /\ ClaudeOf(q) \subseteq ClaudeOf(procs[g])
             /\ (procs[g].killed => q.killed) /\ q.turn = procs[g].turn
  BY <1>2
<1>8. PICK q :
        /\ \A h \in 1 .. Len(procs) : procs'[h] = IF h = g THEN q ELSE procs[h]
        /\ procs' = procs \/ (g \in 1 .. Len(procs) /\ procs' = [procs EXCEPT ![g] = q])
        /\ g \in 1 .. Len(procs) =>
             /\ ClaudePeerOK(q) /\ ClaudeOf(q) \subseteq ClaudeOf(procs[g])
             /\ (procs[g].killed => q.killed) /\ q.turn = procs[g].turn
  BY <1>7
<1>3. ClaudeTypes' /\ Len(procs') = Len(procs)
  <2>1. /\ closed' \in BOOLEAN /\ cur' \in {0, cur}
        /\ faults' = faults \/ (faults < MaxFaults /\ faults' = faults + 1)
    BY <1>1 DEF C!Close, C!PeerSays, C!PeerDies, C!Fault, ClaudeTypes
  <2>2. g \in 1 .. Len(procs) => q \in ClaudePeerRecords BY <1>8 DEF ClaudePeerOK
  <2> QED BY <1>1, <1>8, <2>1, <2>2, ClaudeTypesStep
<1>4. 0 \notin C!Calls BY DEF C!Calls
<1>5. \A u \in C!Calls \ {0} : call'[u] = call[u] BY <1>1
<1>6. g \in 1 .. Len(procs) =>
        /\ ClaudePeerOK(q) /\ ClaudeOf(q) \subseteq ClaudeOf(procs[g]) \cup {0}
        /\ (procs[g].killed => q.killed) /\ q.turn = procs[g].turn
  BY <1>8
<1> QED BY <1>8, <1>3, <1>4, <1>5, <1>6, ClaudeStep, Zenon

(* No step of the Claude backend disturbs ClaudeInv.                       *)
LEMMA ClaudeNext ==
  ASSUME CallBounds, ClaudeInv, [C!Next]_(C!vars)
  PROVE  ClaudeInv'
<1>1. CASE UNCHANGED C!vars
  BY <1>1 DEF C!vars, ClaudeInv, ClaudeTypes, ClaudeOrigin, C!Misled, ClaudeCallOK, ClaudeAstray,
    ClaudeLeft, ClaudeDead, ClaudeClean, ClaudeReads, ClaudeLocks,
     ClaudeHasAsked
<1>2. CASE C!Next
  BY <1>2, ClaudeCallsInv, ClaudeTearsInv, ClaudeStartsInv, ClaudeLockSendInv, ClaudeEndsInv,
    ClaudeFramesInv, ClaudeOthersInv DEF C!Next
<1> QED BY <1>1, <1>2

(* What ClaudeInv is for.                                                  *)
LEMMA ClaudeKeeps ==
  ASSUME ClaudeInv
  PROVE  C!OwnFrames
BY DEF ClaudeInv, ClaudeCallOK, ClaudeAstray, ClaudeOrigin, C!OwnFrames

-----------------------------------------------------------------------------
(* The omp backend.                                                        *)
OmpCallPCs == {"idle", "ensure", "lock", "tools", "start", "send", "read", "done", "panic"}

OmpCallRecords ==
  [pc : OmpCallPCs, tools : BOOLEAN, gen : Nat, cancelled : BOOLEAN, fed : SUBSET O!Calls,
   end : {"none", "endTurn", "cancelled", "error", "silent"}]

OmpPeerRecords ==
  [up : BOOLEAN, killed : BOOLEAN, todo : Seq(O!Calls), out : Seq(FramesOf(O!Calls)),
   starter : O!Calls, turn : 0 .. MaxCalls, lost : 0 .. 1]

OmpTypes ==
  /\ call \in [O!Calls -> OmpCallRecords]
  /\ procs \in Seq(OmpPeerRecords)
  /\ cur \in 0 .. Len(procs)
  /\ faults \in 0 .. MaxFaults
  /\ \A c \in O!Calls : call[c].gen <= Len(procs)

(* The reader of a process, or the one that failed while it read.          *)
OmpReads(c, g) == call[c].pc \in {"read", "panic"} /\ call[c].gen = g

OmpLocks(c, g) == call[c].pc \in {"tools", "start", "send", "read", "panic"} /\ call[c].gen = g

OmpHasAsked(c) == call[c].pc \in {"read", "panic", "done"}

OmpAstray(c) == O!Broken(c) \/ O!Misled(c)

(* A process that the backend ends loses what is on its way.               *)
OmpPeerOK(p) ==
  /\ p \in OmpPeerRecords /\ Wire(O!Calls, p.out, p.todo)
  /\ p.killed => ~p.up /\ p.out = <<>>
  /\ ~p.up => p.todo = <<>>

OmpOf(p) == Whose(p.out, p.todo)

OmpCallOK(c) ==
  /\ call[c].pc \in {"lock", "tools", "start", "send", "read", "panic"} =>
       call[c].gen \in 1 .. Len(procs)
  /\ call[c].pc # "done" => call[c].end \in {"none", "error"}
  /\ \A d \in call[c].fed \ {c} : OmpAstray(d)

OmpOrigin == (\E c \in O!Calls : O!Misled(c)) => \E c \in O!Calls : O!Broken(c)

(* What the backend does not hold has been ended.                          *)
OmpKnown == \A g \in 1 .. Len(procs) : procs[g].up => g = cur

OmpInv ==
  /\ OmpTypes /\ OmpOrigin /\ OmpKnown
  /\ \A c \in O!Calls : OmpCallOK(c)
  /\ \A g \in 1 .. Len(procs) :
       /\ OmpPeerOK(procs[g])
       /\ \A c \in O!Calls : procs[g].turn = c <=> OmpLocks(c, g)
       /\ \A c \in OmpOf(procs[g]) : OmpHasAsked(c) /\ (OmpAstray(c) \/ OmpReads(c, g))

-----------------------------------------------------------------------------
(* Without calls and processes OmpInv holds.                               *)
LEMMA OmpInit ==
  ASSUME CallBounds, O!Init
  PROVE  OmpInv
<1>1. procs = <<>> /\ Len(procs) = 0 /\ procs \in Seq(OmpPeerRecords) BY DEF O!Init
<1>2. \A c \in O!Calls : call[c] = O!Idle BY DEF O!Init
<1>3. O!Idle \in OmpCallRecords BY DEF O!Idle, OmpCallRecords, OmpCallPCs
<1>4. OmpTypes
  <2>1. call \in [O!Calls -> OmpCallRecords] BY <1>2, <1>3 DEF O!Init
  <2>2. \A c \in O!Calls : call[c].gen = 0 BY <1>2 DEF O!Idle
  <2>3. cur \in 0 .. Len(procs) /\ faults \in 0 .. MaxFaults BY <1>1 DEF O!Init, CallBounds
  <2>4. \A c \in O!Calls : call[c].gen <= Len(procs) BY <1>1, <2>2
  <2> QED BY <1>1, <2>1, <2>3, <2>4 DEF OmpTypes
<1>5. OmpOrigin /\ \A c \in O!Calls : OmpCallOK(c)
  BY <1>2 DEF O!Init, OmpOrigin, OmpCallOK, O!Misled, O!Idle
<1> QED BY <1>1, <1>4, <1>5 DEF OmpInv, OmpKnown

(* What an invariant part says of calls and processes.                     *)
LEMMA OmpFacts ==
  ASSUME OmpInv
  PROVE  /\ OmpTypes /\ Len(procs) \in Nat /\ procs \in Seq(OmpPeerRecords)
         /\ cur \in Nat /\ cur <= Len(procs) /\ faults \in Nat
         /\ call \in [O!Calls -> OmpCallRecords]
         /\ \A c \in O!Calls : /\ call[c] \in OmpCallRecords /\ call[c].gen \in Nat
                               /\ call[c].gen <= Len(procs)
         /\ \A g \in 1 .. Len(procs) : OmpPeerOK(procs[g]) /\ OmpOf(procs[g]) \subseteq O!Calls
<1>1. OmpTypes /\ \A g \in 1 .. Len(procs) : OmpPeerOK(procs[g]) BY DEF OmpInv
<1>2. \A c \in O!Calls : /\ call[c] \in OmpCallRecords /\ call[c].gen \in Nat
                         /\ call[c].gen <= Len(procs)
  BY <1>1 DEF OmpTypes, OmpCallRecords
<1>3. \A g \in 1 .. Len(procs) : OmpOf(procs[g]) \subseteq O!Calls
  BY <1>1, WireWhose DEF OmpPeerOK, OmpOf
<1>4. /\ Len(procs) \in Nat /\ procs \in Seq(OmpPeerRecords)
      /\ cur \in Nat /\ cur <= Len(procs) /\ faults \in Nat /\ call \in [O!Calls -> OmpCallRecords]
  BY <1>1 DEF OmpTypes
<1> QED BY <1>1, <1>2, <1>3, <1>4

(* A step of c, or of none of the calls.                                   *)
LEMMA OmpStep ==
  ASSUME OmpInv, OmpTypes', OmpKnown', NEW c, Len(procs') >= Len(procs),
         \A u \in O!Calls \ {c} : call'[u] = call[u],
         c \in O!Calls =>
           /\ O!Broken(c) => O!Broken(c)'
           /\ call[c].fed \subseteq call'[c].fed
           /\ \A d \in call'[c].fed \ {c} : d \in call[c].fed \/ OmpAstray(d)
           /\ OmpHasAsked(c) => OmpHasAsked(c)'
           /\ call'[c].pc # "done" => call'[c].end \in {"none", "error"}
           /\ call'[c].pc \in {"lock", "tools", "start", "send", "read", "panic"} =>
                call'[c].gen \in 1 .. Len(procs'),
         \A h \in 1 .. Len(procs') :
           /\ OmpPeerOK(procs'[h])
           /\ \/ OmpOf(procs'[h]) = {} /\ procs'[h].turn = 0 /\ \A u \in O!Calls : ~OmpLocks(u, h)'
              \/ /\ h \in 1 .. Len(procs) /\ OmpOf(procs'[h]) \subseteq OmpOf(procs[h]) \cup {c}
                 /\ c \in O!Calls /\ c \in OmpOf(procs'[h]) =>
                      OmpHasAsked(c)' /\ (OmpAstray(c)' \/ OmpReads(c, h)')
                 /\ \/ /\ procs'[h].turn = procs[h].turn
                       /\ c \in O!Calls => (OmpLocks(c, h)' <=> OmpLocks(c, h))
                    \/ procs'[h].turn = c /\ c \in O!Calls /\ OmpLocks(c, h)' /\ procs[h].turn = 0
                    \/ procs'[h].turn = 0 /\ c \in O!Calls /\ procs[h].turn = c /\ ~OmpLocks(c, h)'
  PROVE  OmpInv'
<1>1. /\ OmpTypes /\ OmpOrigin /\ \A u \in O!Calls : OmpCallOK(u)
      /\ Len(procs) \in Nat /\ Len(procs') \in Nat
  BY DEF OmpInv, OmpTypes
<1>2. \A u \in O!Calls : OmpAstray(u) => OmpAstray(u)'
  <2>1. \A u \in O!Calls \ {c} : OmpAstray(u) => OmpAstray(u)' BY DEF OmpAstray, O!Broken, O!Misled
  <2>2. c \in O!Calls => (OmpAstray(c) => OmpAstray(c)') BY DEF OmpAstray, O!Misled
  <2> QED BY <2>1, <2>2
<1>3. ASSUME NEW u \in O!Calls PROVE OmpCallOK(u)'
  <2>1. /\ call'[u].pc # "done" => call'[u].end \in {"none", "error"}
        /\ call'[u].pc \in {"lock", "tools", "start", "send", "read", "panic"} =>
             call'[u].gen \in 1 .. Len(procs')
    <3>1. CASE u = c BY <3>1
    <3>2. CASE u # c
      <4>1. call[u].gen \in Nat BY OmpFacts
      <4> QED BY <1>1, <3>2, <4>1 DEF OmpCallOK
    <3> QED BY <3>1, <3>2
  <2>2. call[u].fed \subseteq O!Calls /\ call'[u].fed \subseteq O!Calls
    BY <1>1 DEF OmpTypes, OmpCallRecords
  <2>3. \A d \in call'[u].fed \ {u} : OmpAstray(d)
    BY <1>1 DEF OmpCallOK
  <2> QED BY <1>2, <2>1, <2>2, <2>3 DEF OmpCallOK
<1>4. OmpOrigin'
  <2>1. ASSUME NEW u \in O!Calls, O!Misled(u)' PROVE \E v \in O!Calls : O!Broken(v)'
    <3>1. PICK d \in call'[u].fed : d # u BY <2>1 DEF O!Misled
    <3>2. d \in O!Calls BY <3>1 DEF OmpTypes, OmpCallRecords
    <3>3. (\E v \in O!Calls : O!Misled(v)) \/ OmpAstray(d)
      BY <1>1, <3>1, <3>2 DEF OmpCallOK, O!Misled
    <3>4. PICK v \in O!Calls : O!Broken(v) BY <1>1, <3>2, <3>3 DEF OmpOrigin, OmpAstray
    <3>5. v # c => O!Broken(v)' BY <3>4 DEF O!Broken
    <3> QED BY <3>4, <3>5
  <2> QED BY <2>1 DEF OmpOrigin
<1>5. 0 \notin O!Calls BY DEF O!Calls
<1>6. ASSUME NEW h \in 1 .. Len(procs')
      PROVE  /\ OmpPeerOK(procs'[h])
             /\ \A u \in O!Calls : procs'[h].turn = u <=> OmpLocks(u, h)'
             /\ \A u \in OmpOf(procs'[h]) : OmpHasAsked(u)' /\ (OmpAstray(u)' \/ OmpReads(u, h)')
  <2>1. CASE OmpOf(procs'[h]) = {} /\ procs'[h].turn = 0 /\ \A u \in O!Calls : ~OmpLocks(u, h)'
    BY <1>5, <2>1
  <2>2. CASE /\ h \in 1 .. Len(procs) /\ OmpOf(procs'[h]) \subseteq OmpOf(procs[h]) \cup {c}
             /\ c \in O!Calls /\ c \in OmpOf(procs'[h]) =>
                  OmpHasAsked(c)' /\ (OmpAstray(c)' \/ OmpReads(c, h)')
             /\ \/ /\ procs'[h].turn = procs[h].turn
                   /\ c \in O!Calls => (OmpLocks(c, h)' <=> OmpLocks(c, h))
                \/ procs'[h].turn = c /\ c \in O!Calls /\ OmpLocks(c, h)' /\ procs[h].turn = 0
                \/ procs'[h].turn = 0 /\ c \in O!Calls /\ procs[h].turn = c /\ ~OmpLocks(c, h)'
    <3>1. /\ \A u \in O!Calls : procs[h].turn = u <=> OmpLocks(u, h)
          /\ \A u \in OmpOf(procs[h]) : OmpHasAsked(u) /\ (OmpAstray(u) \/ OmpReads(u, h))
      BY <2>2 DEF OmpInv
    <3>2. \A u \in O!Calls \ {c} :
            (OmpReads(u, h)' <=> OmpReads(u, h)) /\ (OmpLocks(u, h)' <=> OmpLocks(u, h))
            /\ (OmpHasAsked(u)' <=> OmpHasAsked(u))
      BY DEF OmpReads, OmpLocks, OmpHasAsked
    <3>3. \A u \in O!Calls : procs'[h].turn = u <=> OmpLocks(u, h)' BY <1>5, <2>2, <3>1, <3>2
    <3>4. OmpOf(procs'[h]) \subseteq O!Calls BY WireWhose DEF OmpPeerOK, OmpOf
    <3>5. \A u \in OmpOf(procs'[h]) \ {c} : OmpHasAsked(u)' /\ (OmpAstray(u)' \/ OmpReads(u, h)')
      BY <1>2, <2>2, <3>1, <3>2, <3>4
    <3> QED BY <2>2, <3>3, <3>4, <3>5
  <2> QED BY <2>1, <2>2
<1> QED BY <1>3, <1>4, <1>6 DEF OmpInv

(* Types after a step that changes one call at most.                       *)
LEMMA OmpTypesStep ==
  ASSUME CallBounds, OmpInv,
         procs' \in Seq(OmpPeerRecords), Len(procs') \in {Len(procs), Len(procs) + 1},
         cur' \in 0 .. Len(procs'),
         faults' = faults \/ (faults < MaxFaults /\ faults' = faults + 1),
         call' = call \/ \E c \in O!Calls, k \in OmpCallRecords :
           call' = [call EXCEPT ![c] = k] /\ k.gen <= Len(procs')
  PROVE  OmpTypes' /\ Len(procs') >= Len(procs)
<1>1. faults' \in 0 .. MaxFaults
  <2>1. \A n, m \in Nat : n < m => n + 1 \in 0 .. m OBVIOUS
  <2>2. faults \in 0 .. MaxFaults BY OmpFacts DEF OmpTypes
  <2>3. faults \in Nat /\ MaxFaults \in Nat BY OmpFacts DEF CallBounds
  <2>4. faults < MaxFaults => faults + 1 \in 0 .. MaxFaults BY <2>1, <2>3
  <2> QED BY <2>2, <2>4
<1>2. call' \in [O!Calls -> OmpCallRecords] BY OmpFacts
<1>3. \A u \in O!Calls : call'[u].gen <= Len(procs')
  <2>1. \A n, m \in Nat : n <= m => n <= m + 1 OBVIOUS
  <2>2. \A u \in O!Calls : call[u].gen <= Len(procs') BY <2>1, OmpFacts
  <2>3. ASSUME NEW c \in O!Calls, NEW k \in OmpCallRecords,
               call' = [call EXCEPT ![c] = k], k.gen <= Len(procs')
        PROVE  \A u \in O!Calls : call'[u].gen <= Len(procs')
    BY <2>2, <2>3, OmpFacts
  <2> QED BY <2>2, <2>3
<1>4. Len(procs') >= Len(procs) BY OmpFacts
<1> QED BY <1>1, <1>2, <1>3, <1>4 DEF OmpTypes

-----------------------------------------------------------------------------
(* What happens to a process.                                              *)
LEMMA OmpPeer ==
  ASSUME CallBounds, NEW p, OmpPeerOK(p)
  PROVE  /\ OmpPeerOK(O!Drained(O!Killed(p))) /\ OmpOf(O!Drained(O!Killed(p))) = {}
         /\ O!Drained(O!Killed(p)).turn = p.turn /\ ~O!Drained(O!Killed(p)).up
         /\ OmpPeerOK(O!Died(p)) /\ OmpOf(O!Died(p)) \subseteq OmpOf(p)
         /\ O!Died(p).turn = p.turn /\ ~O!Died(p).up
         /\ p \in OmpPeerRecords /\ OmpOf(p) \subseteq O!Calls
<1>1. /\ p \in OmpPeerRecords /\ Wire(O!Calls, p.out, <<>>)
      /\ Whose(p.out, <<>>) \subseteq OmpOf(p) /\ OmpOf(p) \subseteq O!Calls
      /\ <<>> \in Seq(O!Calls) /\ <<>> \in Seq(FramesOf(O!Calls))
      /\ Wire(O!Calls, <<>>, <<>>) /\ Whose(<<>>, <<>>) = {}
      /\ p.killed => p.out = <<>>
  <2>1. p \in OmpPeerRecords /\ Wire(O!Calls, p.out, p.todo) /\ (p.killed => p.out = <<>>)
    BY DEF OmpPeerOK
  <2>2. Wire(O!Calls, p.out, <<>>) /\ Whose(p.out, <<>>) \subseteq OmpOf(p)
    BY <2>1, WireEmpty DEF OmpOf
  <2>3. OmpOf(p) \subseteq O!Calls BY <2>1, WireWhose DEF OmpOf
  <2>4. <<>> \in Seq(O!Calls) /\ <<>> \in Seq(FramesOf(O!Calls)) OBVIOUS
  <2> QED BY <2>1, <2>2, <2>3, <2>4, WireEmpty
<1>2. PICK q : q = O!Drained(O!Killed(p)) OBVIOUS
<1>3. /\ q \in OmpPeerRecords /\ q.up = FALSE /\ q.killed = TRUE /\ q.todo = <<>> /\ q.out = <<>>
      /\ q.turn = p.turn
  BY <1>1, <1>2 DEF O!Killed, O!Drained, OmpPeerRecords
<1>4. OmpPeerOK(q) /\ OmpOf(q) = {} BY <1>1, <1>3 DEF OmpPeerOK, OmpOf
<1>5. PICK r : r = O!Died(p) OBVIOUS
<1>6. /\ r \in OmpPeerRecords /\ r.up = FALSE /\ r.killed = p.killed /\ r.todo = <<>> /\ r.out = p.out
      /\ r.turn = p.turn
  BY <1>1, <1>5 DEF O!Died, OmpPeerRecords
<1>7. OmpPeerOK(r) /\ OmpOf(r) \subseteq OmpOf(p) BY <1>1, <1>6 DEF OmpPeerOK, OmpOf
<1> QED BY <1>1, <1>2, <1>3, <1>4, <1>5, <1>6, <1>7

(* That a dead process may swallow a write changes nothing on its wire.    *)
LEMMA OmpPeerLost ==
  ASSUME NEW p, OmpPeerOK(p), NEW n \in 0 .. 1
  PROVE  LET q == [p EXCEPT !.lost = n]
         IN  OmpPeerOK(q) /\ q.turn = p.turn /\ q.up = p.up /\ OmpOf(q) = OmpOf(p)
<1>1. p \in OmpPeerRecords BY DEF OmpPeerOK
<1>2. PICK q : q = [p EXCEPT !.lost = n] OBVIOUS
<1>3. /\ q \in OmpPeerRecords /\ q.up = p.up /\ q.killed = p.killed /\ q.todo = p.todo /\ q.out = p.out
      /\ q.turn = p.turn
  BY <1>1, <1>2 DEF OmpPeerRecords
<1>4. OmpPeerOK(q) /\ OmpOf(q) = OmpOf(p) BY <1>3 DEF OmpPeerOK, OmpOf
<1> QED BY <1>2, <1>3, <1>4

(* Who has the turn lock of a process changes nothing on its wire.         *)
LEMMA OmpPeerTurn ==
  ASSUME NEW p, OmpPeerOK(p), NEW n \in 0 .. MaxCalls
  PROVE  LET q == [p EXCEPT !.turn = n]
         IN  OmpPeerOK(q) /\ q.turn = n /\ q.up = p.up /\ OmpOf(q) = OmpOf(p)
<1>1. p \in OmpPeerRecords BY DEF OmpPeerOK
<1>2. PICK q : q = [p EXCEPT !.turn = n] OBVIOUS
<1>3. /\ q \in OmpPeerRecords /\ q.up = p.up /\ q.killed = p.killed /\ q.todo = p.todo /\ q.out = p.out
      /\ q.turn = n
  BY <1>1, <1>2 DEF OmpPeerRecords
<1>4. OmpPeerOK(q) /\ OmpOf(q) = OmpOf(p) BY <1>3 DEF OmpPeerOK, OmpOf
<1> QED BY <1>2, <1>3, <1>4

OmpRequested(p, c, n) == [O!Asked(p, c) EXCEPT !.lost = n]

(* A request sent to a process joins its wire.                             *)
LEMMA OmpPeerAsked ==
  ASSUME NEW p, OmpPeerOK(p), NEW c \in O!Calls, c \notin OmpOf(p), NEW n \in 0 .. 1
  PROVE  LET q == OmpRequested(p, c, n)
         IN  OmpPeerOK(q) /\ q.turn = p.turn /\ q.up = p.up /\ OmpOf(q) \subseteq OmpOf(p) \cup {c}
<1>1. p \in OmpPeerRecords BY DEF OmpPeerOK
<1>2. /\ Wire(O!Calls, p.out, Append(p.todo, c))
      /\ Whose(p.out, Append(p.todo, c)) \subseteq OmpOf(p) \cup {c}
      /\ Append(p.todo, c) \in Seq(O!Calls)
  <2>1. /\ Wire(O!Calls, p.out, Append(p.todo, c))
        /\ Whose(p.out, Append(p.todo, c)) \subseteq OmpOf(p) \cup {c}
    BY WireAsked DEF OmpPeerOK, OmpOf
  <2> QED BY <2>1 DEF Wire
<1>3. PICK a, q : a = O!Asked(p, c) /\ q = [a EXCEPT !.lost = n] /\ q = OmpRequested(p, c, n)
  BY DEF OmpRequested
<1>4. CASE p.up
  <2>1. a = [p EXCEPT !.todo = Append(p.todo, c)] BY <1>3, <1>4 DEF O!Asked
  <2>2. /\ q \in OmpPeerRecords /\ q.up = p.up /\ q.killed = p.killed /\ q.todo = Append(p.todo, c)
        /\ q.out = p.out /\ q.turn = p.turn
    BY <1>1, <1>2, <1>3, <2>1 DEF OmpPeerRecords
  <2>3. OmpPeerOK(q) /\ OmpOf(q) \subseteq OmpOf(p) \cup {c}
    BY <1>2, <1>4, <2>2 DEF OmpPeerOK, OmpOf
  <2> QED BY <1>3, <2>2, <2>3
<1>5. CASE ~p.up
  <2>1. a = p BY <1>3, <1>5 DEF O!Asked
  <2>2. /\ q \in OmpPeerRecords /\ q.up = p.up /\ q.killed = p.killed /\ q.todo = p.todo
        /\ q.out = p.out /\ q.turn = p.turn
    BY <1>1, <1>3, <2>1 DEF OmpPeerRecords
  <2>3. OmpPeerOK(q) /\ OmpOf(q) \subseteq OmpOf(p) \cup {c} BY <2>2 DEF OmpPeerOK, OmpOf
  <2> QED BY <1>3, <2>2, <2>3
<1> QED BY <1>4, <1>5

(* A frame said by a process is of a request it had.                       *)
LEMMA OmpPeerSaid ==
  ASSUME NEW p, OmpPeerOK(p), O!Serves(p), NEW sort \in FrameKinds
  PROVE  /\ OmpPeerOK(O!Said(p, sort)) /\ O!Said(p, sort).up = p.up
         /\ O!Said(p, sort).turn = p.turn /\ OmpOf(O!Said(p, sort)) \subseteq OmpOf(p)
<1> DEFINE new == Append(p.out, [kind |-> sort, of |-> Head(p.todo)])
           rest == IF sort = "final" THEN Tail(p.todo) ELSE p.todo
<1>1. /\ p \in OmpPeerRecords /\ p.up
      /\ Wire(O!Calls, new, rest) /\ Whose(new, rest) \subseteq OmpOf(p)
  BY WireSaid DEF OmpPeerOK, OmpOf, O!Serves
<1>2. new \in Seq(FramesOf(O!Calls)) /\ rest \in Seq(O!Calls) BY <1>1 DEF Wire
<1>3. PICK q : q = O!Said(p, sort) OBVIOUS
<1>4. q = [p EXCEPT !.out = new, !.todo = rest] BY <1>3 DEF O!Said
<1> HIDE DEF new, rest
<1>5. /\ q \in OmpPeerRecords /\ q.up = p.up /\ q.killed = p.killed /\ q.todo = rest /\ q.out = new
      /\ q.turn = p.turn
  BY <1>1, <1>2, <1>4 DEF OmpPeerRecords
<1>6. OmpPeerOK(q) /\ OmpOf(q) \subseteq OmpOf(p) BY <1>1, <1>5 DEF OmpPeerOK, OmpOf
<1> QED BY <1>3, <1>5, <1>6

(* A frame read from a process was on its wire.                            *)
LEMMA OmpPeerTaken ==
  ASSUME NEW p, OmpPeerOK(p), p.out # <<>>
  PROVE  /\ OmpPeerOK(O!Taken(p)) /\ O!Taken(p).up = p.up /\ O!Taken(p).turn = p.turn
         /\ OmpOf(O!Taken(p)) \subseteq OmpOf(p)
         /\ Head(p.out).of \in OmpOf(p)
         /\ Head(p.out).kind = "final" => Head(p.out).of \notin OmpOf(O!Taken(p))
<1>1. /\ p \in OmpPeerRecords /\ Wire(O!Calls, Tail(p.out), p.todo)
      /\ Whose(Tail(p.out), p.todo) \subseteq OmpOf(p) /\ Head(p.out).of \in OmpOf(p)
      /\ Head(p.out).kind = "final" => Head(p.out).of \notin Whose(Tail(p.out), p.todo)
  BY WireTaken DEF OmpPeerOK, OmpOf
<1>2. Tail(p.out) \in Seq(FramesOf(O!Calls)) BY <1>1 DEF Wire
<1>3. PICK q : q = O!Taken(p) OBVIOUS
<1>4. /\ q \in OmpPeerRecords /\ q.up = p.up /\ q.killed = p.killed /\ q.todo = p.todo
      /\ q.out = Tail(p.out) /\ q.turn = p.turn
  BY <1>1, <1>2, <1>3 DEF O!Taken, OmpPeerRecords
<1>5. OmpPeerOK(q) BY <1>1, <1>4 DEF OmpPeerOK
<1> QED BY <1>1, <1>3, <1>4, <1>5 DEF OmpOf

(* A new process has an empty wire and a free turn lock.                   *)
LEMMA OmpPeerFresh ==
  ASSUME CallBounds, NEW c \in O!Calls
  PROVE  LET q == O!FreshOf(c)
         IN  OmpPeerOK(q) /\ OmpOf(q) = {} /\ q.turn = 0
<1>1. PICK q : q = O!FreshOf(c) OBVIOUS
<1>2. <<>> \in Seq(O!Calls) /\ <<>> \in Seq(FramesOf(O!Calls)) OBVIOUS
<1>3. 0 \in 0 .. MaxCalls BY DEF CallBounds
<1>4. /\ q \in OmpPeerRecords /\ q.up = TRUE /\ q.killed = FALSE /\ q.todo = <<>> /\ q.out = <<>>
      /\ q.turn = 0
  BY <1>1, <1>2, <1>3 DEF O!FreshOf, OmpPeerRecords
<1>5. OmpPeerOK(q) /\ OmpOf(q) = {} BY <1>4, WireEmpty DEF OmpPeerOK, OmpOf
<1> QED BY <1>1, <1>4, <1>5

-----------------------------------------------------------------------------
(* The process of a call that has, or may have, its turn lock.             *)
LEMMA OmpTurnOwner ==
  ASSUME CallBounds, OmpInv, NEW c \in O!Calls,
         call[c].pc \in {"lock", "tools", "start", "send", "read", "panic"}
  PROVE  /\ call[c] \in OmpCallRecords /\ call \in [O!Calls -> OmpCallRecords]
         /\ call[c].gen \in 1 .. Len(procs) /\ OmpPeerOK(procs[call[c].gen])
         /\ procs \in Seq(OmpPeerRecords)
         /\ call[c].pc # "lock" =>
              /\ procs[call[c].gen].turn = c
              /\ \A u \in O!Calls \ {c} : ~OmpReads(u, call[c].gen)
         /\ call[c].end \in {"none", "error"}
         /\ c \in OmpOf(procs[call[c].gen]) => call[c].pc \in {"read", "panic"}
<1>1. PICK g : g = call[c].gen OBVIOUS
<1>2. /\ g \in 1 .. Len(procs) /\ OmpPeerOK(procs[g])
      /\ \A u \in O!Calls : procs[g].turn = u <=> OmpLocks(u, g)
      /\ call[c].end \in {"none", "error"}
      /\ c \in OmpOf(procs[g]) => OmpHasAsked(c)
  BY <1>1 DEF OmpInv, OmpCallOK
<1>3. call[c].pc # "lock" => OmpLocks(c, g) BY <1>1 DEF OmpLocks
<1>4. \A u \in O!Calls : OmpReads(u, g) => procs[g].turn = u BY <1>2 DEF OmpReads, OmpLocks
<1>5. call[c].pc # "lock" => procs[g].turn = c /\ \A u \in O!Calls \ {c} : ~OmpReads(u, g)
  BY <1>2, <1>3, <1>4
<1> QED BY <1>1, <1>2, <1>5, OmpFacts DEF OmpHasAsked

(* A step of c, which may have the turn lock, and of its process.          *)
LEMMA OmpTurnInv ==
  ASSUME CallBounds, OmpInv, NEW c \in O!Calls,
         call[c].pc \in {"lock", "tools", "start", "send", "read"},
         NEW k \in OmpCallRecords, call' = [call EXCEPT ![c] = k],
         O!Broken(c) => k.cancelled \/ k.end = "error",
         call[c].fed \subseteq k.fed, k.gen = call[c].gen,
         \A d \in k.fed \ {c} : d \in call[c].fed \/ OmpAstray(d),
         k.pc \in {"tools", "start", "send", "read", "panic", "done"},
         k.pc # "done" => k.end \in {"none", "error"},
         call[c].pc = "read" => k.pc \in {"read", "panic", "done"},
         NEW g, g = call[c].gen, NEW q, procs' = [procs EXCEPT ![g] = q],
         OmpPeerOK(q), q.up => procs[g].up, OmpOf(q) \subseteq OmpOf(procs[g]) \cup {c},
         c \in OmpOf(q) =>
           \/ k.pc \in {"read", "panic"}
           \/ k.pc = "done" /\ (k.cancelled \/ k.end = "error" \/ k.fed \ {c} # {}),
         \/ q.turn = procs[g].turn /\ call[c].pc # "lock" /\ k.pc # "done"
         \/ q.turn = c /\ procs[g].turn = 0 /\ k.pc # "done"
         \/ q.turn = 0 /\ call[c].pc # "lock" /\ k.pc = "done",
         UNCHANGED <<cur, faults>>
  PROVE  OmpInv'
<1>1. PICK j : j = call[c] OBVIOUS
<1>2. /\ j \in OmpCallRecords /\ call \in [O!Calls -> OmpCallRecords] /\ procs \in Seq(OmpPeerRecords)
      /\ g \in 1 .. Len(procs) /\ OmpPeerOK(procs[g])
      /\ j.pc # "lock" => procs[g].turn = c
      /\ Len(procs) \in Nat /\ cur \in 0 .. Len(procs)
  BY <1>1, OmpTurnOwner, OmpFacts DEF OmpTypes
<1>3. call'[c] = k /\ \A u \in O!Calls \ {c} : call'[u] = call[u] BY <1>2
<1>4. q \in OmpPeerRecords BY DEF OmpPeerOK
<1>5. /\ procs' \in Seq(OmpPeerRecords) /\ Len(procs') = Len(procs)
      /\ \A h \in 1 .. Len(procs) : procs'[h] = IF h = g THEN q ELSE procs[h]
  BY <1>2, <1>4
<1>6. OmpTypes' /\ Len(procs') >= Len(procs)
  <2>1. k.gen <= Len(procs') BY <1>2, <1>5
  <2>2. cur' \in 0 .. Len(procs') BY <1>2, <1>5
  <2>3. Len(procs') \in {Len(procs), Len(procs) + 1} BY <1>5
  <2>4. faults' = faults OBVIOUS
  <2> HIDE DEF OmpTypes
  <2> QED BY <1>5, <2>1, <2>2, <2>3, <2>4, OmpTypesStep
<1>7. OmpKnown' BY <1>2, <1>5 DEF OmpKnown, OmpInv
<1>8. /\ \A h : h # g => ~OmpReads(c, h)' /\ ~OmpReads(c, h) /\ ~OmpLocks(c, h)' /\ ~OmpLocks(c, h)
      /\ OmpReads(c, g)' <=> k.pc \in {"read", "panic"}
      /\ OmpLocks(c, g)' <=> k.pc # "done"
      /\ OmpLocks(c, g) <=> j.pc # "lock"
      /\ OmpHasAsked(c) => OmpHasAsked(c)'
      /\ OmpHasAsked(c)' <=> k.pc \in {"read", "panic", "done"}
      /\ k.cancelled \/ k.end = "error" => O!Broken(c)'
      /\ k.cancelled \/ k.end = "error" \/ k.fed \ {c} # {} => OmpAstray(c)'
  BY <1>1, <1>3 DEF OmpReads, OmpLocks, OmpHasAsked, OmpAstray, O!Broken, O!Misled
<1>9. OmpAstray(c) => OmpAstray(c)' BY <1>3, <1>8 DEF OmpAstray, O!Misled
<1>10. ASSUME NEW h \in 1 .. Len(procs')
       PROVE  /\ OmpPeerOK(procs'[h])
              /\ h \in 1 .. Len(procs) /\ OmpOf(procs'[h]) \subseteq OmpOf(procs[h]) \cup {c}
              /\ c \in OmpOf(procs'[h]) => OmpHasAsked(c)' /\ (OmpAstray(c)' \/ OmpReads(c, h)')
              /\ \/ procs'[h].turn = procs[h].turn /\ (OmpLocks(c, h)' <=> OmpLocks(c, h))
                 \/ procs'[h].turn = c /\ OmpLocks(c, h)' /\ procs[h].turn = 0
                 \/ procs'[h].turn = 0 /\ procs[h].turn = c /\ ~OmpLocks(c, h)'
  <2>1. CASE h = g BY <1>1, <1>2, <1>5, <1>8, <2>1
  <2>2. CASE h # g
    <3>1. /\ h \in 1 .. Len(procs) /\ procs'[h] = procs[h] /\ OmpPeerOK(procs[h])
          /\ c \in OmpOf(procs[h]) => OmpHasAsked(c) /\ (OmpAstray(c) \/ OmpReads(c, h))
      BY <1>5, <2>2 DEF OmpInv
    <3> QED BY <1>8, <1>9, <2>2, <3>1
  <2> QED BY <2>1, <2>2
<1>11. /\ O!Broken(c) => O!Broken(c)'
       /\ call[c].fed \subseteq call'[c].fed
       /\ \A d \in call'[c].fed \ {c} : d \in call[c].fed \/ OmpAstray(d)
       /\ call'[c].pc # "done" => call'[c].end \in {"none", "error"}
       /\ call'[c].pc \in {"lock", "tools", "start", "send", "read", "panic"} =>
            call'[c].gen \in 1 .. Len(procs')
  BY <1>2, <1>3, <1>5, <1>8
<1> QED BY <1>3, <1>6, <1>7, <1>8, <1>10, <1>11, OmpStep

(* The turn begins.                                                        *)
LEMMA OmpBeginInv ==
  ASSUME CallBounds, OmpInv, NEW c \in O!Calls,
         O!Lock(c) \/ O!SetHostTools(c) \/ O!StartEvent(c) \/ O!SendPrompt(c)
  PROVE  OmpInv'
<1>1. PICK j : j = call[c] OBVIOUS
<1>2. PICK g : g = j.gen OBVIOUS
<1>3. PICK p : p = procs[g] OBVIOUS
<1>4. /\ UNCHANGED <<cur, faults>>
      /\ \/ O!Lock(c) /\ j.pc = "lock" /\ p.turn = 0
         \/ O!SetHostTools(c) /\ j.pc = "tools"
         \/ O!StartEvent(c) /\ j.pc = "start"
         \/ O!SendPrompt(c) /\ j.pc = "send"
  BY <1>1, <1>2, <1>3 DEF O!Lock, O!SetHostTools, O!StartEvent, O!SendPrompt, O!At, O!Proc
<1>5. /\ j \in OmpCallRecords /\ call \in [O!Calls -> OmpCallRecords] /\ g \in 1 .. Len(procs) /\ OmpPeerOK(p)
      /\ procs \in Seq(OmpPeerRecords) /\ j.end \in {"none", "error"} /\ c \notin OmpOf(p)
      /\ j.pc # "lock" => p.turn = c
  BY <1>1, <1>2, <1>3, <1>4, OmpTurnOwner
<1>6. c \in 0 .. MaxCalls BY DEF O!Calls, CallBounds
<1>7. PICK k : k = call'[c] OBVIOUS
<1>8. /\ call' = [call EXCEPT ![c] = k] /\ k \in OmpCallRecords /\ k.fed = j.fed
      /\ k.cancelled = j.cancelled /\ k.gen = g /\ k.end = j.end
      /\ k.pc \in {"tools", "start", "send", "read"}
      /\ O!SendPrompt(c) => k.pc = "read"
  <2>1. PICK pc \in {"tools", "start", "send", "read"} :
          call' = [call EXCEPT ![c].pc = pc] /\ (O!SendPrompt(c) => pc = "read")
    BY <1>1, <1>4, <1>5 DEF O!Lock, O!SetHostTools, O!StartEvent, O!SendPrompt, O!Goto, O!At
  <2>2. call' = [call EXCEPT ![c] = k] /\ k = [j EXCEPT !.pc = pc] BY <1>1, <1>5, <1>7, <2>1
  <2> QED BY <1>2, <1>5, <2>1, <2>2 DEF OmpCallRecords, OmpCallPCs
<1>9. PICK n \in 0 .. 1 : n = IF p.up THEN 0 ELSE 1 OBVIOUS
<1>10. PICK q :
         /\ procs' = [procs EXCEPT ![g] = q] /\ OmpPeerOK(q) /\ (q.up => p.up)
         /\ OmpOf(q) \subseteq OmpOf(p) \cup {c} /\ (c \in OmpOf(q) => O!SendPrompt(c))
         /\ \/ j.pc = "lock" /\ q.turn = c /\ p.turn = 0
            \/ j.pc # "lock" /\ q.turn = p.turn
  <2>1. CASE O!Lock(c) /\ j.pc = "lock" /\ p.turn = 0
    <3>1. PICK q : q = [p EXCEPT !.turn = c] OBVIOUS
    <3>2. procs' = [procs EXCEPT ![g] = q] BY <1>1, <1>2, <1>3, <2>1, <3>1 DEF O!Lock
    <3>3. OmpPeerOK(q) /\ q.turn = c /\ q.up = p.up /\ OmpOf(q) = OmpOf(p)
      BY <1>5, <1>6, <3>1, OmpPeerTurn
    <3> QED BY <1>5, <2>1, <3>2, <3>3
  <2>2. CASE O!SetHostTools(c) /\ j.pc = "tools"
    <3>1. PICK q : q = [p EXCEPT !.lost = n] OBVIOUS
    <3>2. procs' = [procs EXCEPT ![g] = q]
      BY <1>1, <1>2, <1>3, <1>9, <2>2, <3>1 DEF O!SetHostTools, O!Written
    <3>3. n \in 0 .. 1 BY <1>9
    <3>4. OmpPeerOK(q) /\ q.turn = p.turn /\ q.up = p.up /\ OmpOf(q) = OmpOf(p)
      BY <1>5, <3>1, <3>3, OmpPeerLost
    <3> QED BY <1>5, <2>2, <3>2, <3>4
  <2>3. CASE O!StartEvent(c) /\ j.pc = "start"
    <3>1. procs' = [procs EXCEPT ![g] = p] BY <1>3, <1>5, <2>3 DEF O!StartEvent
    <3> QED BY <1>5, <2>3, <3>1
  <2>4. CASE O!SendPrompt(c) /\ j.pc = "send"
    <3>1. PICK q : q = OmpRequested(p, c, n) OBVIOUS
    <3>2. procs' = [procs EXCEPT ![g] = q]
      <4>1. PICK r : r = O!Asked(p, c) OBVIOUS
      <4>2. PICK ps : ps = [procs EXCEPT ![g] = r] OBVIOUS
      <4>3. procs' = [ps EXCEPT ![g].lost = n]
        BY <1>1, <1>2, <1>3, <1>9, <2>4, <4>1, <4>2 DEF O!SendPrompt, O!Written
      <4>4. ps[g] = r BY <1>5, <4>2
      <4>5. q = [r EXCEPT !.lost = n] BY <3>1, <4>1 DEF OmpRequested
      <4>6. procs' = [ps EXCEPT ![g] = q] BY <4>3, <4>4, <4>5
      <4> QED BY <1>5, <4>2, <4>6
    <3>3. n \in 0 .. 1 BY <1>9
    <3>4. OmpPeerOK(q) /\ q.turn = p.turn /\ q.up = p.up /\ OmpOf(q) \subseteq OmpOf(p) \cup {c}
      BY <1>5, <3>1, <3>3, OmpPeerAsked
    <3> QED BY <1>5, <2>4, <3>2, <3>4
  <2> QED BY <1>4, <2>1, <2>2, <2>3, <2>4
<1>11. /\ OmpOf(q) \subseteq OmpOf(procs[g]) \cup {c} /\ (q.up => procs[g].up)
       /\ c \in OmpOf(q) => k.pc \in {"read", "panic"}
       /\ \/ q.turn = procs[g].turn /\ call[c].pc # "lock" /\ k.pc # "done"
          \/ q.turn = c /\ procs[g].turn = 0 /\ k.pc # "done"
  BY <1>1, <1>3, <1>8, <1>10
<1>12. /\ O!Broken(c) => k.cancelled \/ k.end = "error"
       /\ \A d \in k.fed \ {c} : d \in call[c].fed \/ OmpAstray(d)
       /\ call[c].fed \subseteq k.fed /\ k.gen = call[c].gen /\ g = call[c].gen
       /\ k.pc \in {"tools", "start", "send", "read"} /\ k.end \in {"none", "error"}
       /\ call[c].pc \in {"lock", "tools", "start", "send"}
  BY <1>1, <1>2, <1>4, <1>5, <1>8 DEF O!Broken
<1>13. call' = [call EXCEPT ![c] = k] /\ k \in OmpCallRecords BY <1>8
<1> QED BY <1>4, <1>10, <1>11, <1>12, <1>13, OmpTurnInv

(* The turn ends without a frame.                                          *)
LEMMA OmpEndsInv ==
  ASSUME CallBounds, OmpInv, NEW c \in O!Calls,
         O!StartEventCancelled(c) \/ O!WriteFails(c) \/ O!EndOfOutput(c) \/ O!ReadFails(c)
  PROVE  OmpInv'
<1>1. PICK j : j = call[c] OBVIOUS
<1>2. PICK g : g = j.gen OBVIOUS
<1>3. PICK p : p = procs[g] OBVIOUS
<1>4. /\ j.pc \in {"tools", "start", "send", "read"} /\ UNCHANGED <<cur, faults>>
      /\ j.pc = "start" \/ p.killed \/ (~p.up /\ p.out = <<>>)
      /\ \E end \in {"silent", "error", "endTurn", "cancelled"} : O!Unlock(c, procs, end)
  BY <1>1, <1>2, <1>3 DEF O!StartEventCancelled, O!WriteFails, O!EndOfOutput, O!ReadFails, O!At,
    O!Proc
<1>5. PICK end \in {"silent", "error", "endTurn", "cancelled"} : O!Unlock(c, procs, end)
  BY <1>4
<1>6. /\ j \in OmpCallRecords /\ call \in [O!Calls -> OmpCallRecords] /\ g \in 1 .. Len(procs) /\ OmpPeerOK(p)
      /\ j.end \in {"none", "error"} /\ (c \in OmpOf(p) => j.pc = "read")
  BY <1>1, <1>2, <1>3, <1>4, OmpTurnOwner
<1>7. PICK q : q = [p EXCEPT !.turn = 0] OBVIOUS
<1>8. PICK last : last = IF j.end = "none" THEN end ELSE j.end OBVIOUS
<1>9. PICK k : k = [j EXCEPT !.pc = "done", !.end = last] OBVIOUS
<1>10. /\ call' = [call EXCEPT ![c] = k] /\ k \in OmpCallRecords /\ k.fed = j.fed
       /\ k.cancelled = j.cancelled /\ k.gen = g /\ k.pc = "done"
       /\ j.end = "error" => k.end = "error"
  <2>1. call' = [call EXCEPT ![c] = k] BY <1>1, <1>5, <1>6, <1>8, <1>9 DEF O!Unlock
  <2>2. last \in {"silent", "error", "endTurn", "cancelled"} BY <1>5, <1>6, <1>8
  <2> QED BY <1>2, <1>6, <1>8, <1>9, <2>1, <2>2 DEF OmpCallRecords, OmpCallPCs
<1>11. procs' = [procs EXCEPT ![g] = q] BY <1>1, <1>2, <1>3, <1>5, <1>7 DEF O!Unlock
<1>12. 0 \in 0 .. MaxCalls BY DEF CallBounds
<1>13. OmpPeerOK(q) /\ q.turn = 0 /\ q.up = p.up /\ OmpOf(q) = OmpOf(p)
  BY <1>6, <1>7, <1>12, OmpPeerTurn
<1>14. c \notin OmpOf(q)
  <2>1. CASE j.pc = "start" BY <1>6, <1>13, <2>1
  <2>2. CASE p.killed \/ (~p.up /\ p.out = <<>>)
    <3>1. p.out = <<>> /\ p.todo = <<>> BY <1>6, <2>2 DEF OmpPeerOK
    <3> QED BY <1>13, <3>1, WireEmpty DEF OmpOf
  <2> QED BY <1>4, <2>1, <2>2
<1>15. /\ O!Broken(c) => k.cancelled \/ k.end = "error"
       /\ \A d \in k.fed \ {c} : d \in call[c].fed \/ OmpAstray(d)
       /\ call[c].fed \subseteq k.fed /\ k.gen = call[c].gen /\ g = call[c].gen
       /\ call[c].pc \in {"tools", "start", "send", "read"}
       /\ OmpOf(q) \subseteq OmpOf(procs[g]) \cup {c} /\ (q.up => procs[g].up)
  BY <1>1, <1>2, <1>3, <1>4, <1>10, <1>13 DEF O!Broken
<1> QED BY <1>4, <1>10, <1>11, <1>13, <1>14, <1>15, OmpTurnInv

(* A frame is taken from the output.                                       *)
LEMMA OmpFramesInv ==
  ASSUME CallBounds, OmpInv, NEW c \in O!Calls,
         \/ O!Delta(c) \/ O!DeltaOnClosed(c) \/ O!Refused(c) \/ O!Skip(c)
         \/ O!DeltaCancelled(c) \/ O!Done(c) \/ O!ErrorFrame(c)
  PROVE  OmpInv'
<1>1. PICK j : j = call[c] OBVIOUS
<1>2. PICK g : g = j.gen OBVIOUS
<1>3. PICK p : p = procs[g] OBVIOUS
<1>4. PICK d : d = Head(p.out).of OBVIOUS
<1>5. /\ j.pc = "read" /\ UNCHANGED <<cur, faults>> /\ p.out # <<>>
      /\ O!Done(c) => Head(p.out).kind = "final"
  BY <1>1, <1>2, <1>3
  DEF O!Delta, O!DeltaOnClosed, O!Refused, O!Skip, O!DeltaCancelled, O!Done, O!ErrorFrame, O!Frame,
    O!At, O!Proc
<1>6. /\ j \in OmpCallRecords /\ call \in [O!Calls -> OmpCallRecords] /\ g \in 1 .. Len(procs) /\ OmpPeerOK(p)
      /\ procs \in Seq(OmpPeerRecords) /\ \A u \in O!Calls \ {c} : ~OmpReads(u, g)
      /\ j.end \in {"none", "error"} /\ p.turn = c
  BY <1>1, <1>2, <1>3, <1>5, OmpTurnOwner
<1>7. PICK r : r = O!Taken(p) OBVIOUS
<1>8. /\ OmpPeerOK(r) /\ r.up = p.up /\ r.turn = p.turn /\ OmpOf(r) \subseteq OmpOf(p) /\ d \in OmpOf(p)
      /\ Head(p.out).kind = "final" => d \notin OmpOf(r)
  BY <1>4, <1>5, <1>6, <1>7, OmpPeerTaken
<1>9. d \in O!Calls /\ (d = c \/ OmpAstray(d))
  <2>1. OmpOf(p) \subseteq O!Calls /\ \A u \in OmpOf(p) : OmpAstray(u) \/ OmpReads(u, g)
    BY <1>3, <1>6, OmpFacts DEF OmpInv
  <2> QED BY <1>6, <1>8, <2>1
<1>10. PICK fed \in SUBSET O!Calls : fed = j.fed \cup {d} BY <1>6, <1>9 DEF OmpCallRecords
<1>11. PICK k : k = call'[c] OBVIOUS
<1>12. CASE O!Delta(c) \/ O!DeltaOnClosed(c) \/ O!Refused(c) \/ O!Skip(c)
  <2>1. /\ call' = [call EXCEPT ![c] = k] /\ k \in OmpCallRecords /\ k.fed \in {fed, j.fed}
        /\ k.cancelled = j.cancelled /\ k.gen = g /\ k.pc \in {"read", "panic"}
        /\ k.end \in {j.end, "error"}
    <3>1. /\ call' = [call EXCEPT ![c] = k]
          /\ \/ k = [j EXCEPT !.fed = fed]
             \/ k = j
             \/ k = [j EXCEPT !.pc = "panic"]
             \/ k = [j EXCEPT !.end = "error"]
      <4>1. \/ call' = [call EXCEPT ![c].fed = fed]
            \/ call' = call
            \/ call' = [call EXCEPT ![c].pc = "panic"]
            \/ call' = [call EXCEPT ![c].end = IF j.end = "none" THEN "error" ELSE j.end]
        BY <1>1, <1>2, <1>3, <1>4, <1>6, <1>10, <1>12
        DEF O!Delta, O!DeltaOnClosed, O!Refused, O!Skip, O!Feed, O!Proc, O!Goto
      <4>2. (IF j.end = "none" THEN "error" ELSE j.end) = "error" BY <1>6
      <4> QED BY <1>1, <1>6, <1>11, <4>1, <4>2
    <3> QED BY <1>2, <1>5, <1>6, <1>10, <3>1 DEF OmpCallRecords, OmpCallPCs
  <2>2. procs' = [procs EXCEPT ![g] = r]
    BY <1>1, <1>2, <1>3, <1>7, <1>12 DEF O!Delta, O!DeltaOnClosed, O!Refused, O!Skip, O!Rest
  <2>3. /\ O!Broken(c) => k.cancelled \/ k.end = "error"
        /\ \A e \in k.fed \ {c} : e \in call[c].fed \/ OmpAstray(e)
        /\ call[c].fed \subseteq k.fed /\ k.gen = call[c].gen /\ g = call[c].gen
        /\ OmpOf(r) \subseteq OmpOf(procs[g]) \cup {c} /\ (r.up => procs[g].up)
        /\ call[c].pc = "read" /\ r.turn = procs[g].turn
        /\ k.end \in {"none", "error"}
    BY <1>1, <1>2, <1>3, <1>5, <1>6, <1>8, <1>9, <1>10, <2>1 DEF O!Broken
  <2> QED BY <1>5, <1>8, <2>1, <2>2, <2>3, OmpTurnInv
<1>13. CASE O!DeltaCancelled(c) \/ O!Done(c) \/ O!ErrorFrame(c)
  <2>1. /\ call' = [call EXCEPT ![c] = k] /\ k \in OmpCallRecords
        /\ k.cancelled = j.cancelled /\ k.gen = g /\ k.pc = "done"
        /\ j.end = "error" => k.end = "error"
        /\ \/ k.fed = j.fed /\ (j.cancelled \/ k.end = "error")
           \/ k.fed = fed /\ Head(p.out).kind = "final"
    <3>1. PICK end \in {"cancelled", "error", "endTurn"} :
            \/ /\ call' = [call EXCEPT ![c].pc = "done", ![c].end = IF j.end = "none" THEN end ELSE j.end]
               /\ j.cancelled \/ end = "error"
            \/ /\ call' = [call EXCEPT ![c].pc = "done", ![c].end = IF j.end = "none" THEN end ELSE j.end,
                                       ![c].fed = fed]
               /\ Head(p.out).kind = "final"
      <4>1. CASE O!DeltaCancelled(c)
        <5>1. call[c].cancelled /\ O!Unlock(c, O!Rest(c), "cancelled") BY <4>1 DEF O!DeltaCancelled
        <5> QED BY <1>1, <5>1 DEF O!Unlock
      <4>2. CASE O!ErrorFrame(c)
        <5>1. O!Unlock(c, O!Rest(c), "error") BY <4>2 DEF O!ErrorFrame
        <5> QED BY <1>1, <5>1 DEF O!Unlock
      <4>3. CASE O!Done(c)
        <5>1. O!Feed(c) = fed BY <1>1, <1>2, <1>3, <1>4, <1>10 DEF O!Feed, O!Proc
        <5>2. call' = [call EXCEPT ![c].pc = "done", ![c].end = IF @ = "none" THEN "endTurn" ELSE @,
                                   ![c].fed = fed]
          BY <4>3, <5>1 DEF O!Done
        <5> QED BY <1>1, <1>5, <4>3, <5>2
      <4> QED BY <1>13, <4>1, <4>2, <4>3
    <3>2. PICK last : last = IF j.end = "none" THEN end ELSE j.end OBVIOUS
    <3>3. /\ last \in {"cancelled", "error", "endTurn"} /\ (j.end = "error" => last = "error")
          /\ end = "error" => last = "error"
      BY <1>6, <3>1, <3>2
    <3>4. /\ call' = [call EXCEPT ![c] = k]
          /\ \/ k = [j EXCEPT !.pc = "done", !.end = last] /\ (j.cancelled \/ last = "error")
             \/ k = [j EXCEPT !.pc = "done", !.end = last, !.fed = fed] /\ Head(p.out).kind = "final"
      BY <1>1, <1>6, <1>11, <3>1, <3>2, <3>3
    <3> QED BY <1>2, <1>6, <1>10, <3>3, <3>4 DEF OmpCallRecords, OmpCallPCs
  <2>2. PICK q : q = [r EXCEPT !.turn = 0] OBVIOUS
  <2>3. procs' = [procs EXCEPT ![g] = q]
    <3>1. PICK ps : ps = [procs EXCEPT ![g] = r] OBVIOUS
    <3>2. ps[g] = r BY <1>6, <1>8, <3>1 DEF OmpPeerOK
    <3>3. procs' = [ps EXCEPT ![g].turn = 0]
      BY <1>1, <1>2, <1>3, <1>7, <1>13, <3>1 DEF O!DeltaCancelled, O!Done, O!ErrorFrame, O!Unlock,
        O!Rest
    <3>4. procs' = [ps EXCEPT ![g] = q] BY <2>2, <3>2, <3>3
    <3> QED BY <1>6, <1>8, <3>1, <3>4 DEF OmpPeerOK
  <2>4. 0 \in 0 .. MaxCalls BY DEF CallBounds
  <2>5. OmpPeerOK(q) /\ q.turn = 0 /\ q.up = r.up /\ OmpOf(q) = OmpOf(r)
    BY <1>8, <2>2, <2>4, OmpPeerTurn
  <2>6. c \in OmpOf(q) => k.cancelled \/ k.end = "error" \/ k.fed \ {c} # {}
    BY <1>8, <1>10, <2>1, <2>5
  <2>7. /\ O!Broken(c) => k.cancelled \/ k.end = "error"
        /\ \A e \in k.fed \ {c} : e \in call[c].fed \/ OmpAstray(e)
        /\ call[c].fed \subseteq k.fed /\ k.gen = call[c].gen /\ g = call[c].gen
        /\ OmpOf(q) \subseteq OmpOf(procs[g]) \cup {c} /\ (q.up => procs[g].up)
        /\ call[c].pc = "read"
    BY <1>1, <1>2, <1>3, <1>5, <1>8, <1>9, <1>10, <2>1, <2>5 DEF O!Broken
  <2> QED BY <1>5, <2>1, <2>3, <2>5, <2>6, <2>7, OmpTurnInv
<1> QED BY <1>12, <1>13

-----------------------------------------------------------------------------
(* A call goes on without touching a process.                              *)
LEMMA OmpQuietInv ==
  ASSUME CallBounds, OmpInv, NEW c \in O!Calls, O!Call(c) \/ O!Reuse(c) \/ O!Cancel(c)
  PROVE  OmpInv'
<1>1. PICK j : j = call[c] OBVIOUS
<1>2. PICK k : k = call'[c] OBVIOUS
<1>3. /\ UNCHANGED <<procs, cur>> /\ j \in OmpCallRecords /\ call \in [O!Calls -> OmpCallRecords]
      /\ cur \in 0 .. Len(procs) /\ Len(procs) \in Nat /\ j.gen \in Nat /\ j.gen <= Len(procs)
      /\ faults' = faults \/ (faults < MaxFaults /\ faults' = faults + 1)
  BY <1>1, OmpFacts DEF O!Call, O!Reuse, O!Cancel, O!Fault, OmpTypes
<1>4. /\ call' = [call EXCEPT ![c] = k] /\ k \in OmpCallRecords /\ k.fed = j.fed /\ k.end = j.end
      /\ j.cancelled => k.cancelled
      /\ \/ j.pc = "idle" /\ k.pc = "ensure" /\ k.gen = j.gen
         \/ j.pc = "ensure" /\ k.pc = "lock" /\ k.gen = cur /\ cur # 0
         \/ k.pc = j.pc /\ k.gen = j.gen
  <2>1. /\ call' = [call EXCEPT ![c] = k]
        /\ \/ j.pc = "idle" /\ \E tools \in BOOLEAN : k = [j EXCEPT !.pc = "ensure", !.tools = tools]
           \/ j.pc = "ensure" /\ cur # 0 /\ k = [j EXCEPT !.pc = "lock", !.gen = cur]
           \/ k = [j EXCEPT !.cancelled = TRUE]
    BY <1>1, <1>2, <1>3 DEF O!Call, O!Reuse, O!Cancel, O!At
  <2>2. PICK n \in Nat : n = cur BY <1>3
  <2> QED BY <1>3, <2>1, <2>2 DEF OmpCallRecords, OmpCallPCs
<1>5. OmpTypes' /\ Len(procs') >= Len(procs)
  <2>1. k.gen <= Len(procs') BY <1>3, <1>4
  <2>2. procs' \in Seq(OmpPeerRecords) /\ Len(procs') \in {Len(procs), Len(procs) + 1}
    BY <1>3, OmpFacts
  <2>3. cur' \in 0 .. Len(procs') BY <1>3
  <2> HIDE DEF OmpTypes
  <2> QED BY <1>3, <1>4, <2>1, <2>2, <2>3, OmpTypesStep
<1>6. OmpKnown' BY <1>3 DEF OmpKnown, OmpInv
<1>7. \A u \in O!Calls \ {c} : call'[u] = call[u] BY <1>3, <1>4
<1>8. OmpCallOK(c) BY DEF OmpInv
<1>9. /\ O!Broken(c) => O!Broken(c)'
      /\ OmpAstray(c) => OmpAstray(c)'
      /\ OmpHasAsked(c) => OmpHasAsked(c)'
      /\ \A h : (OmpReads(c, h)' <=> OmpReads(c, h)) /\ (OmpLocks(c, h)' <=> OmpLocks(c, h))
  BY <1>1, <1>2, <1>4 DEF O!Broken, OmpAstray, O!Misled, OmpHasAsked, OmpReads, OmpLocks
<1>10. /\ call[c].fed \subseteq call'[c].fed
       /\ \A d \in call'[c].fed \ {c} : d \in call[c].fed \/ OmpAstray(d)
       /\ call'[c].pc # "done" => call'[c].end \in {"none", "error"}
       /\ call'[c].pc \in {"lock", "tools", "start", "send", "read", "panic"} =>
            call'[c].gen \in 1 .. Len(procs')
  BY <1>1, <1>2, <1>3, <1>4, <1>8 DEF OmpCallOK
<1>11. ASSUME NEW h \in 1 .. Len(procs')
       PROVE  /\ OmpPeerOK(procs'[h])
              /\ h \in 1 .. Len(procs) /\ OmpOf(procs'[h]) \subseteq OmpOf(procs[h]) \cup {c}
              /\ c \in OmpOf(procs'[h]) => OmpHasAsked(c)' /\ (OmpAstray(c)' \/ OmpReads(c, h)')
              /\ procs'[h].turn = procs[h].turn /\ (OmpLocks(c, h)' <=> OmpLocks(c, h))
  <2>1. h \in 1 .. Len(procs) /\ procs'[h] = procs[h] BY <1>3
  <2> QED BY <1>9, <2>1 DEF OmpInv
<1> QED BY <1>5, <1>6, <1>7, <1>9, <1>10, <1>11, OmpStep

(* Without the process of another routing.                                 *)
LEMMA OmpOtherEnded ==
  ASSUME CallBounds, OmpInv
  PROVE  /\ O!WithoutOther \in Seq(OmpPeerRecords) /\ Len(O!WithoutOther) = Len(procs)
         /\ \A h \in 1 .. Len(procs) :
              LET p == O!WithoutOther[h]
              IN  OmpPeerOK(p) /\ ~p.up /\ p.turn = procs[h].turn /\ OmpOf(p) \subseteq OmpOf(procs[h])
<1>1. /\ procs \in Seq(OmpPeerRecords) /\ cur \in Nat /\ cur <= Len(procs) /\ Len(procs) \in Nat
      /\ \A h \in 1 .. Len(procs) : OmpPeerOK(procs[h]) /\ (procs[h].up => h = cur)
  BY OmpFacts DEF OmpInv, OmpKnown
<1>2. CASE cur = 0
  <2>1. O!WithoutOther = procs BY <1>2 DEF O!WithoutOther
  <2>2. \A h \in 1 .. Len(procs) : h # 0 OBVIOUS
  <2> QED BY <1>1, <1>2, <2>1, <2>2
<1>3. CASE cur # 0
  <2>1. PICK g : g = cur OBVIOUS
  <2>2. g \in 1 .. Len(procs) BY <1>1, <1>3, <2>1
  <2>3. PICK q : q = O!Drained(O!Killed(procs[g])) OBVIOUS
  <2>4. /\ OmpPeerOK(q) /\ OmpOf(q) = {} /\ ~q.up /\ q.turn = procs[g].turn /\ q \in OmpPeerRecords
    BY <1>1, <2>2, <2>3, OmpPeer DEF OmpPeerOK
  <2>5. O!WithoutOther = [procs EXCEPT ![g] = q] BY <1>3, <2>1, <2>3 DEF O!WithoutOther
  <2>6. \A h \in 1 .. Len(procs) : O!WithoutOther[h] = IF h = g THEN q ELSE procs[h]
    BY <1>1, <2>5
  <2>7. O!WithoutOther \in Seq(OmpPeerRecords) /\ Len(O!WithoutOther) = Len(procs)
    BY <1>1, <2>2, <2>4, <2>5
  <2> QED BY <1>1, <2>1, <2>4, <2>6, <2>7
<1> QED BY <1>2, <1>3

(* A call starts a process, or fails to.                                   *)
LEMMA OmpStartsInv ==
  ASSUME CallBounds, OmpInv, NEW c \in O!Calls, O!Start(c) \/ O!StartFails(c)
  PROVE  OmpInv'
<1>1. PICK j : j = call[c] OBVIOUS
<1>2. PICK n : n = Len(procs) OBVIOUS
<1>3. PICK ps : ps = O!WithoutOther OBVIOUS
<1>4. /\ j \in OmpCallRecords /\ call \in [O!Calls -> OmpCallRecords] /\ n \in Nat /\ j.pc = "ensure"
      /\ j.gen \in Nat /\ j.gen <= n
      /\ ps \in Seq(OmpPeerRecords) /\ Len(ps) = n
      /\ \A h \in 1 .. n : /\ OmpPeerOK(ps[h]) /\ ~ps[h].up /\ ps[h].turn = procs[h].turn
                           /\ OmpOf(ps[h]) \subseteq OmpOf(procs[h])
  BY <1>1, <1>2, <1>3, OmpFacts, OmpOtherEnded DEF O!Start, O!StartFails, O!At
<1>5. PICK m \in Nat : m = n + 1 BY <1>4
<1>6. PICK q : q = O!FreshOf(c) OBVIOUS
<1>7. OmpPeerOK(q) /\ OmpOf(q) = {} /\ q.turn = 0 /\ q \in OmpPeerRecords
  BY <1>6, OmpPeerFresh DEF OmpPeerOK
<1>8. \/ O!Start(c) /\ procs' = Append(ps, q) /\ cur' = m /\ Len(procs') = m
      \/ O!StartFails(c) /\ procs' = ps /\ cur' = 0 /\ Len(procs') = n
  <2>1. O!Start(c) => procs' = Append(ps, q) /\ cur' = Len(procs') BY <1>3, <1>6 DEF O!Start
  <2>2. O!StartFails(c) => procs' = ps /\ cur' = 0 BY <1>3 DEF O!StartFails
  <2>3. Len(Append(ps, q)) = m BY <1>4, <1>5, <1>7
  <2> QED BY <1>4, <2>1, <2>2, <2>3
<1>9. PICK k : k = call'[c] OBVIOUS
<1>10. /\ call' = [call EXCEPT ![c] = k] /\ k \in OmpCallRecords /\ k.fed = j.fed
       /\ k.cancelled = j.cancelled /\ (j.end = "error" => k.end = "error")
       /\ \/ O!Start(c) /\ k.pc = "lock" /\ k.gen = m /\ k.end = j.end
          \/ O!StartFails(c) /\ k.pc = "done" /\ k.gen = j.gen
  <2>1. /\ call' = [call EXCEPT ![c] = k]
        /\ \/ O!Start(c) /\ k = [j EXCEPT !.pc = "lock", !.gen = m]
           \/ O!StartFails(c) /\ k = [j EXCEPT !.pc = "done", !.end = "error"]
    <3>1. \/ O!Start(c) /\ call' = [call EXCEPT ![c].pc = "lock", ![c].gen = m]
          \/ O!StartFails(c) /\ call' = [call EXCEPT ![c].pc = "done", ![c].end = "error"]
      <4>1. CASE O!Start(c)
        <5>1. cur' = m BY <1>4, <1>5, <1>7, <1>3, <1>6, <4>1 DEF O!Start
        <5> QED BY <4>1, <5>1 DEF O!Start
      <4>2. CASE O!StartFails(c) BY <4>2 DEF O!StartFails
      <4> QED BY <4>1, <4>2
    <3> QED BY <1>1, <1>4, <1>9, <3>1
  <2> QED BY <1>4, <2>1 DEF OmpCallRecords, OmpCallPCs
<1>11. /\ procs' \in Seq(OmpPeerRecords)
       /\ \A h \in 1 .. n : procs'[h] = ps[h]
       /\ Len(procs') = m => procs'[m] = q /\ O!Start(c) /\ cur' = m
       /\ Len(procs') # m => Len(procs') = n
       /\ \A h \in 1 .. m : h \in 1 .. n \/ h = m
  <2>1. \A h \in 1 .. m : h \in 1 .. n \/ h = m BY <1>4, <1>5
  <2>2. m # n BY <1>4, <1>5
  <2>3. /\ Append(ps, q) \in Seq(OmpPeerRecords) /\ Append(ps, q)[m] = q
        /\ \A h \in 1 .. n : Append(ps, q)[h] = ps[h]
    BY <1>4, <1>5, <1>7
  <2> QED BY <1>4, <1>8, <2>1, <2>2, <2>3
<1>12. OmpTypes' /\ Len(procs') >= Len(procs)
  <2>1. faults' = faults \/ (faults < MaxFaults /\ faults' = faults + 1)
    BY DEF O!Start, O!StartFails, O!Fault
  <2>2. k.gen <= Len(procs') BY <1>4, <1>5, <1>8, <1>10 DEF O!StartFails, O!At, O!Start
  <2>3. cur' \in 0 .. Len(procs') BY <1>4, <1>5, <1>8
  <2>4. Len(procs') \in {Len(procs), Len(procs) + 1} BY <1>2, <1>5, <1>8
  <2>5. procs' \in Seq(OmpPeerRecords) BY <1>11
  <2>6. \E u \in O!Calls, l \in OmpCallRecords :
          call' = [call EXCEPT ![u] = l] /\ l.gen <= Len(procs')
    BY <1>10, <2>2
  <2> QED BY <2>1, <2>3, <2>4, <2>5, <2>6, OmpTypesStep
<1>13. OmpKnown'
  <2>1. ASSUME NEW h \in 1 .. Len(procs'), procs'[h].up PROVE h = cur'
    <3>1. h \notin 1 .. n BY <1>4, <1>11, <2>1
    <3>2. Len(procs') = m BY <1>11, <3>1
    <3> QED BY <1>11, <3>1, <3>2
  <2> QED BY <2>1 DEF OmpKnown
<1>14. \A u \in O!Calls \ {c} : call'[u] = call[u] BY <1>4, <1>10
<1>15. /\ ~OmpHasAsked(c) /\ (O!Broken(c) => O!Broken(c)')
       /\ \A h : ~OmpReads(c, h) /\ ~OmpLocks(c, h) /\ ~OmpReads(c, h)' /\ ~OmpLocks(c, h)'
  BY <1>1, <1>4, <1>9, <1>10 DEF OmpHasAsked, OmpReads, OmpLocks, O!Broken
<1>16. OmpCallOK(c) BY DEF OmpInv
<1>17. /\ call[c].fed \subseteq call'[c].fed
       /\ \A d \in call'[c].fed \ {c} : d \in call[c].fed \/ OmpAstray(d)
       /\ call'[c].pc # "done" => call'[c].end \in {"none", "error"}
       /\ call'[c].pc \in {"lock", "tools", "start", "send", "read", "panic"} =>
            call'[c].gen \in 1 .. Len(procs')
  BY <1>1, <1>4, <1>5, <1>8, <1>9, <1>10, <1>16 DEF OmpCallOK, O!Start, O!StartFails
<1>18. ASSUME NEW h \in 1 .. Len(procs')
       PROVE  /\ OmpPeerOK(procs'[h])
              /\ \/ OmpOf(procs'[h]) = {} /\ procs'[h].turn = 0 /\ \A u \in O!Calls : ~OmpLocks(u, h)'
                 \/ /\ h \in 1 .. Len(procs) /\ OmpOf(procs'[h]) \subseteq OmpOf(procs[h]) \cup {c}
                    /\ c \notin OmpOf(procs'[h])
                    /\ procs'[h].turn = procs[h].turn /\ (OmpLocks(c, h)' <=> OmpLocks(c, h))
  <2>1. CASE h \in 1 .. n
    <3>1. c \notin OmpOf(procs[h]) BY <1>2, <1>15, <2>1 DEF OmpInv
    <3> QED BY <1>2, <1>4, <1>11, <1>15, <2>1, <3>1
  <2>2. CASE h \notin 1 .. n
    <3>1. h = m /\ procs'[h] = q BY <1>11, <2>2
    <3>2. ASSUME NEW u \in O!Calls PROVE ~OmpLocks(u, h)'
      <4>1. CASE u = c BY <1>15, <4>1
      <4>2. CASE u # c
        <5>1. call[u].gen \in Nat /\ call[u].gen <= n BY <1>2, OmpFacts
        <5>2. call[u].gen # h BY <1>4, <1>5, <3>1, <5>1
        <5> QED BY <1>14, <4>2, <5>2 DEF OmpLocks
      <4> QED BY <4>1, <4>2
    <3> QED BY <1>7, <3>1, <3>2
  <2> QED BY <2>1, <2>2
<1> QED BY <1>12, <1>13, <1>14, <1>15, <1>17, <1>18, OmpStep

(* Close, and the process at work.                                         *)
LEMMA OmpOthersInv ==
  ASSUME CallBounds, OmpInv,
         O!Close \/ \E g \in DOMAIN procs : O!StarterIsDone(g) \/ O!PeerSays(g) \/ O!PeerDies(g)
  PROVE  OmpInv'
<1>1. /\ Len(procs) \in Nat /\ cur \in Nat /\ cur <= Len(procs) /\ procs \in Seq(OmpPeerRecords)
      /\ call' = call /\ DOMAIN procs = 1 .. Len(procs)
      /\ faults' = faults \/ (faults < MaxFaults /\ faults' = faults + 1)
      /\ \A h \in 1 .. Len(procs) : OmpPeerOK(procs[h]) /\ (procs[h].up => h = cur)
  BY OmpFacts DEF O!Close, O!StarterIsDone, O!PeerSays, O!PeerDies, O!Fault, OmpInv, OmpKnown
<1>2. \E g \in 1 .. Len(procs) : \E q :
        /\ procs' = [procs EXCEPT ![g] = q] /\ OmpPeerOK(q) /\ q.turn = procs[g].turn
        /\ OmpOf(q) \subseteq OmpOf(procs[g]) /\ (q.up => procs[g].up)
        /\ cur' = cur \/ (cur' = 0 /\ cur = g /\ ~q.up)
  <2>1. CASE O!Close
    <3>1. PICK g : g = cur OBVIOUS
    <3>2. g \in 1 .. Len(procs) BY <1>1, <2>1, <3>1 DEF O!Close
    <3>3. PICK q : q = O!Drained(O!Killed(procs[g])) OBVIOUS
    <3>4. OmpPeerOK(q) /\ OmpOf(q) = {} /\ ~q.up /\ q.turn = procs[g].turn
      BY <1>1, <3>2, <3>3, OmpPeer
    <3>5. procs' = [procs EXCEPT ![g] = q] /\ cur' = 0 BY <2>1, <3>1, <3>3 DEF O!Close
    <3> QED BY <3>1, <3>2, <3>4, <3>5
  <2>2. CASE \E g \in DOMAIN procs : O!StarterIsDone(g) \/ O!PeerSays(g) \/ O!PeerDies(g)
    <3>1. PICK g \in 1 .. Len(procs) : O!StarterIsDone(g) \/ O!PeerSays(g) \/ O!PeerDies(g)
      BY <1>1, <2>2
    <3>2. PICK p : p = procs[g] OBVIOUS
    <3>3. OmpPeerOK(p) /\ cur' = cur BY <1>1, <3>1, <3>2 DEF O!StarterIsDone, O!PeerSays, O!PeerDies
    <3>4. CASE O!PeerSays(g)
      <4>1. PICK sort \in FrameKinds : procs' = [procs EXCEPT ![g] = O!Said(p, sort)]
        BY <3>2, <3>4 DEF O!PeerSays, FrameKinds
      <4>2. O!Serves(p) BY <3>2, <3>4 DEF O!PeerSays
      <4>3. PICK q : q = O!Said(p, sort) OBVIOUS
      <4>4. OmpPeerOK(q) /\ q.up = p.up /\ q.turn = p.turn /\ OmpOf(q) \subseteq OmpOf(p)
        BY <3>3, <4>1, <4>2, <4>3, OmpPeerSaid
      <4> QED BY <3>2, <3>3, <4>1, <4>3, <4>4
    <3>5. CASE O!StarterIsDone(g) \/ O!PeerDies(g)
      <4>1. PICK q : q = O!Died(p) OBVIOUS
      <4>2. OmpPeerOK(q) /\ ~q.up /\ q.turn = p.turn /\ OmpOf(q) \subseteq OmpOf(p)
        BY <3>3, <4>1, OmpPeer
      <4>3. procs' = [procs EXCEPT ![g] = q] BY <3>2, <3>5, <4>1 DEF O!StarterIsDone, O!PeerDies
      <4> QED BY <3>2, <3>3, <4>2, <4>3
    <3> QED BY <3>1, <3>4, <3>5
  <2> QED BY <2>1, <2>2
<1>3. PICK g \in 1 .. Len(procs) : \E q :
        /\ procs' = [procs EXCEPT ![g] = q] /\ OmpPeerOK(q) /\ q.turn = procs[g].turn
        /\ OmpOf(q) \subseteq OmpOf(procs[g]) /\ (q.up => procs[g].up)
        /\ cur' = cur \/ (cur' = 0 /\ cur = g /\ ~q.up)
  BY <1>2
<1>4. PICK q :
        /\ procs' = [procs EXCEPT ![g] = q] /\ OmpPeerOK(q) /\ q.turn = procs[g].turn
        /\ OmpOf(q) \subseteq OmpOf(procs[g]) /\ (q.up => procs[g].up)
        /\ cur' = cur \/ (cur' = 0 /\ cur = g /\ ~q.up)
  BY <1>3
<1>5. q \in OmpPeerRecords BY <1>4 DEF OmpPeerOK
<1>6. /\ procs' \in Seq(OmpPeerRecords) /\ Len(procs') = Len(procs)
      /\ \A h \in 1 .. Len(procs) : procs'[h] = IF h = g THEN q ELSE procs[h]
  BY <1>1, <1>4, <1>5
<1>7. OmpTypes' /\ Len(procs') >= Len(procs)
  <2>1. cur' \in 0 .. Len(procs') BY <1>1, <1>4, <1>6
  <2>2. Len(procs') \in {Len(procs), Len(procs) + 1} BY <1>6
  <2> QED BY <1>1, <1>6, <2>1, <2>2, OmpTypesStep
<1>8. OmpKnown' BY <1>1, <1>4, <1>6 DEF OmpKnown
<1>9. 0 \notin O!Calls BY DEF O!Calls
<1>10. \A u \in O!Calls \ {0} : call'[u] = call[u] BY <1>1
<1>11. ASSUME NEW h \in 1 .. Len(procs')
       PROVE  /\ OmpPeerOK(procs'[h]) /\ h \in 1 .. Len(procs)
              /\ OmpOf(procs'[h]) \subseteq OmpOf(procs[h]) \cup {0}
              /\ procs'[h].turn = procs[h].turn
  BY <1>1, <1>4, <1>6
<1> QED BY <1>7, <1>8, <1>9, <1>10, <1>11, OmpStep

(* No step of the omp backend disturbs OmpInv.                             *)
LEMMA OmpNext ==
  ASSUME CallBounds, OmpInv, [O!Next]_(O!vars)
  PROVE  OmpInv'
<1>1. CASE UNCHANGED O!vars
  BY <1>1 DEF O!vars, OmpInv, OmpTypes, OmpOrigin, O!Misled, O!Broken, OmpKnown, OmpCallOK,
    OmpAstray, OmpReads, OmpLocks,
     OmpHasAsked
<1>2. CASE O!Next
  BY <1>2, OmpQuietInv, OmpStartsInv, OmpBeginInv, OmpEndsInv, OmpFramesInv, OmpOthersInv DEF O!Next
<1> QED BY <1>1, <1>2

(* What OmpInv is for.                                                     *)
LEMMA OmpKeeps ==
  ASSUME OmpInv
  PROVE  O!OwnFrames /\ O!NoneIsLost
<1>1. O!OwnFrames BY DEF OmpInv, OmpCallOK, OmpAstray, OmpOrigin, O!OwnFrames
<1>2. O!NoneIsLost BY DEF OmpInv, OmpTypes, OmpKnown, O!NoneIsLost
<1> QED BY <1>1, <1>2

-----------------------------------------------------------------------------
(* The servers of OpenCode.                                                *)
OpenPCs ==
  {"idle", "lock", "recheck", "probe", "ready", "publish", "sse", "session", "prompt", "done", "error"}

OpenCalls ==
  [pc : OpenPCs, port : Ports \cup {H!None}, started : Nat, ctx : H!Calls \cup {H!None},
   from : SUBSET Nat, stale : BOOLEAN]

OpenServers == [port : Ports \cup {H!None}, owned : BOOLEAN, up : BOOLEAN]

OpenTypes ==
  /\ server \in Seq(OpenServers)
  /\ srv \in 0 .. Len(server)
  /\ base \in Ports \cup {H!None}
  /\ context \in H!Calls \cup {H!None}
  /\ call \in [H!Calls -> OpenCalls]

OpenSpawns(pc) == pc \in {"recheck", "probe", "ready", "publish"}

(* What a call has started it starts under spawnMu, and while it does the  *)
(* backend holds no server: only the holder of spawnMu publishes one.      *)
OpenPlaces ==
  /\ \A c \in H!Calls : spawning = c <=> OpenSpawns(call[c].pc)
  /\ spawning \in H!Calls \cup {H!None}
  /\ \A c \in H!Calls : call[c].started \in 0 .. Len(server)
  /\ \A c \in H!Calls : call[c].pc \in {"idle", "lock", "recheck", "probe"} => call[c].started = H!None
  /\ \A c \in H!Calls : call[c].pc \in {"probe", "ready", "publish"} => srv = H!None

OpenInv == OpenTypes /\ OpenPlaces /\ H!NoneIsLost

-----------------------------------------------------------------------------
(* Without servers and calls OpenInv holds.                                *)
LEMMA OpenInit == H!Init => OpenInv
<1> SUFFICES ASSUME H!Init PROVE OpenInv OBVIOUS
<1>1. \A c \in H!Calls : call[c] = [pc |-> "idle", port |-> H!None, started |-> H!None, ctx |-> H!None,
                                  from |-> {}, stale |-> FALSE]
  BY DEF H!Init
<1>2. [pc |-> "idle", port |-> H!None, started |-> H!None, ctx |-> H!None, from |-> {}, stale |-> FALSE]
        \in OpenCalls
  BY DEF OpenCalls, OpenPCs, H!None
<1>3. call \in [H!Calls -> OpenCalls] BY <1>2 DEF H!Init
<1>4. server = <<>> /\ server \in Seq(OpenServers) /\ Len(server) = 0 /\ DOMAIN server = {}
  BY DEF H!Init
<1>5. OpenTypes BY <1>3, <1>4 DEF H!Init, OpenTypes, H!None
<1>6. 0 \notin H!Calls BY DEF H!Calls
<1>7. OpenPlaces BY <1>1, <1>4, <1>6 DEF H!Init, OpenPlaces, H!None, OpenSpawns
<1> QED BY <1>4, <1>5, <1>7 DEF H!Init, OpenInv, H!NoneIsLost, H!None

(* Ending a server keeps the others.                                       *)
LEMMA OpenEnds ==
  ASSUME OpenTypes, NEW s \in 1 .. Len(server)
  PROVE  /\ H!Terminated(s) \in Seq(OpenServers)
         /\ Len(H!Terminated(s)) = Len(server)
         /\ \A r \in 1 .. Len(server) : r # s => H!Terminated(s)[r] = server[r]
         /\ ~H!Terminated(s)[s].up
<1>1. server \in Seq(OpenServers) /\ server[s] \in OpenServers BY DEF OpenTypes
<1>2. PICK r \in OpenServers : r = [server[s] EXCEPT !.up = FALSE]
  BY <1>1 DEF OpenServers
<1>3. ~r.up BY <1>1, <1>2 DEF OpenServers
<1>4. H!Terminated(s) = [server EXCEPT ![s] = r] BY <1>1, <1>2 DEF H!Terminated
<1> QED BY <1>1, <1>3, <1>4

(* A call goes on.                                                         *)
LEMMA OpenCallGoes ==
  ASSUME OpenInv, NEW c \in H!Calls, NEW k \in OpenCalls,
         call' = [call EXCEPT ![c] = k],
         server' \in Seq(OpenServers), Len(server') \in Nat, Len(server) <= Len(server'),
         srv' \in 0 .. Len(server'),
         base' \in Ports \cup {H!None}, context' \in H!Calls \cup {H!None},
         OpenSpawns(call[c].pc) \/ spawning = H!None \/ spawning' = spawning,
         OpenSpawns(k.pc) => spawning' = c,
         ~OpenSpawns(k.pc) => spawning' = (IF spawning = c THEN H!None ELSE spawning),
         k.started \in 0 .. Len(server'),
         k.pc \in {"idle", "lock", "recheck", "probe"} => k.started = H!None,
         k.pc \in {"probe", "ready", "publish"} => srv' = H!None,
         srv' \in {H!None, srv} \/ spawning = c
  PROVE  OpenTypes' /\ OpenPlaces'
<1>1. /\ call \in [H!Calls -> OpenCalls] /\ Len(server) \in Nat /\ 0 \notin H!Calls
      /\ spawning \in H!Calls \cup {H!None} /\ H!None = 0
  BY DEF OpenInv, OpenTypes, OpenPlaces, H!Calls, H!None
<1>2. /\ call' \in [H!Calls -> OpenCalls] /\ call'[c] = k
      /\ \A d \in H!Calls \ {c} : call'[d] = call[d]
  BY <1>1
<1>3. OpenTypes' BY <1>2 DEF OpenTypes
<1>4. ASSUME NEW d \in H!Calls PROVE spawning' = d <=> OpenSpawns(call'[d].pc)
  <2>1. CASE d = c BY <1>1, <1>2, <2>1
  <2>2. CASE d # c
    <3>1. spawning = d <=> OpenSpawns(call[d].pc) BY DEF OpenInv, OpenPlaces
    <3>2. spawning = c <=> OpenSpawns(call[c].pc) BY DEF OpenInv, OpenPlaces
    <3> QED BY <1>1, <1>2, <2>2, <3>1, <3>2
  <2> QED BY <2>1, <2>2
<1>5. spawning' \in H!Calls \cup {H!None} BY <1>1
<1>6. ASSUME NEW d \in H!Calls
      PROVE  /\ call'[d].started \in 0 .. Len(server')
             /\ call'[d].pc \in {"idle", "lock", "recheck", "probe"} => call'[d].started = H!None
  <2>1. CASE d = c BY <1>2, <2>1
  <2>2. CASE d # c
    <3>1. /\ call[d].started \in 0 .. Len(server)
          /\ call[d].pc \in {"idle", "lock", "recheck", "probe"} => call[d].started = H!None
      BY DEF OpenInv, OpenPlaces
    <3> QED BY <1>1, <1>2, <2>2, <3>1
  <2> QED BY <2>1, <2>2
<1>7. ASSUME NEW d \in H!Calls, call'[d].pc \in {"probe", "ready", "publish"} PROVE srv' = H!None
  <2>1. CASE d = c BY <1>2, <1>7, <2>1
  <2>2. CASE d # c
    <3>1. srv = H!None /\ spawning = d BY <1>2, <1>7, <2>2 DEF OpenInv, OpenPlaces, OpenSpawns
    <3> QED BY <2>2, <3>1
  <2> QED BY <2>1, <2>2
<1> QED BY <1>3, <1>4, <1>5, <1>6, <1>7 DEF OpenPlaces

(* A server that ends, or one of somebody else's that comes, loses none.   *)
LEMMA OpenNothingLost ==
  ASSUME OpenInv,
         server' \in Seq(OpenServers), Len(server') \in Nat,
         \A s \in DOMAIN server' :
           server'[s].owned /\ server'[s].up =>
             /\ s \in DOMAIN server /\ server[s].owned /\ server[s].up
             /\ \/ s # srv /\ spawning' = spawning
                   /\ (spawning # H!None => call'[spawning].started = call[spawning].started)
                \/ s = srv /\ srv' = srv
                \/ spawning' # H!None /\ call'[spawning'].started = s
                \/ s = srv',
         closed' => srv' = H!None
  PROVE  H!NoneIsLost'
BY DEF OpenInv, H!NoneIsLost

-----------------------------------------------------------------------------
(* The types in OpenInv, for the steps below.                              *)
LEMMA OpenFacts ==
  ASSUME OpenInv
  PROVE  /\ server \in Seq(OpenServers) /\ Len(server) \in Nat /\ DOMAIN server = 1 .. Len(server)
         /\ srv \in 0 .. Len(server) /\ call \in [H!Calls -> OpenCalls]
         /\ base \in Ports \cup {H!None} /\ context \in H!Calls \cup {H!None}
         /\ spawning \in H!Calls \cup {H!None}
         /\ H!None = 0 /\ 0 \notin H!Calls
         /\ \A c \in H!Calls : call[c].started \in 0 .. Len(server)
BY DEF OpenInv, OpenTypes, OpenPlaces, H!None, H!Calls

(* A call goes on and the servers are as they were.                        *)
LEMMA OpenOnwards ==
  ASSUME OpenInv, NEW c \in H!Calls, NEW k \in OpenCalls,
         call' = [call EXCEPT ![c] = k],
         UNCHANGED <<server, srv, base>>, closed' = closed,
         context' \in H!Calls \cup {H!None},
         OpenSpawns(call[c].pc) \/ spawning = H!None \/ spawning' = spawning,
         OpenSpawns(k.pc) => spawning' = c,
         ~OpenSpawns(k.pc) => spawning' = (IF spawning = c THEN H!None ELSE spawning),
         k.started = call[c].started,
         k.pc \in {"idle", "lock", "recheck", "probe"} => k.started = H!None,
         k.pc \in {"probe", "ready", "publish"} => srv = H!None,
         ~OpenSpawns(k.pc) /\ spawning = c => k.started = H!None
  PROVE  OpenInv'
<1>1. OpenTypes' /\ OpenPlaces'
  <2>1. /\ server' \in Seq(OpenServers) /\ Len(server') \in Nat /\ Len(server) <= Len(server')
        /\ srv' \in 0 .. Len(server') /\ base' \in Ports \cup {H!None}
        /\ k.started \in 0 .. Len(server')
        /\ srv' \in {H!None, srv} \/ spawning = c
    BY OpenFacts
  <2>2. k.pc \in {"probe", "ready", "publish"} => srv' = H!None OBVIOUS
  <2> QED BY <2>1, <2>2, OpenCallGoes
<1>2. \A d \in H!Calls : call'[d].started = call[d].started BY OpenFacts
<1>3. spawning = H!None \/ spawning' = spawning \/ (spawning = c /\ call[c].started = H!None)
  <2>1. CASE OpenSpawns(k.pc)
    <3>1. OpenSpawns(call[c].pc) => spawning = c BY DEF OpenInv, OpenPlaces
    <3> QED BY <2>1, <3>1
  <2>2. CASE ~OpenSpawns(k.pc) BY <2>2
  <2> QED BY <2>1, <2>2
<1>4. H!NoneIsLost'
  <2>1. ASSUME NEW s \in DOMAIN server, server[s].owned, server[s].up, s # srv
        PROVE  spawning' # H!None /\ call'[spawning'].started = s
    <3>1. spawning # H!None /\ call[spawning].started = s BY <2>1 DEF OpenInv, H!NoneIsLost
    <3>2. s # H!None BY <2>1, OpenFacts
    <3> QED BY <1>2, <1>3, <3>1, <3>2, OpenFacts
  <2> QED BY <2>1 DEF OpenInv, H!NoneIsLost
<1> QED BY <1>1, <1>4 DEF OpenInv

(* A call that finds a server goes on with it.                             *)
LEMMA OpenFoundInv ==
  ASSUME OpenInv, NEW c \in H!Calls,
         (\E port \in Ports : H!FastPath(c, port)) \/ H!RecheckFound(c)
  PROVE  OpenInv'
<1>1. ASSUME NEW port \in Ports \cup {H!None}, H!Found(c, port, "sse"), closed' = closed, context' = context,
             spawning' = (IF spawning = c THEN H!None ELSE spawning),
             OpenSpawns(call[c].pc) \/ spawning' = spawning, 
             spawning = c => call[c].started = H!None
      PROVE  OpenInv'
  <2>1. PICK b \in BOOLEAN : b = (srv # H!None /\ ~server[srv].up)
    BY OpenFacts DEF OpenServers
  <2>2. PICK k : k = [call[c] EXCEPT !.pc = "sse", !.port = port, !.stale = b] OBVIOUS
  <2>3. call[c] \in OpenCalls BY OpenFacts
  <2>4. k \in OpenCalls /\ k.pc = "sse" /\ k.started = call[c].started
    BY <2>2, <2>3 DEF OpenCalls, OpenPCs
  <2>5. call' = [call EXCEPT ![c] = k] BY <1>1, <2>1, <2>2, OpenFacts DEF H!Found
  <2>6. UNCHANGED <<server, srv, base>> BY <1>1 DEF H!Found
  <2>7. ~OpenSpawns(k.pc) BY <2>4 DEF OpenSpawns
  <2> QED BY <1>1, <2>4, <2>5, <2>6, <2>7, OpenFacts, OpenOnwards
<1>2. ASSUME NEW port \in Ports, H!FastPath(c, port) PROVE OpenInv'
  <2>1. H!Found(c, port, "sse") /\ UNCHANGED <<context, spawning, closed>> /\ call[c].pc = "idle"
    BY <1>2 DEF H!FastPath, H!InOrder, H!At
  <2>2. spawning # c BY <2>1 DEF OpenInv, OpenPlaces, OpenSpawns
  <2> QED BY <1>1, <2>1, <2>2
<1>3. CASE H!RecheckFound(c)
  <2>1. H!Found(c, call[c].port, "sse") /\ UNCHANGED <<context, closed>> /\ call[c].pc = "recheck"
        /\ spawning' = H!None
    BY <1>3 DEF H!RecheckFound, H!At
  <2>2. call[c].port \in Ports \cup {H!None} BY OpenFacts DEF OpenCalls
  <2>3. spawning = c /\ call[c].started = H!None /\ OpenSpawns(call[c].pc)
    BY <2>1 DEF OpenInv, OpenPlaces, OpenSpawns
  <2> QED BY <1>1, <2>1, <2>2, <2>3
<1> QED BY <1>2, <1>3

(* Dropping the server of another port loses none.                         *)
LEMMA OpenDrops ==
  ASSUME OpenInv, H!DropOther
  PROVE  /\ server' \in Seq(OpenServers) /\ Len(server') = Len(server)
         /\ srv' = H!None /\ base' \in Ports \cup {H!None}
         /\ \A s \in DOMAIN server' :
              server'[s].up => s \in DOMAIN server /\ s # srv /\ server'[s] = server[s]
<1>1. CASE srv = H!None BY <1>1, OpenFacts DEF H!DropOther
<1>2. CASE srv # H!None
  <2>1. srv \in 1 .. Len(server) /\ OpenTypes BY <1>2, OpenFacts DEF OpenInv
  <2>2. server' = H!Terminated(srv) /\ srv' = H!None /\ base' = H!None BY <1>2 DEF H!DropOther
  <2> HIDE DEF H!Terminated
  <2>3. /\ server' \in Seq(OpenServers) /\ Len(server') = Len(server)
        /\ \A r \in 1 .. Len(server) : r # srv => server'[r] = server[r]
        /\ ~server'[srv].up
    BY <2>1, <2>2, OpenEnds
  <2> QED BY <2>1, <2>2, <2>3, OpenFacts
<1> QED BY <1>1, <1>2

(* A call that finds none queues for spawnMu, and looks again when it has  *)
(* it.                                                                     *)
LEMMA OpenNotFoundInv ==
  ASSUME OpenInv, NEW c \in H!Calls,
         (\E port \in Ports : H!SlowPath(c, port)) \/ H!Recheck(c)
  PROVE  OpenInv'
<1>1. ASSUME NEW port \in Ports \cup {H!None}, NEW next \in {"lock", "probe"},
             H!NotFound(c, port, next), closed' = closed, context' = context, spawning' = spawning,
             next = "probe" => spawning = c, next = "lock" => spawning # c,
             call[c].started = H!None
      PROVE  OpenInv'
  <2>1. PICK k : k = [call[c] EXCEPT !.pc = next, !.port = port] OBVIOUS
  <2>2. call[c] \in OpenCalls BY OpenFacts
  <2>3. k \in OpenCalls /\ k.pc = next /\ k.started = H!None
    BY <1>1, <2>1, <2>2 DEF OpenCalls, OpenPCs
  <2>4. call' = [call EXCEPT ![c] = k] BY <1>1, <2>1, OpenFacts DEF H!NotFound
  <2>5. /\ server' \in Seq(OpenServers) /\ Len(server') = Len(server)
        /\ srv' = H!None /\ base' \in Ports \cup {H!None}
        /\ \A s \in DOMAIN server' :
             server'[s].up => s \in DOMAIN server /\ s # srv /\ server'[s] = server[s]
    BY <1>1, OpenDrops DEF H!NotFound
  <2>6. OpenSpawns(k.pc) => spawning' = c BY <1>1, <2>3 DEF OpenSpawns
  <2>7. ~OpenSpawns(k.pc) => spawning' = (IF spawning = c THEN H!None ELSE spawning)
    BY <1>1, <2>3 DEF OpenSpawns
  <2>8. k.started \in 0 .. Len(server') /\ srv' \in 0 .. Len(server') BY <2>3, <2>5, OpenFacts
  <2>9. OpenTypes' /\ OpenPlaces'
    <3>1. /\ Len(server') \in Nat /\ Len(server) <= Len(server')
          /\ context' \in H!Calls \cup {H!None}
          /\ OpenSpawns(call[c].pc) \/ spawning = H!None \/ spawning' = spawning
          /\ srv' \in {H!None, srv} \/ spawning = c
      BY <1>1, <2>5, OpenFacts
    <3>2. k.pc \in {"idle", "lock", "recheck", "probe"} => k.started = H!None BY <2>3
    <3>3. k.pc \in {"probe", "ready", "publish"} => srv' = H!None BY <2>5
    <3> QED BY <2>3, <2>4, <2>5, <2>6, <2>7, <2>8, <3>1, <3>2, <3>3, OpenCallGoes
  <2>10. \A d \in H!Calls : call'[d].started = call[d].started BY <1>1, <2>3, <2>4, OpenFacts
  <2>11. H!NoneIsLost'
    BY <1>1, <2>5, <2>10, OpenFacts, OpenNothingLost
  <2> QED BY <2>9, <2>11 DEF OpenInv
<1>2. ASSUME NEW port \in Ports, H!SlowPath(c, port) PROVE OpenInv'
  <2>1. H!NotFound(c, port, "lock") /\ UNCHANGED <<context, spawning, closed>> /\ call[c].pc = "idle"
    BY <1>2 DEF H!SlowPath, H!InOrder, H!At
  <2>2. spawning # c /\ call[c].started = H!None BY <2>1 DEF OpenInv, OpenPlaces, OpenSpawns
  <2> QED BY <1>1, <2>1, <2>2
<1>3. CASE H!Recheck(c)
  <2>1. H!NotFound(c, call[c].port, "probe") /\ UNCHANGED <<context, spawning, closed>>
        /\ call[c].pc = "recheck"
    BY <1>3 DEF H!Recheck, H!At
  <2>2. call[c].port \in Ports \cup {H!None} BY OpenFacts DEF OpenCalls
  <2>3. spawning = c /\ call[c].started = H!None BY <2>1 DEF OpenInv, OpenPlaces, OpenSpawns
  <2> QED BY <1>1, <2>1, <2>2, <2>3
<1> QED BY <1>2, <1>3

(* Steps that change no server.                                            *)
LEMMA OpenQuietGoes ==
  ASSUME OpenInv, NEW c \in H!Calls,
         \/ H!Lock(c) \/ H!Adopt(c) \/ H!Ready(c)
         \/ \E from, to : H!Request(c, from, to) /\ from \in {"sse", "session", "prompt"}
                                              /\ to \in {"session", "prompt", "done"}
         \/ H!RequestFails(c)
  PROVE  OpenInv'
<1>1. call[c] \in OpenCalls BY OpenFacts
<1>2. CASE H!Lock(c)
  <2>1. PICK k : k = [call[c] EXCEPT !.pc = "recheck"] OBVIOUS
  <2>2. k \in OpenCalls /\ k.pc = "recheck" /\ k.started = call[c].started
    BY <1>1, <2>1 DEF OpenCalls, OpenPCs
  <2>3. call' = [call EXCEPT ![c] = k] BY <1>2, <2>1, OpenFacts DEF H!Lock, H!Goto
  <2>4. call[c].pc = "lock" /\ spawning = H!None /\ spawning' = c
        /\ UNCHANGED <<server, srv, base, context, closed>>
    BY <1>2 DEF H!Lock, H!At
  <2>5. call[c].started = H!None BY <2>4 DEF OpenInv, OpenPlaces
  <2> QED BY <2>2, <2>3, <2>4, <2>5, OpenFacts, OpenOnwards DEF OpenSpawns
<1>3. CASE H!Adopt(c)
  <2>1. context' \in H!Calls \cup {H!None} BY <1>3, OpenFacts DEF H!Adopt
  <2>2. PICK x \in H!Calls \cup {H!None} : x = context' BY <2>1
  <2>3. PICK k : k = [call[c] EXCEPT !.pc = "ready", !.ctx = x] OBVIOUS
  <2>4. k \in OpenCalls /\ k.pc = "ready" /\ k.started = call[c].started
    BY <1>1, <2>3 DEF OpenCalls, OpenPCs
  <2>5. call' = [call EXCEPT ![c] = k] BY <1>3, <2>2, <2>3, OpenFacts DEF H!Adopt
  <2>6. call[c].pc = "probe" /\ UNCHANGED <<server, srv, base, spawning, closed>>
    BY <1>3 DEF H!Adopt, H!At
  <2>7. spawning = c /\ srv = H!None BY <2>6 DEF OpenInv, OpenPlaces, OpenSpawns
  <2> QED BY <2>1, <2>4, <2>5, <2>6, <2>7, OpenFacts, OpenOnwards DEF OpenSpawns
<1>4. CASE H!Ready(c)
  <2>1. PICK k : k = [call[c] EXCEPT !.pc = "publish"] OBVIOUS
  <2>2. k \in OpenCalls /\ k.pc = "publish" /\ k.started = call[c].started
    BY <1>1, <2>1 DEF OpenCalls, OpenPCs
  <2>3. call' = [call EXCEPT ![c] = k] BY <1>4, <2>1, OpenFacts DEF H!Ready, H!Goto
  <2>4. call[c].pc = "ready" /\ UNCHANGED <<server, srv, base, context, spawning, closed>>
    BY <1>4 DEF H!Ready, H!At
  <2>5. spawning = c /\ srv = H!None BY <2>4 DEF OpenInv, OpenPlaces, OpenSpawns
  <2> QED BY <2>2, <2>3, <2>4, <2>5, OpenFacts, OpenOnwards DEF OpenSpawns
<1>5. ASSUME NEW from, NEW to, H!Request(c, from, to), from \in {"sse", "session", "prompt"},
             to \in {"session", "prompt", "done"}
      PROVE  OpenInv'
  <2>1. H!On(base) \subseteq Nat BY OpenFacts DEF H!On
  <2>2. PICK f \in SUBSET Nat : f = call[c].from \cup H!On(base) BY <1>1, <2>1 DEF OpenCalls
  <2>3. PICK k : k = [call[c] EXCEPT !.pc = to, !.from = f] OBVIOUS
  <2>4. k \in OpenCalls /\ k.pc = to /\ k.started = call[c].started
    BY <1>1, <1>5, <2>3 DEF OpenCalls, OpenPCs
  <2>5. call' = [call EXCEPT ![c] = k] BY <1>1, <1>5, <2>2, <2>3, OpenFacts DEF H!Request, OpenCalls
  <2>6. call[c].pc = from /\ UNCHANGED <<server, srv, base, context, spawning, closed>>
    BY <1>5 DEF H!Request, H!At
  <2>7. spawning # c BY <1>5, <2>6 DEF OpenInv, OpenPlaces, OpenSpawns
  <2>8. ~OpenSpawns(to) /\ to \notin {"idle", "lock", "recheck", "probe", "ready", "publish"}
    BY <1>5, <2>7 DEF OpenSpawns
  <2> QED BY <2>4, <2>5, <2>6, <2>7, <2>8, OpenFacts, OpenOnwards
<1>6. CASE H!RequestFails(c)
  <2>1. PICK k : k = [call[c] EXCEPT !.pc = "error"] OBVIOUS
  <2>2. k \in OpenCalls /\ k.pc = "error" /\ k.started = call[c].started
    BY <1>1, <2>1 DEF OpenCalls, OpenPCs
  <2>3. call' = [call EXCEPT ![c] = k] BY <1>6, <2>1, OpenFacts DEF H!RequestFails, H!Goto
  <2>4. call[c].pc \in {"sse", "session", "prompt"}
        /\ UNCHANGED <<server, srv, base, context, spawning, closed>>
    BY <1>6 DEF H!RequestFails
  <2>5. spawning # c BY <2>4 DEF OpenInv, OpenPlaces, OpenSpawns
  <2> QED BY <2>2, <2>3, <2>4, <2>5, OpenFacts, OpenOnwards DEF OpenSpawns
<1> QED BY <1>2, <1>3, <1>4, <1>5, <1>6

(* A server of our own is started, or is not.                              *)
LEMMA OpenStartGoes ==
  ASSUME OpenInv, NEW c \in H!Calls, H!Start(c)
  PROVE  OpenInv'
<1>1. PICK n \in Nat : n = Len(server) + 1 BY OpenFacts
<1>2. PICK r : r = [port |-> call[c].port, owned |-> TRUE, up |-> TRUE] OBVIOUS
<1>3. call[c] \in OpenCalls BY OpenFacts
<1>4. r \in OpenServers BY <1>2, <1>3 DEF OpenServers, OpenCalls
<1>5. server' = Append(server, r) BY <1>2 DEF H!Start
<1>6. /\ server' \in Seq(OpenServers) /\ Len(server') = n
      /\ \A s \in 1 .. Len(server) : server'[s] = server[s]
  BY <1>1, <1>4, <1>5, OpenFacts
<1>7. PICK k : k = [call[c] EXCEPT !.pc = "ready", !.ctx = c, !.started = n] OBVIOUS
<1>8. k \in OpenCalls /\ k.pc = "ready" /\ k.started = n
  BY <1>1, <1>3, <1>7 DEF OpenCalls, OpenPCs
<1>9. call' = [call EXCEPT ![c] = k] BY <1>6, <1>7, OpenFacts DEF H!Start
<1>10. call[c].pc = "probe" /\ UNCHANGED <<srv, base, spawning, closed>> /\ context' = c
  BY DEF H!Start, H!At
<1>11. spawning = c /\ srv = H!None /\ call[c].started = H!None
  BY <1>10 DEF OpenInv, OpenPlaces, OpenSpawns
<1>12. OpenTypes' /\ OpenPlaces'
  <2>1. /\ Len(server') \in Nat /\ Len(server) <= Len(server')
        /\ srv' \in 0 .. Len(server') /\ base' \in Ports \cup {H!None} /\ context' \in H!Calls \cup {H!None}
        /\ k.started \in 0 .. Len(server')
    BY <1>1, <1>6, <1>8, <1>10, <1>11, OpenFacts
  <2>2. OpenSpawns(call[c].pc) /\ OpenSpawns(k.pc) /\ spawning' = c
    BY <1>8, <1>10, <1>11 DEF OpenSpawns
  <2>3. k.pc \in {"idle", "lock", "recheck", "probe"} => k.started = H!None BY <1>8
  <2>4. k.pc \in {"probe", "ready", "publish"} => srv' = H!None BY <1>10, <1>11
  <2> QED BY <1>6, <1>8, <1>9, <1>11, <2>1, <2>2, <2>3, <2>4, OpenCallGoes
<1>13. H!NoneIsLost'
  <2>1. call'[c].started = n BY <1>8, <1>9, OpenFacts
  <2>2. ASSUME NEW s \in DOMAIN server', server'[s].owned, server'[s].up
        PROVE  s = n
    <3>1. CASE s \in 1 .. Len(server)
      <4>1. s = srv \/ (spawning # H!None /\ call[spawning].started = s)
        BY <1>6, <2>2, <3>1, OpenFacts DEF OpenInv, H!NoneIsLost
      <4> QED BY <1>11, <3>1, <4>1, OpenFacts
    <3>2. CASE s \notin 1 .. Len(server)
      <4>1. s \in 1 .. n BY <1>6, <2>2, OpenFacts
      <4> QED BY <1>1, <3>2, <4>1, OpenFacts
    <3> QED BY <3>1, <3>2
  <2>3. spawning' = c /\ c # H!None BY <1>10, <1>11, OpenFacts
  <2> QED BY <1>10, <2>1, <2>2, <2>3 DEF OpenInv, H!NoneIsLost
<1> QED BY <1>12, <1>13 DEF OpenInv

(* A start that fails releases spawnMu and starts nothing.                 *)
LEMMA OpenStartFailsGoes ==
  ASSUME OpenInv, NEW c \in H!Calls, H!StartFails(c)
  PROVE  OpenInv'
<1>1. call[c] \in OpenCalls BY OpenFacts
<1>2. PICK k : k = [call[c] EXCEPT !.pc = "error"] OBVIOUS
<1>3. k \in OpenCalls /\ k.pc = "error" /\ k.started = call[c].started
  BY <1>1, <1>2 DEF OpenCalls, OpenPCs
<1>4. call' = [call EXCEPT ![c] = k] BY <1>2, OpenFacts DEF H!StartFails, H!Goto
<1>5. /\ call[c].pc = "probe" /\ UNCHANGED <<server, srv, base, closed>>
      /\ context' = H!None /\ spawning' = H!None
  BY DEF H!StartFails, H!At
<1>6. spawning = c /\ call[c].started = H!None BY <1>5 DEF OpenInv, OpenPlaces, OpenSpawns
<1> QED BY <1>3, <1>4, <1>5, <1>6, OpenFacts, OpenOnwards DEF OpenSpawns

(* A call that gives up ends the server it started.                        *)
LEMMA OpenAbandons ==
  ASSUME OpenInv, NEW c \in H!Calls, call[c].pc \in {"ready", "publish"},
         call' = [call EXCEPT ![c].pc = "error"],
         server' = (IF call[c].started = H!None THEN server ELSE H!Terminated(call[c].started)),
         UNCHANGED <<srv, base, closed>>, spawning' = H!None, context' \in H!Calls \cup {H!None}
  PROVE  OpenInv'
<1>1. call[c] \in OpenCalls BY OpenFacts
<1>2. PICK k : k = [call[c] EXCEPT !.pc = "error"] OBVIOUS
<1>3. k \in OpenCalls /\ k.pc = "error" /\ k.started = call[c].started
  BY <1>1, <1>2 DEF OpenCalls, OpenPCs
<1>4. call' = [call EXCEPT ![c] = k] BY <1>2, OpenFacts
<1>5. spawning = c /\ srv = H!None BY DEF OpenInv, OpenPlaces, OpenSpawns
<1>6. call[c].started \in 0 .. Len(server) BY OpenFacts
<1>7. /\ server' \in Seq(OpenServers) /\ Len(server') = Len(server)
      /\ \A s \in 1 .. Len(server') :
           server'[s].up => s # call[c].started /\ server'[s] = server[s]
  <2>1. CASE call[c].started = H!None BY <2>1, OpenFacts
  <2>2. CASE call[c].started # H!None
    <3>1. call[c].started \in 1 .. Len(server) /\ OpenTypes BY <1>6, <2>2, OpenFacts DEF OpenInv
    <3>2. server' = H!Terminated(call[c].started) BY <2>2
    <3> HIDE DEF H!Terminated
    <3>3. PICK t \in 1 .. Len(server) : t = call[c].started BY <3>1
    <3>4. /\ H!Terminated(t) \in Seq(OpenServers)
          /\ Len(H!Terminated(t)) = Len(server)
          /\ \A r \in 1 .. Len(server) : r # t => H!Terminated(t)[r] = server[r]
          /\ ~H!Terminated(t)[t].up
      BY <3>1, OpenEnds
    <3> QED BY <3>2, <3>3, <3>4
  <2> QED BY <2>1, <2>2
<1>8. OpenTypes' /\ OpenPlaces'
  <2>1. /\ Len(server') \in Nat /\ Len(server) <= Len(server')
        /\ srv' \in 0 .. Len(server') /\ base' \in Ports \cup {H!None}
        /\ k.started \in 0 .. Len(server')
    BY <1>3, <1>6, <1>7, OpenFacts
  <2>2. OpenSpawns(call[c].pc) /\ ~OpenSpawns(k.pc) /\ spawning' = (IF spawning = c THEN H!None ELSE spawning)
    BY <1>3, <1>5 DEF OpenSpawns
  <2>3. k.pc \in {"idle", "lock", "recheck", "probe"} => k.started = H!None BY <1>3
  <2>4. k.pc \in {"probe", "ready", "publish"} => srv' = H!None BY <1>3
  <2> QED BY <1>3, <1>4, <1>5, <1>7, <2>1, <2>2, <2>3, <2>4, OpenCallGoes
<1>9. H!NoneIsLost'
  <2>1. ASSUME NEW s \in DOMAIN server', server'[s].owned, server'[s].up PROVE FALSE
    <3>1. s \in 1 .. Len(server) /\ s # call[c].started /\ server'[s] = server[s]
      BY <1>7, <2>1, OpenFacts
    <3>2. s = srv \/ (spawning # H!None /\ call[spawning].started = s)
      BY <2>1, <3>1, OpenFacts DEF OpenInv, H!NoneIsLost
    <3> QED BY <1>5, <3>1, <3>2, OpenFacts
  <2> QED BY <2>1 DEF OpenInv, H!NoneIsLost
<1> QED BY <1>8, <1>9 DEF OpenInv

(* A server that is not ready, or came too late, is ended by who started   *)
(* it.                                                                     *)
LEMMA OpenAbandonInv ==
  ASSUME OpenInv, NEW c \in H!Calls, H!NotReady(c) \/ H!Closed(c)
  PROVE  OpenInv'
<1>1. CASE H!NotReady(c)
  <2>1. /\ call[c].pc = "ready" /\ UNCHANGED <<srv, base, closed>> /\ spawning' = H!None
        /\ call' = [call EXCEPT ![c].pc = "error"]
    BY <1>1 DEF H!NotReady, H!GiveUp, H!Goto, H!At
  <2>2. context' \in H!Calls \cup {H!None} BY <1>1, OpenFacts DEF H!NotReady, H!GiveUp
  <2>3. server' = (IF call[c].started = H!None THEN server ELSE H!Terminated(call[c].started))
    BY <1>1 DEF H!NotReady, H!GiveUp
  <2> HIDE DEF H!Terminated
  <2> QED BY <2>1, <2>2, <2>3, OpenAbandons
<1>2. CASE H!Closed(c)
  <2>1. /\ call[c].pc = "publish" /\ UNCHANGED <<srv, base, context, closed>> /\ spawning' = H!None
        /\ call' = [call EXCEPT ![c].pc = "error"]
        /\ server' = (IF call[c].started = H!None THEN server ELSE H!Terminated(call[c].started))
    BY <1>2 DEF H!Closed, H!Goto, H!At
  <2>2. context' \in H!Calls \cup {H!None} BY <2>1, OpenFacts
  <2> HIDE DEF H!Terminated
  <2> QED BY <2>1, <2>2, OpenAbandons
<1> QED BY <1>1, <1>2

(* The backend comes to hold the server that was started for it.           *)
LEMMA OpenPublishGoes ==
  ASSUME OpenInv, NEW c \in H!Calls, H!Publish(c)
  PROVE  OpenInv'
<1>1. call[c] \in OpenCalls /\ call[c].started \in 0 .. Len(server) BY OpenFacts
<1>2. PICK k : k = [call[c] EXCEPT !.pc = "sse"] OBVIOUS
<1>3. k \in OpenCalls /\ k.pc = "sse" /\ k.started = call[c].started
  BY <1>1, <1>2 DEF OpenCalls, OpenPCs
<1>4. call' = [call EXCEPT ![c] = k] BY <1>2, OpenFacts DEF H!Publish, H!PublishAnyway, H!Goto
<1>5. /\ call[c].pc = "publish" /\ ~closed /\ spawning' = H!None
      /\ srv' = call[c].started /\ base' = call[c].port
      /\ UNCHANGED <<server, context, closed>>
  BY DEF H!Publish, H!PublishAnyway, H!At
<1>6. spawning = c /\ srv = H!None BY <1>5 DEF OpenInv, OpenPlaces, OpenSpawns
<1>7. OpenTypes' /\ OpenPlaces'
  <2>1. /\ server' \in Seq(OpenServers) /\ Len(server') \in Nat /\ Len(server) <= Len(server')
        /\ srv' \in 0 .. Len(server') /\ context' \in H!Calls \cup {H!None}
        /\ k.started \in 0 .. Len(server')
    BY <1>1, <1>3, <1>5, OpenFacts
  <2>2. base' \in Ports \cup {H!None} BY <1>1, <1>5 DEF OpenCalls
  <2>3. OpenSpawns(call[c].pc) /\ ~OpenSpawns(k.pc) /\ spawning' = (IF spawning = c THEN H!None ELSE spawning)
    BY <1>3, <1>5, <1>6 DEF OpenSpawns
  <2>4. k.pc \in {"idle", "lock", "recheck", "probe"} => k.started = H!None BY <1>3
  <2>5. k.pc \in {"probe", "ready", "publish"} => srv' = H!None BY <1>3
  <2> QED BY <1>3, <1>4, <1>6, <2>1, <2>2, <2>3, <2>4, <2>5, OpenCallGoes
<1>8. H!NoneIsLost'
  <2>1. ASSUME NEW s \in DOMAIN server, server[s].owned, server[s].up PROVE s = call[c].started
    <3>1. s # H!None BY <2>1, OpenFacts
    <3> QED BY <1>6, <2>1, <3>1 DEF OpenInv, H!NoneIsLost
  <2> QED BY <1>5, <2>1 DEF H!NoneIsLost
<1> QED BY <1>7, <1>8 DEF OpenInv

(* Servers end and come, and the backend is closed.                        *)
LEMMA OpenServersGo ==
  ASSUME OpenInv,
         \/ H!Close
         \/ \E s \in 1 .. MaxCalls + MaxFaults : H!ServerDies(s)
         \/ \E port \in Ports : H!OtherComes(port)
  PROVE  OpenInv'
<1>1. ASSUME call' = call, spawning' = spawning, base' = base, context' \in H!Calls \cup {H!None},
             srv' \in {H!None, srv}, closed' => srv' = H!None,
             server' \in Seq(OpenServers), Len(server') \in Nat, Len(server) <= Len(server'),
             \A s \in DOMAIN server' :
               server'[s].owned /\ server'[s].up =>
                 s \in 1 .. Len(server) /\ server'[s] = server[s] /\ (s = srv => srv' = srv)
      PROVE  OpenInv'
  <2>1. OpenTypes' BY <1>1, OpenFacts DEF OpenTypes
  <2>2. \A d \in H!Calls : call[d].started \in 0 .. Len(server') BY <1>1, OpenFacts
  <2>3. OpenPlaces' BY <1>1, <2>2, OpenFacts DEF OpenInv, OpenPlaces
  <2>4. H!NoneIsLost' BY <1>1, OpenFacts DEF OpenInv, H!NoneIsLost
  <2> QED BY <2>1, <2>3, <2>4 DEF OpenInv
<1>2. ASSUME NEW t \in 1 .. Len(server), server' = H!Terminated(t)
      PROVE  /\ server' \in Seq(OpenServers) /\ Len(server') = Len(server)
             /\ \A s \in DOMAIN server' :
                  server'[s].up => s \in 1 .. Len(server) /\ server'[s] = server[s] /\ s # t
  <2>1. OpenTypes BY DEF OpenInv
  <2> HIDE DEF H!Terminated
  <2>2. /\ H!Terminated(t) \in Seq(OpenServers)
        /\ Len(H!Terminated(t)) = Len(server)
        /\ \A r \in 1 .. Len(server) : r # t => H!Terminated(t)[r] = server[r]
        /\ ~H!Terminated(t)[t].up
    BY <2>1, OpenEnds
  <2> QED BY <1>2, <2>2, OpenFacts
<1>3. CASE H!Close
  <2>1. call' = call /\ spawning' = spawning /\ base' = base /\ context' = H!None /\ srv' = H!None
    BY <1>3 DEF H!Close
  <2>2. CASE srv = H!None
    <3>1. server' = server BY <1>3, <2>2 DEF H!Close
    <3> QED BY <1>1, <2>1, <2>2, <3>1, OpenFacts
  <2>3. CASE srv # H!None
    <3>1. server' = H!Terminated(srv) BY <1>3, <2>3 DEF H!Close
    <3>2. PICK t \in 1 .. Len(server) : t = srv BY <2>3, OpenFacts
    <3>3. /\ server' \in Seq(OpenServers) /\ Len(server') = Len(server)
          /\ \A s \in DOMAIN server' :
               server'[s].up => s \in 1 .. Len(server) /\ server'[s] = server[s] /\ s # t
      BY <1>2, <3>1, <3>2
    <3> QED BY <1>1, <2>1, <3>2, <3>3, OpenFacts
  <2> QED BY <2>2, <2>3
<1>4. ASSUME NEW s, H!ServerDies(s) PROVE OpenInv'
  <2>1. /\ s \in 1 .. Len(server) /\ server' = H!Terminated(s)
        /\ UNCHANGED <<srv, base, context, spawning, closed, call>>
    BY <1>4, OpenFacts DEF H!ServerDies
  <2>2. /\ server' \in Seq(OpenServers) /\ Len(server') = Len(server)
        /\ \A r \in DOMAIN server' :
             server'[r].up => r \in 1 .. Len(server) /\ server'[r] = server[r] /\ r # s
    BY <1>2, <2>1
  <2>3. closed' => srv' = H!None BY <2>1 DEF OpenInv, H!NoneIsLost
  <2> QED BY <1>1, <2>1, <2>2, <2>3, OpenFacts
<1>5. ASSUME NEW port \in Ports, H!OtherComes(port) PROVE OpenInv'
  <2>1. PICK r : r = [port |-> port, owned |-> FALSE, up |-> TRUE] OBVIOUS
  <2>2. r \in OpenServers /\ ~r.owned BY <2>1 DEF OpenServers
  <2>3. server' = Append(server, r) /\ UNCHANGED <<srv, base, context, spawning, closed, call>>
    BY <1>5, <2>1 DEF H!OtherComes
  <2>4. PICK n \in Nat : n = Len(server) + 1 BY OpenFacts
  <2>5. /\ server' \in Seq(OpenServers) /\ Len(server') = n /\ server'[n] = r
        /\ DOMAIN server' = 1 .. n
        /\ \A s \in 1 .. Len(server) : server'[s] = server[s]
    BY <2>2, <2>3, <2>4, OpenFacts
  <2>6. \A s \in 1 .. n : s = n \/ s \in 1 .. Len(server) BY <2>4, OpenFacts
  <2>7. \A s \in DOMAIN server' :
          server'[s].owned => s \in 1 .. Len(server) /\ server'[s] = server[s]
    BY <2>2, <2>5, <2>6
  <2>8. closed' => srv' = H!None BY <2>3 DEF OpenInv, H!NoneIsLost
  <2>9. Len(server) <= Len(server') /\ Len(server') \in Nat BY <2>4, <2>5, OpenFacts
  <2> QED BY <1>1, <2>3, <2>5, <2>7, <2>8, <2>9, OpenFacts
<1> QED BY <1>3, <1>4, <1>5

(* No step of OpenCode disturbs OpenInv.                                   *)
LEMMA OpenNext ==
  ASSUME OpenInv, [H!Next]_(H!openVars)
  PROVE  OpenInv'
<1>1. CASE UNCHANGED H!openVars
  BY <1>1 DEF H!openVars, OpenInv, OpenTypes, OpenPlaces, H!NoneIsLost
<1>2. ASSUME NEW c \in H!Calls, H!CallStep(c) PROVE OpenInv'
  <2>1. ASSUME NEW port \in Ports, H!FastPath(c, port) PROVE OpenInv' BY <2>1, OpenFoundInv
  <2>2. ASSUME NEW port \in Ports, H!SlowPath(c, port) PROVE OpenInv' BY <2>2, OpenNotFoundInv
  <2>3. CASE H!RecheckFound(c) BY <2>3, OpenFoundInv
  <2>4. CASE H!Recheck(c) BY <2>4, OpenNotFoundInv
  <2>5. CASE H!Lock(c) \/ H!Adopt(c) \/ H!Ready(c) \/ H!RequestFails(c) BY <2>5, OpenQuietGoes
  <2>6. CASE H!Subscribe(c) \/ H!CreateSession(c) \/ H!SendPrompt(c)
    <3>1. \E from, to : H!Request(c, from, to) /\ from \in {"sse", "session", "prompt"}
                                               /\ to \in {"session", "prompt", "done"}
      BY <2>6 DEF H!Subscribe, H!CreateSession, H!SendPrompt
    <3> HIDE DEF H!Request
    <3> QED BY <3>1, OpenQuietGoes
  <2>7. CASE H!Start(c) BY <2>7, OpenStartGoes
  <2>8. CASE H!StartFails(c) BY <2>8, OpenStartFailsGoes
  <2>9. CASE H!NotReady(c) \/ H!Closed(c) BY <2>9, OpenAbandonInv
  <2>10. CASE H!Publish(c) BY <2>10, OpenPublishGoes
  <2> QED BY <1>2, <2>1, <2>2, <2>3, <2>4, <2>5, <2>6, <2>7, <2>8, <2>9, <2>10 DEF H!CallStep
<1>3. CASE \/ H!Close
           \/ \E s \in 1 .. MaxCalls + MaxFaults : H!ServerDies(s)
           \/ \E port \in Ports : H!OtherComes(port)
  BY <1>3, OpenServersGo
<1> QED BY <1>1, <1>2, <1>3 DEF H!Next

-----------------------------------------------------------------------------
(* The agent daemon.                                                       *)
PromptBound == Prompts \in Nat

PromptPCs == {"new", "restart", "dial", "wait", "count", "refresh", "return", "done"}

PromptCalls == [pc : PromptPCs, answer : 0 .. Prompts]

DaemonHandlers == [pc : {"none", "queued", "asked"}, on : Nat]

(* A call restarts the daemon once before it begins and once before it is  *)
(* over.                                                                   *)
DaemonBegun == {c \in D!Calls : call[c].pc \notin {"new", "restart"}}

DaemonOver == {c \in D!Calls : call[c].pc \in {"return", "done"}}

DaemonStartsOK ==
  /\ call \in [D!Calls -> PromptCalls]
  /\ started \in D!Processes
  /\ started <= 1 + Cardinality(DaemonBegun) + Cardinality(DaemonOver)

DaemonAsksOn(c, p) == handler[c].pc = "asked" /\ handler[c].on = p

(* A process that runs has what it was asked last to answer, and no more.  *)
DaemonStreamsOK ==
  /\ stream \in [D!Processes -> Seq(D!Calls)]
  /\ handler \in [D!Calls -> DaemonHandlers]
  /\ alive \subseteq 1 .. started
  /\ socket \in 0 .. started
  /\ \A c \in D!Calls : handler[c].on \in 1 .. started
  /\ \A p \in D!Processes : p > started => stream[p] = <<>>
  /\ \A p \in alive :
       /\ \A c \in D!Calls : DaemonAsksOn(c, p) => stream[p] = <<c>>
       /\ (\A c \in D!Calls : ~DaemonAsksOn(c, p)) => stream[p] = <<>>

DaemonEarly(c) == call[c].pc \in {"new", "restart", "dial"}

DaemonUndialled == \A c \in D!Calls : DaemonEarly(c) => handler[c].pc = "none"

DaemonInv == DaemonStartsOK /\ DaemonStreamsOK /\ DaemonUndialled /\ D!OwnAnswers

-----------------------------------------------------------------------------
(* Before the first call DaemonInv holds.                                  *)
LEMMA DaemonInit ==
  ASSUME PromptBound, D!Init
  PROVE  DaemonInv
<1>1. /\ call = [c \in D!Calls |-> [pc |-> "new", answer |-> 0]]
      /\ handler = [c \in D!Calls |-> [pc |-> "none", on |-> 1]]
      /\ stream = [p \in D!Processes |-> <<>>]
      /\ started = 1 /\ alive = {1} /\ socket = 1
  BY DEF D!Init
<1>2. 1 \in D!Processes /\ 0 \in 0 .. Prompts BY DEF D!Processes, PromptBound
<1>3. \A c \in D!Calls : call[c] = [pc |-> "new", answer |-> 0] /\ handler[c] = [pc |-> "none", on |-> 1]
  BY <1>1
<1>4. [pc |-> "new", answer |-> 0] \in PromptCalls /\ [pc |-> "none", on |-> 1] \in DaemonHandlers
  BY <1>2 DEF PromptCalls, PromptPCs, DaemonHandlers
<1>5. call \in [D!Calls -> PromptCalls] /\ handler \in [D!Calls -> DaemonHandlers] BY <1>1, <1>4
<1>6. DaemonBegun = {} /\ DaemonOver = {} BY <1>3 DEF DaemonBegun, DaemonOver
<1>7. Cardinality({}) = 0 BY FS_EmptySet
<1>8. DaemonStartsOK BY <1>1, <1>2, <1>5, <1>6, <1>7 DEF DaemonStartsOK
<1>9. \A p : \A c \in D!Calls : ~DaemonAsksOn(c, p) BY <1>3 DEF DaemonAsksOn
<1>10. stream \in [D!Processes -> Seq(D!Calls)] /\ \A p \in D!Processes : stream[p] = <<>>
  BY <1>1
<1>11. DaemonStreamsOK BY <1>1, <1>2, <1>3, <1>5, <1>9, <1>10 DEF DaemonStreamsOK
<1>12. D!OwnAnswers /\ DaemonUndialled BY <1>3 DEF D!OwnAnswers, DaemonUndialled
<1> QED BY <1>8, <1>11, <1>12 DEF DaemonInv

(* A call that goes on from where it was may have started a process.       *)
LEMMA DaemonStartsStep ==
  ASSUME PromptBound, DaemonInv, NEW c \in D!Calls, NEW k \in PromptCalls,
         call' = [call EXCEPT ![c] = k],
         c \in DaemonBegun => k.pc \notin {"new", "restart"},
         c \in DaemonOver => k.pc \in {"return", "done"},
         k.answer \in {0, c},
         \/ started' = started
         \/ /\ started' = started + 1
            /\ \/ c \notin DaemonBegun /\ k.pc \notin {"new", "restart"}
               \/ c \notin DaemonOver /\ k.pc \in {"return", "done"}
  PROVE  DaemonStartsOK' /\ D!OwnAnswers'
<1>1. /\ call \in [D!Calls -> PromptCalls] /\ started \in Nat /\ Prompts \in Nat
      /\ started <= 1 + Cardinality(DaemonBegun) + Cardinality(DaemonOver)
  BY DEF DaemonInv, DaemonStartsOK, PromptBound, D!Processes
<1>2. call' \in [D!Calls -> PromptCalls] /\ call'[c] = k /\ \A u \in D!Calls \ {c} : call'[u] = call[u]
  BY <1>1
<1>3. D!OwnAnswers' BY <1>2 DEF DaemonInv, D!OwnAnswers
<1>4. IsFiniteSet(D!Calls) /\ Cardinality(D!Calls) = Prompts
  <2>1. 1 \in Int /\ Prompts \in Int BY <1>1
  <2>2. IsFiniteSet(1 .. Prompts) /\
        Cardinality(1 .. Prompts) = IF 1 > Prompts THEN 0 ELSE Prompts - 1 + 1
    BY <2>1, FS_Interval
  <2> QED BY <1>1, <2>2 DEF D!Calls
<1>5. PICK a, b : a = DaemonBegun /\ b = DaemonOver OBVIOUS
<1>6. PICK x, y : x = DaemonBegun' /\ y = DaemonOver' OBVIOUS
<1>7. /\ a \subseteq D!Calls /\ b \subseteq D!Calls /\ x \subseteq D!Calls /\ y \subseteq D!Calls
      /\ a \subseteq x /\ b \subseteq y
  BY <1>2, <1>5, <1>6 DEF DaemonBegun, DaemonOver
<1>8. started' = started \/ (started' = started + 1 /\ (a # x \/ b # y))
  BY <1>2, <1>5, <1>6 DEF DaemonBegun, DaemonOver
<1>9. /\ Cardinality(a) \in Nat /\ Cardinality(b) \in Nat
      /\ Cardinality(x) \in Nat /\ Cardinality(y) \in Nat
      /\ Cardinality(a) <= Cardinality(x) /\ Cardinality(b) <= Cardinality(y)
      /\ Cardinality(x) <= Prompts /\ Cardinality(y) <= Prompts
      /\ a # x => Cardinality(a) < Cardinality(x)
      /\ b # y => Cardinality(b) < Cardinality(y)
  <2>1. /\ IsFiniteSet(a) /\ IsFiniteSet(b) /\ IsFiniteSet(x) /\ IsFiniteSet(y)
        /\ Cardinality(x) <= Prompts /\ Cardinality(y) <= Prompts
    BY <1>4, <1>7, FS_Subset
  <2>2. /\ Cardinality(a) <= Cardinality(x) /\ Cardinality(b) <= Cardinality(y)
        /\ a # x => Cardinality(a) < Cardinality(x)
        /\ b # y => Cardinality(b) < Cardinality(y)
    <3>1. Cardinality(a) <= Cardinality(x) /\ (Cardinality(a) = Cardinality(x) => a = x)
      BY <1>7, <2>1, FS_Subset
    <3>2. Cardinality(b) <= Cardinality(y) /\ (Cardinality(b) = Cardinality(y) => b = y)
      BY <1>7, <2>1, FS_Subset
    <3>3. /\ Cardinality(a) \in Nat /\ Cardinality(b) \in Nat
          /\ Cardinality(x) \in Nat /\ Cardinality(y) \in Nat
      BY <2>1, FS_CardinalityType
    <3> QED BY <3>1, <3>2, <3>3
  <2> QED BY <2>1, <2>2, FS_CardinalityType
<1>10. /\ started' \in Nat /\ started' <= 1 + Cardinality(x) + Cardinality(y)
       /\ 1 + Cardinality(x) + Cardinality(y) <= 2 * Prompts + 1
       /\ started' >= started /\ started >= 1
  <2>1. started >= 1 BY DEF DaemonInv, DaemonStartsOK, D!Processes
  <2>2. started' \in Nat /\ started' >= started BY <1>1, <1>8
  <2>3. PICK s \in Nat : s = started' BY <2>2
  <2>4. PICK ca \in Nat, cb \in Nat, cx \in Nat, cy \in Nat :
          /\ ca = Cardinality(a) /\ cb = Cardinality(b) /\ cx = Cardinality(x)
          /\ cy = Cardinality(y)
    BY <1>9
  <2>5. /\ started <= 1 + ca + cb /\ ca <= cx /\ cb <= cy /\ cx <= Prompts /\ cy <= Prompts
        /\ s = started \/ (s = started + 1 /\ (ca < cx \/ cb < cy))
    BY <1>1, <1>5, <1>8, <1>9, <2>3, <2>4
  <2>6. s <= 1 + cx + cy BY <1>1, <2>4, <2>5
  <2>7. 1 + cx + cy <= 2 * Prompts + 1 BY <1>1, <2>4, <2>5
  <2> QED BY <2>1, <2>2, <2>3, <2>4, <2>6, <2>7
<1>11. started' \in D!Processes BY <1>1, <1>9, <1>10 DEF D!Processes
<1> QED BY <1>2, <1>3, <1>6, <1>10, <1>11 DEF DaemonStartsOK

(* What is on its way does not change when processes are ended.            *)
LEMMA DaemonStreamsStep ==
  ASSUME PromptBound, DaemonInv, UNCHANGED <<started, handler, stream>>,
         alive' \subseteq alive, socket' \in {0, socket}
  PROVE  DaemonStreamsOK'
<1>1. DaemonStreamsOK /\ started \in Nat BY DEF DaemonInv, DaemonStartsOK, D!Processes, PromptBound
<1>2. socket' \in 0 .. started' BY <1>1 DEF DaemonStreamsOK
<1> QED BY <1>1, <1>2 DEF DaemonStreamsOK, DaemonAsksOn

(* A call goes on, or processes end.                                       *)
LEMMA DaemonGoesInv ==
  ASSUME PromptBound, DaemonInv, NEW c \in D!Calls,
         \/ D!Call(c) \/ D!DialFails(c) \/ D!TimeOut(c) \/ D!Count(c) \/ D!RestartFails(c) \/ D!Return(c)
  PROVE  DaemonInv'
<1>1. PICK j : j = call[c] OBVIOUS
<1>2. call \in [D!Calls -> PromptCalls] /\ j \in PromptCalls /\ j.answer \in {0, c}
  BY <1>1 DEF DaemonInv, DaemonStartsOK, D!OwnAnswers
<1>3. PICK k : k = call'[c] OBVIOUS
<1>4. /\ call' = [call EXCEPT ![c] = k] /\ k \in PromptCalls /\ k.answer = j.answer
      /\ \/ j.pc = "new" /\ k.pc \in {"restart", "dial"}
         \/ j.pc \in {"dial", "wait", "count", "restart", "refresh"} /\ k.pc = "return"
         \/ j.pc = "count" /\ k.pc = "refresh"
         \/ j.pc = "return" /\ k.pc = "done"
  <2>1. PICK pc \in {"restart", "dial", "return", "refresh", "done"} :
          /\ call' = [call EXCEPT ![c].pc = pc]
          /\ \/ j.pc = "new" /\ pc \in {"restart", "dial"}
             \/ j.pc \in {"dial", "wait", "count", "restart", "refresh"} /\ pc = "return"
             \/ j.pc = "count" /\ pc = "refresh"
             \/ j.pc = "return" /\ pc = "done"
    BY <1>1 DEF D!Call, D!DialFails, D!TimeOut, D!Count, D!RestartFails, D!Return, D!FallBack,
      D!Go, D!At
  <2>2. call' = [call EXCEPT ![c] = k] /\ k = [j EXCEPT !.pc = pc] BY <1>1, <1>2, <1>3, <2>1
  <2> QED BY <1>2, <2>1, <2>2 DEF PromptCalls, PromptPCs
<1>5. /\ UNCHANGED <<started, handler, stream>>
      /\ alive' \subseteq alive /\ socket' \in {0, socket}
  BY DEF D!Call, D!DialFails, D!TimeOut, D!Count, D!RestartFails, D!Return, D!StopDaemon,
    D!processVars
<1>6. /\ c \in DaemonBegun => k.pc \notin {"new", "restart"}
      /\ c \in DaemonOver => k.pc \in {"return", "done"}
  BY <1>1, <1>4 DEF DaemonBegun, DaemonOver
<1>7. DaemonStartsOK' /\ D!OwnAnswers' BY <1>2, <1>4, <1>5, <1>6, DaemonStartsStep
<1>8. DaemonStreamsOK' BY <1>5, DaemonStreamsStep
<1>9. DaemonUndialled'
  <2>1. DaemonEarly(c)' => DaemonEarly(c) BY <1>1, <1>2, <1>4 DEF DaemonEarly
  <2>2. \A u \in D!Calls \ {c} : DaemonEarly(u)' => DaemonEarly(u) BY <1>4 DEF DaemonEarly
  <2> QED BY <1>5, <2>1, <2>2 DEF DaemonInv, DaemonUndialled
<1> QED BY <1>7, <1>8, <1>9 DEF DaemonInv

(* A process that crashes or is stopped when idle.                         *)
LEMMA DaemonStopsInv ==
  ASSUME PromptBound, DaemonInv, D!Crash \/ \E p \in D!Processes : D!IdleFor(p) \/ D!IdleStop(p)
  PROVE  DaemonInv'
<1>1. /\ UNCHANGED <<started, handler, stream, call>>
      /\ alive' \subseteq alive /\ socket' \in {0, socket}
  BY DEF D!Crash, D!IdleFor, D!IdleStop, D!StopDaemon
<1>2. DaemonStreamsOK' BY <1>1, DaemonStreamsStep
<1>3. DaemonStartsOK' /\ D!OwnAnswers' BY <1>1 DEF DaemonInv, DaemonStartsOK, D!OwnAnswers, DaemonBegun, DaemonOver
<1>4. DaemonUndialled' BY <1>1 DEF DaemonInv, DaemonUndialled, DaemonEarly
<1> QED BY <1>2, <1>3, <1>4 DEF DaemonInv

(* A restart leaves a new process with nothing to answer.                  *)
LEMMA DaemonRestartInv ==
  ASSUME PromptBound, DaemonInv, NEW c \in D!Calls, D!Restart(c)
  PROVE  DaemonInv'
<1>1. PICK j : j = call[c] OBVIOUS
<1>2. call \in [D!Calls -> PromptCalls] /\ j \in PromptCalls /\ j.answer \in {0, c}
  BY <1>1 DEF DaemonInv, DaemonStartsOK, D!OwnAnswers
<1>3. PICK k : k = call'[c] OBVIOUS
<1>4. /\ call' = [call EXCEPT ![c] = k] /\ k \in PromptCalls /\ k.answer = j.answer
      /\ \/ j.pc = "restart" /\ k.pc = "dial"
         \/ j.pc = "refresh" /\ k.pc = "return"
  <2>1. PICK pc \in {"dial", "return"} :
          /\ call' = [call EXCEPT ![c].pc = pc]
          /\ \/ j.pc = "restart" /\ pc = "dial"
             \/ j.pc = "refresh" /\ pc = "return"
    BY <1>1 DEF D!Restart, D!Go, D!At
  <2>2. call' = [call EXCEPT ![c] = k] /\ k = [j EXCEPT !.pc = pc] BY <1>1, <1>2, <1>3, <2>1
  <2> QED BY <1>2, <2>1, <2>2 DEF PromptCalls, PromptPCs
<1>5. /\ started' = started + 1 /\ UNCHANGED <<handler, stream>> /\ socket' = started + 1
      /\ alive' \subseteq alive \cup {started + 1}
  BY DEF D!Restart
<1>6. /\ c \in DaemonBegun => k.pc \notin {"new", "restart"}
      /\ c \in DaemonOver => k.pc \in {"return", "done"}
      /\ \/ c \notin DaemonBegun /\ k.pc \notin {"new", "restart"}
         \/ c \notin DaemonOver /\ k.pc \in {"return", "done"}
  BY <1>1, <1>4 DEF DaemonBegun, DaemonOver
<1>7. DaemonStartsOK' /\ D!OwnAnswers' BY <1>2, <1>4, <1>5, <1>6, DaemonStartsStep
<1>8. DaemonStreamsOK'
  <2>1. DaemonStreamsOK /\ started \in Nat /\ started + 1 \in D!Processes
    BY <1>5, <1>7 DEF DaemonInv, DaemonStartsOK, D!Processes, PromptBound
  <2>2. PICK s \in Nat : s = started + 1 BY <2>1
  <2>3. stream[s] = <<>> BY <2>1, <2>2 DEF DaemonStreamsOK
  <2>4. \A u \in D!Calls : handler[u].on \in 1 .. s /\ ~DaemonAsksOn(u, s)
    BY <2>1, <2>2 DEF DaemonStreamsOK, DaemonAsksOn
  <2>5. alive' \subseteq 1 .. s /\ socket' \in 0 .. s BY <1>5, <2>1, <2>2 DEF DaemonStreamsOK
  <2>6. \A p \in D!Processes : p > s => stream[p] = <<>>
    BY <2>1, <2>2 DEF DaemonStreamsOK, D!Processes
  <2>7. \A p \in alive' :
          /\ \A u \in D!Calls : DaemonAsksOn(u, p) => stream[p] = <<u>>
          /\ (\A u \in D!Calls : ~DaemonAsksOn(u, p)) => stream[p] = <<>>
    BY <1>5, <2>1, <2>2, <2>3, <2>4 DEF DaemonStreamsOK
  <2> QED BY <1>5, <2>1, <2>2, <2>4, <2>5, <2>6, <2>7 DEF DaemonStreamsOK, DaemonAsksOn
<1>9. DaemonUndialled'
  <2>1. DaemonEarly(c)' => DaemonEarly(c) BY <1>1, <1>2, <1>4 DEF DaemonEarly
  <2>2. \A u \in D!Calls \ {c} : DaemonEarly(u)' => DaemonEarly(u) BY <1>4 DEF DaemonEarly
  <2> QED BY <1>5, <2>1, <2>2 DEF DaemonInv, DaemonUndialled
<1> QED BY <1>7, <1>8, <1>9 DEF DaemonInv

(* The daemon takes a prompt, and answers it.                              *)
LEMMA DaemonDialInv ==
  ASSUME PromptBound, DaemonInv, NEW c \in D!Calls, D!Dial(c)
  PROVE  DaemonInv'
<1>1. PICK j : j = call[c] OBVIOUS
<1>2. call \in [D!Calls -> PromptCalls] /\ j \in PromptCalls /\ j.answer \in {0, c}
  BY <1>1 DEF DaemonInv, DaemonStartsOK, D!OwnAnswers
<1>3. PICK k : k = [j EXCEPT !.pc = "wait"] OBVIOUS
<1>4. call' = [call EXCEPT ![c] = k] /\ k \in PromptCalls /\ k.answer = j.answer
      /\ j.pc = "dial" /\ k.pc = "wait"
  <2>1. call' = [call EXCEPT ![c] = k] /\ j.pc = "dial" BY <1>1, <1>2, <1>3 DEF D!Dial, D!Go, D!At
  <2> QED BY <1>2, <1>3, <2>1 DEF PromptCalls, PromptPCs
<1>5. c \in DaemonBegun => k.pc \notin {"new", "restart"} BY <1>4
<1>6. c \notin DaemonOver BY <1>1, <1>4 DEF DaemonOver
<1>7. UNCHANGED <<started, alive, socket, stream>> BY DEF D!Dial, D!processVars
<1>8. DaemonStartsOK' /\ D!OwnAnswers' BY <1>2, <1>4, <1>5, <1>6, <1>7, DaemonStartsStep
<1>9. DaemonStreamsOK'
  <2>1. PICK s : s = socket OBVIOUS
  <2>2. DaemonStreamsOK /\ started \in Nat /\ socket # 0 /\ handler' = [handler EXCEPT ![c] = [pc |-> "queued", on |-> s]]
    BY <2>1 DEF D!Dial, DaemonInv, DaemonStartsOK, D!Processes, PromptBound
  <2>3. PICK h : h = [pc |-> "queued", on |-> s] OBVIOUS
  <2>4. s \in 1 .. started BY <2>1, <2>2 DEF DaemonStreamsOK
  <2>5. /\ handler' = [handler EXCEPT ![c] = h] /\ h \in DaemonHandlers /\ h.pc = "queued" /\ h.on = s
    BY <2>2, <2>3, <2>4 DEF DaemonHandlers
  <2>6. handler' \in [D!Calls -> DaemonHandlers] /\ \A u \in D!Calls : handler'[u].on \in 1 .. started
    BY <2>2, <2>4, <2>5 DEF DaemonStreamsOK
  <2>7. \A u \in D!Calls \ {c} : handler'[u] = handler[u] BY <2>2, <2>5 DEF DaemonStreamsOK
  <2>8. handler[c].pc = "none" BY <1>1, <1>4 DEF DaemonInv, DaemonUndialled, DaemonEarly
  <2>9. handler'[c] = h BY <2>2, <2>5 DEF DaemonStreamsOK
  <2>10. \A p : \A u \in D!Calls : DaemonAsksOn(u, p)' <=> DaemonAsksOn(u, p)
    BY <2>5, <2>7, <2>8, <2>9 DEF DaemonAsksOn
  <2> QED BY <1>7, <2>2, <2>6, <2>10 DEF DaemonStreamsOK
<1>10. DaemonUndialled'
  <2>1. ~DaemonEarly(c)' BY <1>2, <1>4 DEF DaemonEarly
  <2>2. \A u \in D!Calls \ {c} : call'[u] = call[u] /\ handler'[u] = handler[u]
    BY <1>2, <1>4 DEF D!Dial, DaemonInv, DaemonStreamsOK
  <2> QED BY <2>1, <2>2 DEF DaemonInv, DaemonUndialled, DaemonEarly
<1> QED BY <1>8, <1>9, <1>10 DEF DaemonInv

(* The handler of c goes on, on its process.                               *)
LEMMA DaemonHandlerStep ==
  ASSUME PromptBound, DaemonInv, NEW c \in D!Calls, NEW to \in {"none", "asked"}, D!Serve(c, to),
         handler[c].pc # "none", UNCHANGED <<started, alive, socket>>,
         stream' \in [D!Processes -> Seq(D!Calls)],
         \A p \in D!Processes : p # handler[c].on => stream'[p] = stream[p],
         handler[c].on \in alive =>
           /\ stream'[handler[c].on] = IF to = "asked" THEN <<c>> ELSE <<>>
           /\ \A u \in D!Calls \ {c} : ~DaemonAsksOn(u, handler[c].on),
         handler[c].on \notin alive => stream' = stream
  PROVE  DaemonStreamsOK' /\ (DaemonUndialled /\ ~DaemonEarly(c) => (handler'[c].pc = to))
<1>1. PICK p : p = handler[c].on OBVIOUS
<1>2. DaemonStreamsOK /\ handler[c] \in DaemonHandlers /\ p \in 1 .. started
  BY <1>1 DEF DaemonInv, DaemonStreamsOK
<1>3. PICK h : h = [handler[c] EXCEPT !.pc = to] OBVIOUS
<1>4. h \in DaemonHandlers /\ h.pc = to /\ h.on = p BY <1>1, <1>2, <1>3 DEF DaemonHandlers
<1>5. /\ handler' = [handler EXCEPT ![c] = h] /\ handler \in [D!Calls -> DaemonHandlers]
      /\ handler'[c] = h /\ \A u \in D!Calls \ {c} : handler'[u] = handler[u]
  BY <1>2, <1>3 DEF D!Serve, DaemonStreamsOK
<1>6. handler' \in [D!Calls -> DaemonHandlers] /\ \A u \in D!Calls : handler'[u].on \in 1 .. started
  BY <1>2, <1>4, <1>5 DEF DaemonStreamsOK
<1>7. \A q \in D!Processes : q > started => stream'[q] = <<>>
  <2>1. \A q \in D!Processes : q > started => q # p
    BY <1>2 DEF DaemonInv, DaemonStartsOK, D!Processes
  <2> QED BY <1>1, <1>2, <2>1 DEF DaemonStreamsOK
<1>8. alive \subseteq D!Processes BY <1>2 DEF DaemonInv, DaemonStartsOK, DaemonStreamsOK, D!Processes, PromptBound
<1>9. ASSUME NEW q \in alive
      PROVE  /\ \A u \in D!Calls : DaemonAsksOn(u, q)' => stream'[q] = <<u>>
             /\ (\A u \in D!Calls : ~DaemonAsksOn(u, q)') => stream'[q] = <<>>
  <2>1. \A u \in D!Calls \ {c} : DaemonAsksOn(u, q)' <=> DaemonAsksOn(u, q) BY <1>5 DEF DaemonAsksOn
  <2>2. DaemonAsksOn(c, q)' <=> to = "asked" /\ q = p BY <1>4, <1>5 DEF DaemonAsksOn
  <2>3. CASE q = p BY <1>1, <2>1, <2>2, <2>3
  <2>4. CASE q # p
    <3>1. stream'[q] = stream[q] BY <1>1, <1>8, <2>4
    <3>2. ~DaemonAsksOn(c, q) /\ ~DaemonAsksOn(c, q)' BY <1>1, <2>2, <2>4 DEF DaemonAsksOn
    <3> QED BY <1>2, <2>1, <3>1, <3>2 DEF DaemonStreamsOK
  <2> QED BY <2>3, <2>4
<1>10. DaemonStreamsOK' BY <1>2, <1>6, <1>7, <1>9 DEF DaemonStreamsOK
<1> QED BY <1>4, <1>5, <1>10

(* A process takes a prompt and answers that prompt.                       *)
LEMMA DaemonServesInv ==
  ASSUME PromptBound, DaemonInv, NEW c \in D!Calls, D!Write(c) \/ D!Answer(c) \/ D!AnswerError(c)
  PROVE  DaemonInv'
<1>1. PICK p : p = handler[c].on OBVIOUS
<1>2. PICK j : j = call[c] OBVIOUS
<1>3. /\ call \in [D!Calls -> PromptCalls] /\ j \in PromptCalls /\ j.answer \in {0, c}
      /\ DaemonStreamsOK /\ p \in 1 .. started /\ p \in D!Processes /\ p \in Nat
      /\ stream \in [D!Processes -> Seq(D!Calls)] /\ stream[p] \in Seq(D!Calls)
  <2>1. /\ DaemonStreamsOK /\ p \in 1 .. started /\ started \in D!Processes
        /\ stream \in [D!Processes -> Seq(D!Calls)]
    BY <1>1 DEF DaemonInv, DaemonStartsOK, DaemonStreamsOK
  <2>2. p \in D!Processes /\ p \in Nat BY <2>1 DEF D!Processes, PromptBound
  <2>3. stream[p] \in Seq(D!Calls) BY <2>1, <2>2
  <2>4. call \in [D!Calls -> PromptCalls] /\ j \in PromptCalls /\ j.answer \in {0, c}
    BY <1>2 DEF DaemonInv, DaemonStartsOK, D!OwnAnswers
  <2> QED BY <2>1, <2>2, <2>3, <2>4
<1>4. handler[c].pc # "none" /\ UNCHANGED <<started, alive, socket>>
  BY DEF D!Write, D!Answer, D!AnswerError, D!processVars
<1>5. PICK to \in {"none", "asked"} : D!Serve(c, to) /\ (to = "asked" <=> D!Write(c))
  <2>1. D!Write(c) => D!Serve(c, "asked") /\ handler[c].pc = "queued" /\ handler[c].on \in alive
    BY DEF D!Write
  <2>2. D!Answer(c) => D!Serve(c, "none") /\ handler[c].pc = "asked" BY DEF D!Answer
  <2>3. D!AnswerError(c) => D!Serve(c, "none") /\ handler[c].on \notin alive BY DEF D!AnswerError
  <2> QED BY <2>1, <2>2, <2>3
<1>6. /\ stream' \in [D!Processes -> Seq(D!Calls)]
      /\ \A q \in D!Processes : q # p => stream'[q] = stream[q]
      /\ p \in alive =>
           /\ stream'[p] = IF to = "asked" THEN <<c>> ELSE <<>>
           /\ \A u \in D!Calls \ {c} : ~DaemonAsksOn(u, p)
      /\ p \notin alive => stream' = stream
      /\ D!Answer(c) => Head(stream[p]) = c
  <2>1. CASE D!Write(c)
    <3>1. stream' = [stream EXCEPT ![p] = Append(stream[p], c)] BY <1>1, <2>1 DEF D!Write
    <3>2. p \in alive /\ \A u \in D!Calls : ~DaemonAsksOn(u, p)
      BY <1>1, <2>1 DEF D!Write, DaemonAsksOn
    <3>3. stream[p] = <<>> BY <1>3, <3>2 DEF DaemonStreamsOK
    <3>4. Append(stream[p], c) = <<c>> /\ <<c>> \in Seq(D!Calls) BY <3>3
    <3>5. stream' = [stream EXCEPT ![p] = <<c>>] BY <3>1, <3>4
    <3>6. stream' \in [D!Processes -> Seq(D!Calls)] /\ stream'[p] = <<c>>
      BY <1>3, <3>4, <3>5
    <3>7. ~D!Answer(c) BY <2>1 DEF D!Write, D!Answer
    <3> QED BY <1>3, <1>5, <2>1, <3>2, <3>5, <3>6, <3>7
  <2>2. CASE D!Answer(c)
    <3>1. stream' = [stream EXCEPT ![p] = Tail(stream[p])] /\ p \in alive /\ DaemonAsksOn(c, p)
      BY <1>1, <2>2 DEF D!Answer, DaemonAsksOn
    <3>2. stream[p] = <<c>> BY <1>3, <3>1 DEF DaemonStreamsOK
    <3>3. Tail(stream[p]) = <<>> /\ Head(stream[p]) = c BY <3>2
    <3>4. stream' = [stream EXCEPT ![p] = <<>>] BY <3>1, <3>3
    <3>5. <<>> \in Seq(D!Calls) OBVIOUS
    <3>6. stream' \in [D!Processes -> Seq(D!Calls)] /\ stream'[p] = <<>> BY <1>3, <3>4, <3>5
    <3>7. ASSUME NEW u \in D!Calls \ {c}, DaemonAsksOn(u, p) PROVE FALSE
      <4>1. <<u>> = <<c>> BY <1>3, <3>1, <3>2, <3>7 DEF DaemonStreamsOK
      <4>2. <<u>>[1] = u /\ <<c>>[1] = c OBVIOUS
      <4> QED BY <4>1, <4>2
    <3>8. ~D!Write(c) BY <2>2 DEF D!Write, D!Answer
    <3> QED BY <1>3, <1>5, <3>1, <3>3, <3>4, <3>6, <3>7, <3>8
  <2>3. CASE D!AnswerError(c)
    <3>1. stream' = stream /\ p \notin alive BY <1>1, <2>3 DEF D!AnswerError
    <3>2. ~D!Answer(c) BY <1>1, <3>1 DEF D!Answer
    <3> QED BY <1>3, <3>1, <3>2
  <2> QED BY <2>1, <2>2, <2>3
<1>7. DaemonStreamsOK' /\ (~DaemonEarly(c) => handler'[c].pc = to)
  BY <1>1, <1>4, <1>5, <1>6, DaemonHandlerStep DEF DaemonInv
<1>8. ~DaemonEarly(c) BY <1>4 DEF DaemonInv, DaemonUndialled
<1>9. /\ DaemonStartsOK' /\ D!OwnAnswers' /\ ~DaemonEarly(c)'
      /\ \A u \in D!Calls \ {c} : call'[u] = call[u]
  <2>1. CASE UNCHANGED call
    <3>1. DaemonStartsOK' /\ D!OwnAnswers'
      BY <1>4, <2>1 DEF DaemonInv, DaemonStartsOK, D!OwnAnswers, DaemonBegun, DaemonOver
    <3> QED BY <1>8, <2>1, <3>1 DEF DaemonEarly
  <2>2. CASE call' # call
    <3>1. PICK k \in PromptCalls :
            /\ call' = [call EXCEPT ![c] = k] /\ j.pc = "wait" /\ k.pc \in {"count", "return"}
            /\ k.answer \in {0, c}
      <4>1. CASE D!Answer(c)
        <5>1. c \in 0 .. Prompts BY DEF D!Calls, PromptBound
        <5>2. PICK k : k = [pc |-> "count", answer |-> c] OBVIOUS
        <5>3. call' = [call EXCEPT ![c] = k] /\ j.pc = "wait"
          BY <1>1, <1>2, <1>6, <2>2, <4>1, <5>2 DEF D!Answer, D!At
        <5>4. k \in PromptCalls /\ k.pc = "count" /\ k.answer = c
          BY <5>1, <5>2 DEF PromptCalls, PromptPCs
        <5> QED BY <5>3, <5>4
      <4>2. CASE D!AnswerError(c)
        <5>1. PICK k : k = [j EXCEPT !.pc = "return"] OBVIOUS
        <5>2. call' = [call EXCEPT ![c] = k] /\ j.pc = "wait"
          BY <1>2, <1>3, <2>2, <4>2, <5>1 DEF D!AnswerError, D!FallBack, D!Go, D!At
        <5>3. k \in PromptCalls /\ k.pc = "return" /\ k.answer = j.answer
          BY <1>3, <5>1 DEF PromptCalls, PromptPCs
        <5> QED BY <1>3, <5>2, <5>3
      <4>3. ~D!Write(c) BY <2>2 DEF D!Write
      <4> QED BY <4>1, <4>2, <4>3
    <3>2. /\ c \in DaemonBegun => k.pc \notin {"new", "restart"}
          /\ c \notin DaemonOver
      BY <1>2, <3>1 DEF DaemonBegun, DaemonOver
    <3>3. started' = started BY <1>4
    <3>4. DaemonStartsOK' /\ D!OwnAnswers' BY <3>1, <3>2, <3>3, DaemonStartsStep
    <3>5. call'[c] = k /\ \A u \in D!Calls \ {c} : call'[u] = call[u] BY <1>3, <3>1
    <3> QED BY <3>1, <3>4, <3>5 DEF DaemonEarly
  <2> QED BY <2>1, <2>2
<1>10. DaemonUndialled'
  <2>1. \A u \in D!Calls \ {c} : handler'[u] = handler[u] BY <1>3, <1>5 DEF D!Serve, DaemonStreamsOK
  <2> QED BY <1>9, <2>1 DEF DaemonInv, DaemonUndialled, DaemonEarly
<1> QED BY <1>7, <1>9, <1>10 DEF DaemonInv

(* No step of the agent daemon disturbs DaemonInv.                         *)
LEMMA DaemonNext ==
  ASSUME PromptBound, DaemonInv, [D!Next]_(D!daemonVars)
  PROVE  DaemonInv'
<1>1. CASE UNCHANGED D!daemonVars
  BY <1>1 DEF D!daemonVars, D!processVars, DaemonInv, DaemonStartsOK, DaemonStreamsOK,
    DaemonUndialled, DaemonEarly, D!OwnAnswers,
     DaemonBegun, DaemonOver, DaemonAsksOn
<1>2. CASE D!Next
  BY <1>2, DaemonGoesInv, DaemonStopsInv, DaemonRestartInv, DaemonDialInv,
    DaemonServesInv DEF D!Next, D!CallStep
<1> QED BY <1>1, <1>2

-----------------------------------------------------------------------------
(* Calls that share the agent daemon or the process of a backend get their *)
(* own answers, for any number of calls, turns, unread frames and faults:  *)
(* one that reads frames of another has been put out of step by a final    *)
(* frame that was left on the way by a call that went away.                *)
THEOREM AnswersAreOwn ==
  ASSUME TurnBounds, CallBounds, PromptBound
  PROVE  Spec => []OwnAnswers
<1> DEFINE I == /\ part = "daemon" => DaemonInv
                /\ part = "codex" => CodexInv
                /\ part = "claude" => ClaudeInv
                /\ part = "omp" => OmpInv
<1>1. Init => I BY PartInit, DaemonInit, CodexInit, ClaudeInit, OmpInit
<1>2. I /\ [Next]_runtimeVars => I' BY PartStep, DaemonNext, CodexNext, ClaudeNext, OmpNext
<1>3. I => OwnAnswers BY CodexKeeps, ClaudeKeeps, OmpKeeps DEF OwnAnswers, DaemonInv
<1> QED BY <1>1, <1>2, <1>3, PTL DEF Spec

(* Every process that Codex, omp or OpenCode has started and that lives is *)
(* the one the backend holds, or one that a call under way will end.       *)
THEOREM ProcessesAreKnown ==
  ASSUME TurnBounds, CallBounds
  PROVE  Spec => []NoneIsLost
<1> DEFINE I == /\ part = "codex" => CodexInv
                /\ part = "omp" => OmpInv
                /\ part = "opencode" => OpenInv
<1>1. Init => I BY PartInit, CodexInit, OmpInit, OpenInit
<1>2. I /\ [Next]_runtimeVars => I' BY PartStep, CodexNext, OmpNext, OpenNext
<1>3. I => NoneIsLost BY CodexKeeps, OmpKeeps DEF NoneIsLost, OpenInv
<1> QED BY <1>1, <1>2, <1>3, PTL DEF Spec

-----------------------------------------------------------------------------
(* Where the agent daemon is: at most its latest process runs, listens and *)
(* is watched.                                                             *)
DaemonPlaces ==
  /\ current \in {0, started}
  /\ socket \in {0, current}
  /\ alive \subseteq {current} /\ watchers \subseteq {current} /\ due \subseteq D!Processes
  /\ startedBy \in [D!Processes -> 0 .. Prompts]
  /\ \A p \in D!Processes : Len(stream[p]) <= Prompts

DaemonTyped == DaemonInv /\ DaemonPlaces

(* Before the first call the daemon is where DaemonPlaces says.            *)
LEMMA DaemonPlacesInit ==
  ASSUME PromptBound, D!Init
  PROVE  DaemonPlaces
<1>1. 0 \in 0 .. Prompts BY DEF PromptBound
<1>2. \A p \in D!Processes : stream[p] = <<>> BY DEF D!Init
<1> QED BY <1>1, <1>2 DEF D!Init, DaemonPlaces, PromptBound

(* Steps that start no process and give none a prompt.                     *)
LEMMA DaemonPlacesKept ==
  ASSUME DaemonPlaces, UNCHANGED <<started, startedBy>>,
         \/ UNCHANGED <<current, socket>>
         \/ current' = current /\ socket' = 0
         \/ current' = 0 /\ socket' = 0 /\ alive' = alive \ {current}
                         /\ watchers' = watchers \ {current},
         alive' \subseteq alive, watchers' \subseteq watchers, due' \subseteq D!Processes,
         \A p \in D!Processes : Len(stream'[p]) <= Prompts
  PROVE  DaemonPlaces'
<1>1. current' \in {0, started'} /\ socket' \in {0, current'} BY DEF DaemonPlaces
<1>2. alive' \subseteq {current'} /\ watchers' \subseteq {current'} BY DEF DaemonPlaces
<1> QED BY <1>1, <1>2 DEF DaemonPlaces

(* What a handler does keeps streams short.                                *)
LEMMA DaemonStreamsShort ==
  ASSUME PromptBound, DaemonInv, DaemonPlaces, NEW c \in D!Calls, D!Write(c) \/ D!Answer(c)
  PROVE  \A p \in D!Processes : Len(stream'[p]) <= Prompts
<1>1. PICK q : q = handler[c].on OBVIOUS
<1>2. /\ q \in alive /\ q \in D!Processes /\ stream \in [D!Processes -> Seq(D!Calls)]
      /\ 1 \in Nat /\ Prompts \in Nat /\ 1 <= Prompts
  <2>1. q \in alive BY <1>1 DEF D!Write, D!Answer
  <2>2. q \in D!Processes
    BY <2>1 DEF DaemonInv, DaemonStreamsOK, DaemonStartsOK, D!Processes, PromptBound
  <2>3. 1 <= Prompts BY DEF D!Calls, PromptBound
  <2> QED BY <2>1, <2>2, <2>3 DEF DaemonInv, DaemonStreamsOK, PromptBound
<1>3. CASE D!Write(c)
  <2>1. \A b \in D!Calls : ~DaemonAsksOn(b, q) BY <1>1, <1>3 DEF D!Write, DaemonAsksOn
  <2>2. stream[q] = <<>> BY <1>2, <2>1 DEF DaemonInv, DaemonStreamsOK
  <2>3. stream' = [stream EXCEPT ![q] = Append(stream[q], c)] BY <1>1, <1>3 DEF D!Write
  <2>4. Len(Append(stream[q], c)) = 1 BY <2>2
  <2> QED BY <1>2, <2>3, <2>4 DEF DaemonPlaces
<1>4. CASE D!Answer(c)
  <2>1. DaemonAsksOn(c, q) BY <1>1, <1>4 DEF D!Answer, DaemonAsksOn
  <2>2. stream[q] = <<c>> BY <1>2, <2>1 DEF DaemonInv, DaemonStreamsOK
  <2>3. stream' = [stream EXCEPT ![q] = Tail(stream[q])] BY <1>1, <1>4 DEF D!Answer
  <2>4. Len(Tail(stream[q])) = 0 BY <2>2
  <2> QED BY <1>2, <2>3, <2>4 DEF DaemonPlaces
<1> QED BY <1>3, <1>4

(* No step of the agent daemon disturbs DaemonPlaces.                      *)
LEMMA DaemonPlacesNext ==
  ASSUME PromptBound, DaemonTyped, [D!Next]_(D!daemonVars)
  PROVE  DaemonTyped'
<1> USE DEF DaemonTyped
<1>1. DaemonInv' BY DaemonNext
<1>2. CASE UNCHANGED D!daemonVars BY <1>1, <1>2 DEF D!daemonVars, D!processVars, DaemonPlaces
<1>3. \A p \in D!Processes : Len(stream[p]) <= Prompts BY DEF DaemonPlaces
<1>4. due \subseteq D!Processes BY DEF DaemonPlaces
<1>5. ASSUME NEW c \in D!Calls,
             D!Call(c) \/ D!Dial(c) \/ D!DialFails(c) \/ D!AnswerError(c) \/ D!TimeOut(c) \/ D!Count(c)
      PROVE  DaemonPlaces'
  <2>1. UNCHANGED <<D!processVars, stream>>
    BY <1>5 DEF D!Call, D!Dial, D!DialFails, D!AnswerError, D!TimeOut, D!Count
  <2> QED BY <2>1, <1>3, <1>4, DaemonPlacesKept DEF D!processVars
<1>6. ASSUME NEW c \in D!Calls, D!Write(c) \/ D!Answer(c) PROVE DaemonPlaces'
  <2>1. UNCHANGED D!processVars BY <1>6 DEF D!Write, D!Answer
  <2>2. \A p \in D!Processes : Len(stream'[p]) <= Prompts BY <1>6, DaemonStreamsShort
  <2> QED BY <2>1, <2>2, <1>4, DaemonPlacesKept DEF D!processVars
<1>7. ASSUME NEW c \in D!Calls, D!Restart(c) PROVE DaemonPlaces'
  <2>1. /\ started' = started + 1 /\ current' = started + 1 /\ socket' = started + 1
        /\ alive' = (alive \ {current}) \cup {started + 1}
        /\ watchers' = (watchers \ {current}) \cup {started + 1}
        /\ startedBy' = [startedBy EXCEPT ![started + 1] = c]
        /\ UNCHANGED <<due, stream>>
    BY <1>7 DEF D!Restart
  <2>2. c \in 0 .. Prompts BY DEF D!Calls, PromptBound
  <2> QED BY <2>1, <2>2 DEF DaemonPlaces
<1>8. ASSUME NEW c \in D!Calls, D!RestartFails(c) PROVE DaemonPlaces'
  <2>1. UNCHANGED <<started, startedBy, stream>> /\ due' = due /\ D!StopDaemon BY <1>8 DEF D!RestartFails
  <2> QED BY <2>1, <1>3, <1>4, DaemonPlacesKept DEF D!StopDaemon
<1>9. ASSUME NEW c \in D!Calls, D!Return(c) PROVE DaemonPlaces'
  <2>1. /\ UNCHANGED <<started, startedBy, stream, current, due>>
        /\ alive' \subseteq alive /\ watchers' \subseteq watchers /\ socket' \in {0, socket}
    BY <1>9 DEF D!Return
  <2> QED BY <2>1, <1>3, <1>4, DaemonPlacesKept
<1>10. ASSUME NEW p \in D!Processes, D!IdleFor(p) \/ D!IdleStop(p) PROVE DaemonPlaces'
  <2>1. CASE D!IdleFor(p)
    BY <2>1, <1>3, <1>4, DaemonPlacesKept DEF D!IdleFor
  <2>2. CASE D!IdleStop(p)
    BY <2>2, <1>3, <1>4, DaemonPlacesKept DEF D!IdleStop, D!StopDaemon
  <2> QED BY <1>10, <2>1, <2>2
<1>11. ASSUME D!Crash PROVE DaemonPlaces'
  BY <1>11, <1>3, <1>4, DaemonPlacesKept DEF D!Crash
<1>12. CASE D!Next
  BY <1>1, <1>12, <1>5, <1>6, <1>7, <1>8, <1>9, <1>10, <1>11 DEF D!Next, D!CallStep
<1> QED BY <1>1, <1>2, <1>12

(* DaemonTyped has the types of the agent daemon.                          *)
LEMMA DaemonTypes ==
  ASSUME PromptBound, DaemonTyped
  PROVE  D!TypeOK
<1>1. /\ started \in D!Processes /\ call \in [D!Calls -> PromptCalls]
      /\ \A c \in D!Calls : handler[c].on \in 1 .. started
  BY DEF DaemonTyped, DaemonInv, DaemonStartsOK, DaemonStreamsOK
<1>2. current \in 0 .. started BY <1>1 DEF DaemonTyped, DaemonPlaces, D!Processes, PromptBound
<1>3. \A c \in D!Calls : call[c].answer \in 0 .. Prompts BY <1>1 DEF PromptCalls
<1> QED BY <1>1, <1>2, <1>3 DEF DaemonTyped, DaemonPlaces, D!TypeOK

-----------------------------------------------------------------------------
(* The lock file, also after its owner has ended.                          *)
LockRecords == [lock : Daemons \cup {Nobody}, pid : Daemons \cup {Nobody}]

LockTypes ==
  /\ files \in Seq(LockRecords)
  /\ path \in 0 .. Len(files)
  /\ DOMAIN daemon = Daemons
  /\ \A d \in Daemons : daemon[d].file \in 0 .. Len(files)

(* A daemon goes on with the file it has, which may have changed.          *)
LEMMA LockGoes ==
  ASSUME LockTypes, NEW d \in Daemons, NEW pc, L!Goto(d, pc),
         files' \in Seq(LockRecords), Len(files') = Len(files), path' \in {0, path}
  PROVE  LockTypes'
<1>1. daemon' = [daemon EXCEPT ![d].pc = pc] BY DEF L!Goto
<1>2. Len(files) \in Nat BY DEF LockTypes
<1>3. \A e \in Daemons : daemon'[e].file = daemon[e].file BY <1>1 DEF LockTypes
<1>4. DOMAIN daemon' = Daemons BY <1>1 DEF LockTypes
<1>5. path' \in 0 .. Len(files') BY <1>2 DEF LockTypes
<1> QED BY <1>2, <1>3, <1>4, <1>5 DEF LockTypes

(* What is written to a file that was opened.                              *)
LEMMA LockWrites ==
  ASSUME LockTypes, NEW i, NEW v \in Daemons \cup {Nobody},
         files' = [files EXCEPT ![i].lock = v] \/ files' = [files EXCEPT ![i].pid = v]
  PROVE  files' \in Seq(LockRecords) /\ Len(files') = Len(files)
<1>1. files \in [1 .. Len(files) -> LockRecords] /\ Len(files) \in Nat BY DEF LockTypes
<1>2. files' \in [1 .. Len(files) -> LockRecords] BY <1>1 DEF LockRecords
<1> QED BY <1>1, <1>2, AnySequence

(* A file is made for whoever opens the path when it leads to none.        *)
LEMMA LockOpens ==
  ASSUME LockTypes, NEW d \in Daemons, L!Open(d)
  PROVE  LockTypes'
<1>1. files \in Seq(LockRecords) /\ Len(files) \in Nat /\ path \in 0 .. Len(files) BY DEF LockTypes
<1>2. files' \in Seq(LockRecords) /\ Len(files') >= Len(files) /\ Len(files') \in Nat
      /\ path' \in 0 .. Len(files')
  <2>1. CASE path = 0
    <3>1. files' = Append(files, L!Unlocked) /\ path' = Len(files') BY <2>1 DEF L!Open
    <3>2. L!Unlocked \in LockRecords BY DEF L!Unlocked, LockRecords
    <3> QED BY <1>1, <3>1, <3>2, AppendProperties
  <2>2. CASE path # 0 BY <1>1, <2>2 DEF L!Open
  <2> QED BY <2>1, <2>2
<1>3. daemon' = [daemon EXCEPT ![d] = [pc |-> "flock", file |-> path', retry |-> L!At(d, "again")]]
  BY DEF L!Open
<1>4. \A e \in Daemons : daemon'[e].file = IF e = d THEN path' ELSE daemon[e].file
  BY <1>3 DEF LockTypes
<1>5. DOMAIN daemon' = Daemons BY <1>3 DEF LockTypes
<1>6. \A e \in Daemons : daemon'[e].file \in 0 .. Len(files') BY <1>1, <1>2, <1>4 DEF LockTypes
<1> QED BY <1>2, <1>5, <1>6 DEF LockTypes

(* The kernel lets go of the locks of a daemon that dies.                  *)
LEMMA LockLetsGo ==
  ASSUME LockTypes, NEW d \in Daemons, L!Crash(d)
  PROVE  LockTypes'
<1>1. files \in [1 .. Len(files) -> LockRecords] /\ Len(files) \in Nat BY DEF LockTypes
<1>2. files' = [f \in 1 .. Len(files) |->
                  IF files[f].lock = d THEN [files[f] EXCEPT !.lock = Nobody] ELSE files[f]]
  BY <1>1 DEF L!Crash
<1>3. files' \in [1 .. Len(files) -> LockRecords] BY <1>1, <1>2 DEF LockRecords
<1>4. files' \in Seq(LockRecords) /\ Len(files') = Len(files) BY <1>1, <1>3, AnySequence
<1> QED BY <1>4, LockGoes DEF L!Crash

(* No system call on the lock file disturbs its types.                     *)
LEMMA LockNext ==
  ASSUME LockTypes, [L!Next]_(L!lockVars)
  PROVE  LockTypes'
<1>1. CASE UNCHANGED L!lockVars BY <1>1 DEF L!lockVars, LockTypes
<1>2. files \in Seq(LockRecords) BY DEF LockTypes
<1>3. CASE L!Probe
  <2>1. PICK d \in Daemons : L!Goto(d, IF daemon[d].retry THEN "refused" ELSE "stale")
    BY <1>3 DEF L!Probe
  <2> QED BY <1>2, <1>3, <2>1, LockGoes DEF L!Probe
<1>4. ASSUME NEW d \in Daemons, L!DaemonStep(d) PROVE LockTypes'
  <2>1. CASE L!Refused(d) \/ L!Check(d) \/ L!RemoveStale(d) \/ L!Remove(d)
    <3>1. PICK pc : L!Goto(d, pc) /\ files' = files /\ path' \in {0, path}
      BY <2>1 DEF L!Refused, L!Check, L!RemoveStale, L!Remove
    <3> QED BY <1>2, <3>1, LockGoes
  <2>2. CASE L!Flock(d) \/ L!Truncate(d) \/ L!WritePID(d) \/ L!Unlock(d)
    <3>1. PICK v \in Daemons \cup {Nobody} :
            /\ \E pc : L!Goto(d, pc)
            /\ path' = path
            /\ \/ files' = [files EXCEPT ![daemon[d].file].lock = v]
               \/ files' = [files EXCEPT ![daemon[d].file].pid = v]
      <4>1. CASE L!Flock(d)
        BY <4>1 DEF L!Flock
      <4>2. CASE L!Truncate(d)
        BY <4>2 DEF L!Truncate
      <4>3. CASE L!WritePID(d)
        BY <4>3 DEF L!WritePID
      <4>4. CASE L!Unlock(d)
        BY <4>4 DEF L!Unlock
      <4> QED BY <2>2, <4>1, <4>2, <4>3, <4>4
    <3>2. files' \in Seq(LockRecords) /\ Len(files') = Len(files) BY <3>1, LockWrites
    <3> QED BY <3>1, <3>2, LockGoes
  <2> QED BY <1>4, <2>1, <2>2, LockOpens, LockLetsGo DEF L!DaemonStep
<1> QED BY <1>1, <1>3, <1>4 DEF L!Next

(* Before the first daemon, and what they are for.                         *)
LEMMA LockTyped ==
  /\ L!Init => LockTypes
  /\ LockTypes => L!TypeOK
<1>1. ASSUME L!Init PROVE LockTypes
  <2>1. files = <<>> /\ files \in Seq(LockRecords) /\ Len(files) = 0 /\ path = 0 BY <1>1 DEF L!Init
  <2>2. DOMAIN daemon = Daemons /\ \A d \in Daemons : daemon[d].file = 0 BY <1>1 DEF L!Init
  <2> QED BY <2>1, <2>2 DEF LockTypes
<1>2. ASSUME LockTypes PROVE L!TypeOK
  <2>1. \A f \in DOMAIN files : files[f] \in LockRecords BY <1>2 DEF LockTypes
  <2> QED BY <1>2, <2>1 DEF LockTypes, L!TypeOK, LockRecords
<1> QED BY <1>1, <1>2

-----------------------------------------------------------------------------
(* The bridge: what else is of the right kind.                             *)
BridgeSizes ==
  /\ registry \in [RequestIds -> 0 .. Len(handler)]
  /\ Len(responses) <= Capacity
  /\ \A i \in 1 .. Len(responses) : responses[i] \in B!Handlers \cup {B!Refusal}
  /\ written \subseteq B!Handlers \cup {B!Refusal}

BridgeTyped == BridgeInv /\ BridgeSizes

(* Steps after which the handlers are at least as many, and the channel    *)
(* has no more in it.                                                      *)
LEMMA BridgeSizesKept ==
  ASSUME BridgeSizes, Shape, Len(handler') \in Nat, Len(handler') >= Len(handler),
         B!Handlers' = 1 .. Len(handler'), UNCHANGED <<responses, written>>,
         registry' \in [RequestIds -> 0 .. Len(handler')]
  PROVE  BridgeSizes'
<1>1. B!Handlers = 1 .. Len(handler) /\ Len(handler) \in Nat BY HandlersAre
<1>2. B!Handlers \subseteq B!Handlers' BY <1>1
<1>3. B!Refusal' = B!Refusal BY DEF B!Refusal
<1> QED BY <1>2, <1>3 DEF BridgeSizes

(* What is sent is a refusal or the response of a handler.                 *)
LEMMA BridgeSends ==
  ASSUME Lengths, BridgeSizes, Shape, NEW r \in B!Handlers \cup {B!Refusal}, B!TrySend(r),
         B!Handlers' = B!Handlers, Len(handler') = Len(handler), UNCHANGED <<registry, written>>
  PROVE  BridgeSizes'
<1>1. responses \in Seq(Nat) /\ Len(responses) \in Nat BY DEF Shape
<1>2. r \in Nat BY HandlersAre DEF B!Refusal
<1>3. CASE B!SendOrWait(r)
  <2>1. responses' = Append(responses, r) /\ Len(responses) < Capacity BY <1>3 DEF B!SendOrWait
  <2>2. /\ Len(responses') = Len(responses) + 1
        /\ \A i \in 1 .. Len(responses) : responses'[i] = responses[i]
        /\ responses'[Len(responses) + 1] = r
    BY <2>1, <1>1, <1>2, AppendProperties
  <2>3. Len(responses') <= Capacity BY <1>1, <2>1, <2>2 DEF Lengths
  <2>4. \A i \in 1 .. Len(responses') : i \in 1 .. Len(responses) \/ i = Len(responses) + 1
    BY <1>1, <2>2
  <2> QED BY <2>2, <2>3, <2>4 DEF BridgeSizes, B!Refusal
<1>4. CASE UNCHANGED <<responses, channel>>
  BY <1>4 DEF BridgeSizes, B!Refusal
<1> QED BY <1>3, <1>4 DEF B!TrySend

(* What was in the channel is written, or lost with the output.            *)
LEMMA BridgeWrites ==
  ASSUME Lengths, BridgeSizes, Shape, B!Write \/ B!WriteFails
  PROVE  BridgeSizes'
<1>1. /\ responses # << >> /\ responses' = Tail(responses) /\ handler' = handler
      /\ registry' = registry /\ written' \in {written, written \cup {Head(responses)}}
  BY DEF B!Write, B!WriteFails
<1>2. /\ responses \in Seq(Nat) /\ Len(responses) \in Nat \ {0}
      /\ Len(responses') = Len(responses) - 1 /\ Head(responses) = responses[1]
      /\ \A i \in 1 .. Len(responses') : responses'[i] = responses[i + 1]
  BY <1>1, EmptySeq, HeadTailProperties DEF Shape
<1>3. B!Handlers' = B!Handlers /\ B!Refusal' = B!Refusal BY <1>1 DEF B!Handlers, B!Refusal
<1>4. responses[1] \in B!Handlers \cup {B!Refusal} BY <1>2 DEF BridgeSizes
<1>5. Len(responses') <= Capacity
  <2>1. Len(responses) <= Capacity BY DEF BridgeSizes
  <2>2. DOMAIN responses = 1 .. Len(responses) BY <1>2
  <2> QED BY <1>2, <2>1 DEF Lengths
<1>6. \A i \in 1 .. Len(responses') : responses'[i] \in B!Handlers \cup {B!Refusal}
  <2>1. \A i \in 1 .. Len(responses') : i + 1 \in 1 .. Len(responses) BY <1>2
  <2> QED BY <1>2, <2>1 DEF BridgeSizes
<1> QED BY <1>1, <1>2, <1>3, <1>4, <1>5, <1>6 DEF BridgeSizes


(* No step of the bridge disturbs BridgeSizes.                             *)
LEMMA BridgeTypedNext ==
  ASSUME Lengths, BridgeTyped, [B!Next]_(B!bridgeVars)
  PROVE  BridgeTyped'
<1>1. BridgeInv' BY NextBridgeInv DEF BridgeTyped
<1>2. BridgeSizes /\ Shape /\ Shape' BY <1>1 DEF BridgeTyped, BridgeInv
<1>3. /\ B!Handlers = 1 .. Len(handler) /\ Len(handler) \in Nat
      /\ registry \in [RequestIds -> 0 .. Len(handler)]
  BY <1>2, HandlersAre DEF BridgeSizes
<1>4. B!Handlers' = 1 .. Len(handler') /\ Len(handler') \in Nat
  BY <1>2, LenProperties DEF Shape, B!Handlers
<1>5. ASSUME SameHandlers PROVE Len(handler') = Len(handler)
  BY <1>3, <1>4, <1>5 DEF SameHandlers
<1>6. ASSUME SameHandlers, UNCHANGED <<registry, responses, written>> PROVE BridgeSizes'
  BY <1>2, <1>3, <1>4, <1>5, <1>6, BridgeSizesKept
<1>7. ASSUME UNCHANGED B!bridgeVars PROVE BridgeSizes'
  BY <1>2, <1>6, <1>7, UnchangedHandlers DEF B!bridgeVars
<1>8. ASSUME \/ B!Check \/ B!RefuseLine \/ B!EndOfInput \/ B!RunReturns \/ B!LifeStep
             \/ B!WriterEnds \/ B!WaitForHandlers
      PROVE  BridgeSizes'
  <2>1. UNCHANGED <<handler, registry, responses, written>>
    BY <1>8 DEF B!Check, B!RefuseLine, B!Line, B!EndOfInput, B!RunReturns, B!LifeStep, B!Return,
      B!ShutdownTimeout, B!WriterEnds, B!WaitForHandlers, B!CloseChannel
  <2> QED BY <1>2, <1>6, <2>1, UnchangedHandlers
<1>9. ASSUME \/ B!StopReading \/ B!ReadFails \/ B!CancelAll \/ B!Interrupt
             \/ \E id \in RequestIds : B!CancelLine(id)
      PROVE  BridgeSizes'
  <2>1. UNCHANGED <<registry, responses, written>> /\ \E hs : handler' = B!Cancelled(hs)
    <3>1. UNCHANGED <<registry, responses, written>>
      BY <1>9 DEF B!StopReading, B!ReadFails, B!CancelAll, B!Interrupt, B!CancelLine
    <3>2. CASE B!StopReading \/ B!ReadFails \/ B!CancelAll
      BY <3>1, <3>2 DEF B!StopReading, B!ReadFails, B!CancelAll, B!CancelActive
    <3>3. CASE B!Interrupt BY <3>1, <3>3 DEF B!Interrupt
    <3>4. CASE \E id \in RequestIds : B!CancelLine(id) BY <3>1, <3>4 DEF B!CancelLine
    <3> QED BY <1>9, <3>2, <3>3, <3>4
  <2> QED BY <1>2, <1>6, <2>1, CancelledKeeps
<1>10. ASSUME B!SendRefusal PROVE BridgeSizes'
  <2>1. B!TrySend(B!Refusal) /\ UNCHANGED <<handler, registry, written>> BY <1>10 DEF B!SendRefusal
  <2> QED BY <1>2, <2>1, UnchangedHandlers, BridgeSends DEF SameHandlers
<1>11. ASSUME NEW id \in RequestIds, B!StartRequest(id) PROVE BridgeSizes'
  <2>1. /\ registry' = [registry EXCEPT ![id] = Len(handler')]
        /\ UNCHANGED <<responses, written>>
        /\ handler' = Append(handler, [id |-> id, pc |-> "handling", cancelled |-> runCtx = "cancelled"])
    BY <1>11 DEF B!StartRequest, B!Register
  <2>2. Len(handler') = Len(handler) + 1
    <3>1. handler \in Seq(HandlerRecord) BY <1>2 DEF Shape
    <3> QED BY <2>1, <3>1
  <2>3. registry' \in [RequestIds -> 0 .. Len(handler')] BY <1>3, <2>1, <2>2
  <2> QED BY <1>2, <1>3, <1>4, <2>1, <2>2, <2>3, BridgeSizesKept
<1>12. ASSUME NEW h \in 1 .. MaxLines, B!HandlerStep(h) PROVE BridgeSizes'
  <2>1. h \in B!Handlers /\ written' = written /\ \E pc \in HandlerPCs : B!HandlerGoto(h, pc)
    BY <1>12 DEF B!HandlerStep, B!HandlerEnds, B!Respond, B!Forget, B!HandlerAt, HandlerPCs
  <2>2. B!Handlers' = B!Handlers /\ Len(handler') = Len(handler)
    <3>1. B!Handlers' = B!Handlers BY <2>1, HandlerMoves DEF BridgeTyped
    <3> QED BY <1>3, <1>4, <3>1
  <2>3. CASE B!Respond(h)
    BY <1>2, <2>1, <2>2, <2>3, BridgeSends DEF B!Respond
  <2>4. CASE B!HandlerEnds(h)
    BY <1>2, <1>3, <1>4, <2>2, <2>4, BridgeSizesKept DEF B!HandlerEnds
  <2>5. CASE B!Forget(h)
    <3>1. registry' = [registry EXCEPT ![handler[h].id] = 0] /\ UNCHANGED <<responses, written>>
      BY <2>5 DEF B!Forget, B!None
    <3>2. registry' \in [RequestIds -> 0 .. Len(handler')]
      <4>1. PICK n \in Nat : n = Len(handler) BY <1>3
      <4>2. registry \in [RequestIds -> 0 .. n] /\ 0 \in 0 .. n BY <1>3, <4>1
      <4>3. registry' \in [RequestIds -> 0 .. n] BY <3>1, <4>2
      <4> QED BY <2>2, <4>1, <4>3
    <3> QED BY <1>2, <1>3, <1>4, <2>2, <3>1, <3>2, BridgeSizesKept
  <2> QED BY <1>12, <2>3, <2>4, <2>5 DEF B!HandlerStep
<1>13. ASSUME B!Write \/ B!WriteFails PROVE BridgeSizes' BY <1>2, <1>13, BridgeWrites
<1>14. BridgeSizes'
  BY <1>7, <1>8, <1>9, <1>10, <1>11, <1>12, <1>13 DEF B!Next, B!ReaderStep, B!WriterStep
<1> QED BY <1>1, <1>14 DEF BridgeTyped

(* Before the first line, and what they are for.                           *)
LEMMA BridgeTypes ==
  ASSUME Lengths
  PROVE  /\ B!Init => BridgeTyped
         /\ BridgeTyped => B!TypeOK
<1>1. ASSUME B!Init PROVE BridgeTyped
  <2>1. BridgeInv BY <1>1, InitBridgeInv
  <2>2. Len(handler) = 0 /\ Len(responses) = 0 BY <1>1 DEF B!Init
  <2> QED BY <1>1, <2>1, <2>2 DEF B!Init, BridgeTyped, BridgeSizes, Lengths
<1>2. ASSUME BridgeTyped PROVE B!TypeOK
  BY <1>2 DEF BridgeTyped, BridgeInv, BridgeSizes, Shape, Over, B!TypeOK
<1> QED BY <1>1, <1>2

-----------------------------------------------------------------------------
(* OpenCode: the servers that answered a call.                             *)
OpenAnswers == \A c \in H!Calls : call[c].from \subseteq DOMAIN server

OpenTyped == OpenInv /\ OpenAnswers

(* Servers only become more.                                               *)
LEMMA OpenMore ==
  ASSUME OpenInv, OpenInv', [H!Next]_(H!openVars)
  PROVE  DOMAIN server \subseteq DOMAIN server'
<1>1. /\ server \in Seq(OpenServers) /\ DOMAIN server = 1 .. Len(server) /\ Len(server) \in Nat
      /\ DOMAIN server' = 1 .. Len(server') /\ Len(server') \in Nat
  BY DEF OpenInv, OpenTypes
<1>2. ASSUME NEW s PROVE DOMAIN H!Terminated(s) = DOMAIN server
  BY DEF H!Terminated
<1>3. ASSUME NEW v, server' = Append(server, v) PROVE DOMAIN server \subseteq DOMAIN server'
  BY <1>1, <1>3
<1>4. \/ server' = server
      \/ \E s : server' = H!Terminated(s)
      \/ \E v : server' = Append(server, v)
  <2>1. ASSUME NEW c \in H!Calls, H!CallStep(c)
        PROVE  \/ server' = server
               \/ \E s : server' = H!Terminated(s)
               \/ \E v : server' = Append(server, v)
    BY <2>1 DEF H!CallStep, H!FastPath, H!SlowPath, H!Lock, H!RecheckFound, H!Recheck, H!Adopt,
      H!Start, H!StartFails, H!NotReady, H!GiveUp, H!Ready, H!Closed, H!Publish, H!PublishAnyway,
      H!Subscribe, H!CreateSession, H!SendPrompt, H!Request, H!RequestFails, H!Found, H!NotFound,
      H!DropOther
  <2> QED BY <2>1 DEF H!Next, H!Close, H!ServerDies, H!OtherComes, H!openVars
<1> QED BY <1>2, <1>3, <1>4

(* A call is answered by servers that are there.                           *)
LEMMA OpenAsks ==
  ASSUME OpenInv, [H!Next]_(H!openVars), NEW d \in H!Calls
  PROVE  call'[d].from \subseteq call[d].from \cup DOMAIN server
<1>1. call \in [H!Calls -> OpenCalls] BY DEF OpenInv, OpenTypes
<1>2. ASSUME NEW c \in H!Calls, H!CallStep(c)
      PROVE  \/ call' = call
             \/ \E k : call' = [call EXCEPT ![c] = k] /\ k.from \subseteq call[c].from \cup DOMAIN server
  <2> DEFINE Said == \E k : call' = [call EXCEPT ![c] = k] /\ k.from \subseteq call[c].from \cup DOMAIN server
  <2>1. PICK j : j = call[c] OBVIOUS
  <2>2. j \in OpenCalls BY <1>1, <2>1
  <2>3. ASSUME NEW pc, H!Goto(c, pc) PROVE Said
    <3>1. call' = [call EXCEPT ![c] = [j EXCEPT !.pc = pc]] BY <2>1, <2>3 DEF H!Goto
    <3>2. [j EXCEPT !.pc = pc].from = j.from BY <2>2 DEF OpenCalls
    <3> QED BY <2>1, <3>1, <3>2
  <2>4. ASSUME NEW from, NEW to, H!Request(c, from, to) PROVE Said
    <3>1. call' = [call EXCEPT ![c] = [j EXCEPT !.pc = to, !.from = @ \cup H!On(base)]]
      BY <2>1, <2>4 DEF H!Request
    <3>2. [j EXCEPT !.pc = to, !.from = @ \cup H!On(base)].from = j.from \cup H!On(base)
      BY <2>2 DEF OpenCalls
    <3>3. H!On(base) \subseteq DOMAIN server BY DEF H!On
    <3> QED BY <2>1, <3>1, <3>2, <3>3
  <2>5. ASSUME NEW port, NEW next, H!Found(c, port, next) PROVE Said
    <3>1. PICK b : call' = [call EXCEPT ![c] = [j EXCEPT !.pc = next, !.port = port, !.stale = b]]
      BY <2>1, <2>5 DEF H!Found
    <3>2. [j EXCEPT !.pc = next, !.port = port, !.stale = b].from = j.from BY <2>2 DEF OpenCalls
    <3> QED BY <2>1, <3>1, <3>2
  <2>6. ASSUME NEW port, NEW next, H!NotFound(c, port, next) PROVE Said
    <3>1. call' = [call EXCEPT ![c] = [j EXCEPT !.pc = next, !.port = port]]
      BY <2>1, <2>6 DEF H!NotFound
    <3>2. [j EXCEPT !.pc = next, !.port = port].from = j.from BY <2>2 DEF OpenCalls
    <3> QED BY <2>1, <3>1, <3>2
  <2>7. ASSUME H!Adopt(c) PROVE Said
    <3>1. call' = [call EXCEPT ![c] = [j EXCEPT !.pc = "ready", !.ctx = context']]
      BY <2>1, <2>7 DEF H!Adopt
    <3>2. [j EXCEPT !.pc = "ready", !.ctx = context'].from = j.from BY <2>2 DEF OpenCalls
    <3> QED BY <2>1, <3>1, <3>2
  <2>8. ASSUME H!Start(c) PROVE Said
    <3>1. call' = [call EXCEPT ![c] = [j EXCEPT !.pc = "ready", !.ctx = c, !.started = Len(server')]]
      BY <2>1, <2>8 DEF H!Start
    <3>2. [j EXCEPT !.pc = "ready", !.ctx = c, !.started = Len(server')].from = j.from
      BY <2>2 DEF OpenCalls
    <3> QED BY <2>1, <3>1, <3>2
  <2>9. \/ \E pc : H!Goto(c, pc)
        \/ \E from, to : H!Request(c, from, to)
        \/ \E port, next : H!Found(c, port, next) \/ H!NotFound(c, port, next)
        \/ H!Adopt(c) \/ H!Start(c)
    BY <1>2 DEF H!CallStep, H!FastPath, H!SlowPath, H!Lock, H!RecheckFound, H!Recheck, H!StartFails,
      H!NotReady, H!GiveUp, H!Ready, H!Closed, H!Publish, H!PublishAnyway, H!Subscribe,
      H!CreateSession, H!SendPrompt, H!RequestFails
  <2> QED BY <2>3, <2>4, <2>5, <2>6, <2>7, <2>8, <2>9
<1>3. CASE \E c \in H!Calls : H!CallStep(c) BY <1>1, <1>2, <1>3
<1>4. CASE call' = call BY <1>4
<1> QED BY <1>3, <1>4 DEF H!Next, H!Close, H!ServerDies, H!OtherComes, H!openVars

(* No step disturbs the types of OpenCode.                                 *)
LEMMA OpenTypedNext ==
  ASSUME OpenTyped, [H!Next]_(H!openVars)
  PROVE  OpenTyped'
<1>1. OpenInv' BY OpenNext DEF OpenTyped
<1>2. DOMAIN server \subseteq DOMAIN server' BY <1>1, OpenMore DEF OpenTyped
<1>3. ASSUME NEW d \in H!Calls PROVE call'[d].from \subseteq DOMAIN server'
  BY <1>2, OpenAsks DEF OpenTyped, OpenAnswers
<1> QED BY <1>1, <1>3 DEF OpenTyped, OpenAnswers

(* Before the first call, and what they are for.                           *)
LEMMA OpenTypesOK ==
  /\ H!Init => OpenTyped
  /\ OpenTyped => H!TypeOK
<1>1. ASSUME H!Init PROVE OpenTyped
  <2>1. OpenInv BY <1>1, OpenInit
  <2> QED BY <1>1, <2>1 DEF H!Init, OpenTyped, OpenAnswers
<1>2. ASSUME OpenTyped PROVE H!TypeOK
  BY <1>2 DEF OpenTyped, OpenAnswers, OpenInv, OpenTypes, OpenPlaces, OpenSpawns, H!TypeOK
<1> QED BY <1>1, <1>2

-----------------------------------------------------------------------------
(* The invariants of the backends have the types of their modules: those   *)
(* of Codex.                                                               *)
LEMMA CodexTyped == CodexInv => X!TypeOK
<1> SUFFICES ASSUME CodexInv PROVE X!TypeOK OBVIOUS
<1>1. CodexTypes /\ \A g \in DOMAIN procs : CodexPeerOK(procs[g])
  BY DEF CodexInv, CodexTypes, CodexProcOK
<1>2. \A t \in X!Turns : call[t] \in CodexTurnCalls /\ call[t].gen \in 0 .. Len(procs)
  BY <1>1 DEF CodexTypes, CodexTurnCalls
<1>3. \A g \in DOMAIN procs : procs[g].up \in BOOLEAN /\ Len(procs[g].out) <= MaxUnread
  BY <1>1 DEF CodexPeerOK, CodexTurnProcs
<1> QED BY <1>1, <1>2, <1>3 DEF CodexTypes, CodexTurnCalls, CodexTurnPCs, X!TypeOK

(* Those of Claude.                                                        *)
LEMMA ClaudeTyped == ClaudeInv => C!TypeOK
<1> SUFFICES ASSUME ClaudeInv PROVE C!TypeOK OBVIOUS
<1>1. ClaudeTypes BY DEF ClaudeInv
<1>2. \A c \in C!Calls : call[c] \in ClaudeCallRecords /\ call[c].gen \in 0 .. Len(procs)
  BY <1>1 DEF ClaudeTypes, ClaudeCallRecords
<1>3. \A g \in DOMAIN procs : procs[g] \in ClaudePeerRecords BY <1>1 DEF ClaudeTypes
<1> QED BY <1>1, <1>2, <1>3 DEF ClaudeTypes, ClaudeCallRecords, ClaudeCallPCs, ClaudePeerRecords, C!TypeOK

(* Those of omp.                                                           *)
LEMMA OmpTyped == OmpInv => O!TypeOK
<1> SUFFICES ASSUME OmpInv PROVE O!TypeOK OBVIOUS
<1>1. OmpTypes BY DEF OmpInv
<1>2. \A c \in O!Calls : call[c] \in OmpCallRecords /\ call[c].gen \in 0 .. Len(procs)
  BY <1>1 DEF OmpTypes, OmpCallRecords
<1>3. \A g \in DOMAIN procs : procs[g] \in OmpPeerRecords BY <1>1 DEF OmpTypes
<1> QED BY <1>1, <1>2, <1>3 DEF OmpTypes, OmpCallRecords, OmpCallPCs, OmpPeerRecords, O!TypeOK

(* Those of a one-shot call.                                               *)
LEMMA ShotTyped == ShotInv => T!TypeOK
BY DEF ShotInv, ShotTypes, Fired, T!TypeOK

-----------------------------------------------------------------------------
(* The state of every part has the types its module declares: bounds of    *)
(* channels and counters are kept, no more than one process of the daemon  *)
(* runs, and what refers to a process, a file or a call refers to one that *)
(* is there.                                                               *)
THEOREM RuntimeTypes ==
  ASSUME Views, Capacities, Lengths, TurnBounds, CallBounds, PromptBound
  PROVE  Spec => []TypeOK
<1> DEFINE I == /\ part \in {"status", "daemon", "queue", "lock", "bridge", "codex", "claude",
                            "omp", "opencode", "oneshot"}
                /\ part = "status" => ViewInv
                /\ part = "daemon" => DaemonTyped
                /\ part = "queue" => QueueInv
                /\ part = "lock" => LockTypes
                /\ part = "bridge" => BridgeTyped
                /\ part = "codex" => CodexInv
                /\ part = "claude" => ClaudeInv
                /\ part = "omp" => OmpInv
                /\ part = "opencode" => OpenTyped
                /\ part = "oneshot" => ShotInv
<1>1. Init => I
  <2>1. ASSUME Init PROVE I
    BY <2>1, PartInit, ViewInit, DaemonInit, DaemonPlacesInit, InitQueueInv, LockTyped, BridgeTypes,
       CodexInit, ClaudeInit, OmpInit, OpenTypesOK, ShotInit
    DEF Init, DaemonTyped
  <2> QED BY <2>1
<1>2. I /\ [Next]_runtimeVars => I'
  BY PartStep, ViewNext, DaemonPlacesNext, NextQueueInv, LockNext, BridgeTypedNext,
     CodexNext, ClaudeNext, OmpNext, OpenTypedNext, ShotNext
<1>3. I => TypeOK
  <2> SUFFICES ASSUME I PROVE TypeOK OBVIOUS
  <2>1. part = "status" => S!TypeOK BY ViewsTyped
  <2>2. part = "daemon" => D!TypeOK BY DaemonTypes
  <2>3. part = "queue" => Q!TypeOK BY DEF QueueInv
  <2>4. part = "lock" => L!TypeOK BY LockTyped
  <2>5. part = "bridge" => B!TypeOK BY BridgeTypes
  <2>6. part = "codex" => X!TypeOK BY CodexTyped
  <2>7. part = "claude" => C!TypeOK BY ClaudeTyped
  <2>8. part = "omp" => O!TypeOK BY OmpTyped
  <2>9. part = "opencode" => H!TypeOK BY OpenTypesOK
  <2>10. part = "oneshot" => T!TypeOK BY ShotTyped
  <2>11. part \in {"status", "daemon", "queue", "lock", "bridge", "codex", "claude", "omp",
                   "opencode", "oneshot"}
    OBVIOUS
  <2> HIDE DEF I
  <2> QED BY <2>1, <2>2, <2>3, <2>4, <2>5, <2>6, <2>7, <2>8, <2>9, <2>10, <2>11 DEF TypeOK
<1> QED BY <1>1, <1>2, <1>3, PTL DEF Spec
=============================================================================
