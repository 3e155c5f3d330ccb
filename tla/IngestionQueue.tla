--------------------------- MODULE IngestionQueue ---------------------------
(***************************************************************************)
(* llmcli/daemon.IngestionQueue: a bounded FIFO behind one mutex and one   *)
(* condition variable.  A full queue drops its oldest event.  Pop blocks;  *)
(* a goroutine of its own wakes it when its context is cancelled.  Each    *)
(* action is what happens under one holding of the mutex.                  *)
(***************************************************************************)
EXTENDS Naturals, Sequences, FiniteSets

CONSTANTS
  Poppers,      \* goroutines that call Pop
  Cancellable,  \* those whose context may be cancelled
  MaxSize,      \* capacity of the queue
  MaxEvents     \* bound: events enqueued

VARIABLES
  events,    \* the queue; the n-th event ever enqueued is n
  closed,
  enqueued,  \* totalEnqueued
  dropped,   \* totalDropped
  pop,       \* pop[c]: the Pop call of c: none, awake (to lock mu) or in cond.Wait
  ctx,       \* ctx[c]: "live" or "cancelled"
  watch,     \* watch[c]: the goroutine that waits for ctx[c], or for Pop to return
  taken,     \* history: the events consumers got, in order
  removed    \* history: events taken out by Dequeue, DequeueN and Clear

queueVars == <<events, closed, enqueued, dropped, pop, ctx, watch, taken, removed>>

Waiting == {c \in Poppers : pop[c] = "waiting"}

TypeOK ==
  /\ events \in Seq(1 .. MaxEvents)
  /\ Len(events) <= MaxSize
  /\ closed \in BOOLEAN
  /\ enqueued \in 0 .. MaxEvents
  /\ dropped \in 0 .. MaxEvents
  /\ pop \in [Poppers -> {"none", "awake", "waiting"}]
  /\ ctx \in [Poppers -> {"live", "cancelled"}]
  /\ watch \in [Poppers -> {"off", "on", "released"}]
  /\ taken \in Seq(1 .. MaxEvents)
  /\ removed \in 0 .. MaxEvents

Init ==
  /\ events = <<>>
  /\ closed = FALSE
  /\ enqueued = 0
  /\ dropped = 0
  /\ pop = [c \in Poppers |-> "none"]
  /\ ctx = [c \in Poppers |-> "live"]
  /\ watch = [c \in Poppers |-> "off"]
  /\ taken = <<>>
  /\ removed = 0

(* cond.Signal: one of those that wait. *)
Signal ==
  \/ Waiting = {} /\ UNCHANGED pop
  \/ \E c \in Waiting : pop' = [pop EXCEPT ![c] = "awake"]

(* cond.Broadcast *)
Broadcast == pop' = [c \in Poppers |-> IF pop[c] = "waiting" THEN "awake" ELSE pop[c]]

EnqueueUnsignalled ==
  /\ enqueued < MaxEvents
  /\ enqueued' = enqueued + 1
  /\ LET full == Len(events) >= MaxSize IN
       /\ events' = Append(IF full THEN Tail(events) ELSE events, enqueued + 1)
       /\ dropped' = IF full THEN dropped + 1 ELSE dropped
  /\ IF events = <<>> THEN Signal ELSE UNCHANGED pop
  /\ UNCHANGED <<closed, ctx, watch, taken, removed>>

EnqueueDroppingNewest ==
  /\ enqueued < MaxEvents
  /\ enqueued' = enqueued + 1
  /\ LET full == Len(events) >= MaxSize IN
       /\ events' = Append(IF full THEN SubSeq(events, 1, Len(events) - 1) ELSE events,
                           enqueued + 1)
       /\ dropped' = IF full THEN dropped + 1 ELSE dropped
  /\ Signal
  /\ UNCHANGED <<closed, ctx, watch, taken, removed>>

(* Enqueue, and Push, which looks at its context first and never at closed. *)
Enqueue ==
  /\ enqueued < MaxEvents
  /\ enqueued' = enqueued + 1
  /\ LET full == Len(events) >= MaxSize IN
       /\ events' = Append(IF full THEN Tail(events) ELSE events, enqueued + 1)
       /\ dropped' = IF full THEN dropped + 1 ELSE dropped
  /\ Signal
  /\ UNCHANGED <<closed, ctx, watch, taken, removed>>

(* Pop is called, with a goroutine that watches its context.  A consumer   *)
(* calls it in a loop, with one context for all its calls.                 *)
PopStart(c) ==
  /\ pop[c] = "none"
  /\ watch[c] = "off"
  /\ pop' = [pop EXCEPT ![c] = "awake"]
  /\ watch' = [watch EXCEPT ![c] = "on"]
  /\ UNCHANGED <<events, closed, enqueued, dropped, ctx, taken, removed>>

(* The deferred close(cancelled) releases the watcher. *)
Returns(c) ==
  /\ pop' = [pop EXCEPT ![c] = "none"]
  /\ watch' = [watch EXCEPT ![c] = IF @ = "on" THEN "released" ELSE @]

PopWait(c) ==
  /\ pop[c] = "awake"
  /\ events = <<>> /\ ~closed /\ ctx[c] = "live"
  /\ pop' = [pop EXCEPT ![c] = "waiting"]
  /\ UNCHANGED <<events, closed, enqueued, dropped, ctx, watch, taken, removed>>

(* ctx.Err() or ErrQueueClosed. *)
PopError(c) ==
  /\ pop[c] = "awake"
  /\ \/ ctx[c] = "cancelled"
     \/ closed /\ events = <<>>
  /\ Returns(c)
  /\ UNCHANGED <<events, closed, enqueued, dropped, ctx, taken, removed>>

PopEvent(c) ==
  /\ pop[c] = "awake"
  /\ ctx[c] = "live"
  /\ events # <<>>
  /\ events' = Tail(events)
  /\ taken' = Append(taken, Head(events))
  /\ Returns(c)
  /\ UNCHANGED <<closed, enqueued, dropped, ctx, removed>>

Cancel(c) ==
  /\ c \in Cancellable
  /\ ctx[c] = "live"
  /\ ctx' = [ctx EXCEPT ![c] = "cancelled"]
  /\ UNCHANGED <<events, closed, enqueued, dropped, pop, watch, taken, removed>>

(* The watcher sees ctx.Done and broadcasts.  Once Pop has returned it may *)
(* as well see cancelled and leave: the select picks either.               *)
WatchBroadcast(c) ==
  /\ watch[c] # "off" /\ ctx[c] = "cancelled"
  /\ Broadcast
  /\ watch' = [watch EXCEPT ![c] = "off"]
  /\ UNCHANGED <<events, closed, enqueued, dropped, ctx, taken, removed>>

WatchLeave(c) ==
  /\ watch[c] = "released"
  /\ watch' = [watch EXCEPT ![c] = "off"]
  /\ UNCHANGED <<events, closed, enqueued, dropped, pop, ctx, taken, removed>>

Close ==
  /\ closed' = TRUE
  /\ Broadcast
  /\ UNCHANGED <<events, enqueued, dropped, ctx, watch, taken, removed>>

(* Dequeue is DequeueN(1), Clear takes all. *)
DequeueN(n) ==
  /\ n \in 1 .. Len(events)
  /\ events' = SubSeq(events, n + 1, Len(events))
  /\ removed' = removed + n
  /\ UNCHANGED <<closed, enqueued, dropped, pop, ctx, watch, taken>>

PopStep(c) == PopWait(c) \/ PopError(c) \/ PopEvent(c)

Next ==
  \/ Enqueue \/ Close
  \/ \E n \in 1 .. MaxSize : DequeueN(n)
  \/ \E c \in Poppers : PopStart(c) \/ PopStep(c) \/ Cancel(c)
                        \/ WatchBroadcast(c) \/ WatchLeave(c)

(* Goroutines that can run, run. *)
Fairness ==
  \A c \in Poppers : /\ WF_queueVars(PopStep(c))
                     /\ WF_queueVars(WatchBroadcast(c) \/ WatchLeave(c))

Spec == Init /\ [][Next]_queueVars

LiveSpec == Spec /\ Fairness

-----------------------------------------------------------------------------
(* A full queue loses its oldest events, never the newest or one in the    *)
(* middle, and consumers get what is left in order                         *)
(* (ingestion_queue.go:21 "drops the oldest events (not newest)").         *)
KeepsNewest ==
  /\ \A i \in 1 .. Len(events) : events[i] = enqueued - Len(events) + i
  /\ \A i, j \in 1 .. Len(taken) : i < j => taken[i] < taken[j]
  /\ \A i \in 1 .. Len(taken) : events # <<>> => taken[i] < Head(events)

(* Every event is accounted for: queued, delivered once, dropped and       *)
(* counted as dropped, or taken out (Stats, ingestion_queue.go:207).       *)
NothingLost == enqueued = Len(events) + Len(taken) + dropped + removed

(* As long as no context was cancelled, no wake-up is lost: while anyone   *)
(* sleeps, as many are awake as there are events to take, although Signal  *)
(* is sent once per event and newcomers may take what it was sent for      *)
(* (ingestion_queue.go:115).                                               *)
NoneSleepsOnEvent ==
  (\A c \in Poppers : ctx[c] = "live") /\ Waiting # {}
    => Cardinality({c \in Poppers : pop[c] = "awake"}) >= Len(events)

(* "Pop removes and returns the oldest queued payload, blocking until an   *)
(* item is available, the queue is closed, or ctx is cancelled"            *)
(* (ingestion_queue.go:113): nobody sleeps for ever on a queued event.     *)
PopWakes == \A c \in Poppers : pop[c] = "waiting" /\ events # <<>>
                               ~> pop[c] # "waiting" \/ events = <<>>
=============================================================================
