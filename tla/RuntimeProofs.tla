----------------------------- MODULE RuntimeProofs -----------------------------
(***************************************************************************)
(* What holds of the parts of MCRuntime for any number of daemons, events, *)
(* consumers and requests: daemons that start together exclude each other, *)
(* the queue keeps its newest events and loses no wake-up, the bridge      *)
(* answers what it was asked, the status follows the tickets.  The proofs  *)
(* are about the parts, L, Q, B and S, and the theorems about their sum,   *)
(* whose steps are steps of one part.                                      *)
(***************************************************************************)
EXTENDS MCRuntime, SequenceTheorems, FiniteSetTheorems, TLAPS

(* A behaviour of the sum is one of the part it starts with.               *)
LEMMA PartInit ==
  ASSUME Init
  PROVE  /\ part = "lock" => L!Init
         /\ part = "queue" => Q!Init
         /\ part = "bridge" => B!Init
         /\ part = "oneshot" => T!Init
         /\ part = "status" => S!Init
         /\ part = "daemon" => D!Init
         /\ part = "codex" => X!Init
         /\ part = "claude" => C!Init
         /\ part = "omp" => O!Init
         /\ part = "opencode" => H!Init
BY DEF Init

(* A step of the sum is one of the part at hand, or stutters.              *)
LEMMA PartStep ==
  ASSUME [Next]_runtimeVars
  PROVE  /\ part' = part
         /\ part = "lock" => [L!Next]_(L!lockVars)
         /\ part = "queue" => [Q!Next]_(Q!queueVars)
         /\ part = "bridge" => [B!Next]_(B!bridgeVars)
         /\ part = "oneshot" => [T!Next]_(T!shotVars)
         /\ part = "status" => [S!Next]_(S!statusVars)
         /\ part = "daemon" => [D!Next]_(D!daemonVars)
         /\ part = "codex" => [X!Next]_(X!vars)
         /\ part = "claude" => [C!Next]_(C!vars)
         /\ part = "omp" => [O!Next]_(O!vars)
         /\ part = "opencode" => [H!Next]_(H!openVars)
<1>1. CASE UNCHANGED runtimeVars
  <2>1. /\ part' = part /\ UNCHANGED <<L!lockVars, Q!queueVars, B!bridgeVars>>
    BY <1>1 DEF runtimeVars, lockVars, L!lockVars, queueVars, Q!queueVars, bridgeVars, B!bridgeVars
  <2>2. UNCHANGED <<T!shotVars, S!statusVars, D!daemonVars>>
    BY <1>1 DEF runtimeVars, shotVars, T!shotVars, statusVars, S!statusVars, daemonVars,
      D!daemonVars,
       D!processVars
  <2>3. UNCHANGED <<X!vars, C!vars, O!vars, H!openVars>>
    BY <1>1 DEF runtimeVars, tokenVar, serverVars, X!vars, C!vars, O!vars, H!openVars
  <2> QED BY <2>1, <2>2, <2>3
<1>2. CASE Next
  BY <1>2 DEF Next, NotRunStatus, NotAgentDaemon, NotIngestionQueue, NotLockFile, NotBridge,
     NotCodexAppServer, NotClaudeIPC, NotOmpRPC, NotOpenCodeServer, NotOneShot
<1> QED BY <1>1, <1>2

-----------------------------------------------------------------------------
(* The lock file.                                                          *)

Pids == Nobody \notin Daemons

StartPCs == {"idle", "flock", "stale", "refused", "truncate", "write", "owner"}

(* Until one has ended nobody is dead, so that the file is stale for no    *)
(* one: there is a single file, the path leads to it, and its lock names   *)
(* whoever got beyond flock.                                               *)
OneFile ==
  /\ files \in Seq([lock : Daemons \cup {Nobody}, pid : Daemons \cup {Nobody}])
  /\ daemon \in [Daemons -> [pc : StartPCs, file : Nat, retry : BOOLEAN]]
  /\ Len(files) \in {0, 1} /\ path = Len(files)
  /\ \A d \in Daemons : /\ daemon[d].pc # "idle" => daemon[d].file = 1 /\ Len(files) = 1
                        /\ d \in L!Owners => files[1].lock = d

StartInv == ended = FALSE => OneFile

-----------------------------------------------------------------------------
(* Before the first daemon StartInv holds.                                 *)
LEMMA InitStartInv == L!Init => StartInv
<1> SUFFICES ASSUME L!Init PROVE OneFile
  BY DEF StartInv
<1>1. Len(files) = 0 /\ files \in Seq([lock : Daemons \cup {Nobody}, pid : Daemons \cup {Nobody}])
  BY EmptySeq DEF L!Init
<1>2. \A d \in Daemons : daemon[d].pc = "idle"
  BY DEF L!Init
<1>3. daemon \in [Daemons -> [pc : StartPCs, file : Nat, retry : BOOLEAN]] /\ path = 0
  BY DEF L!Init, StartPCs
<1> QED BY <1>1, <1>2, <1>3 DEF OneFile, L!Owners

(* The file that open creates, or the one that is there.                   *)
LEMMA OpenKeepsOneFile ==
  ASSUME OneFile, NEW d \in Daemons, L!Open(d)
  PROVE  OneFile'
<1> DEFINE R == [lock : Daemons \cup {Nobody}, pid : Daemons \cup {Nobody}]
<1>1. /\ files \in Seq(R) /\ Len(files) \in {0, 1} /\ path = Len(files)
      /\ daemon \in [Daemons -> [pc : StartPCs, file : Nat, retry : BOOLEAN]]
  BY DEF OneFile
<1>2. files' \in Seq(R) /\ Len(files') = 1 /\ path' = 1
      /\ (Len(files) = 1 => files' = files)
  <2>1. CASE path = 0
    <3>1. files' = Append(files, L!Unlocked) /\ L!Unlocked \in R
      BY <2>1 DEF L!Open, L!Unlocked
    <3>2. files' \in Seq(R) /\ Len(files') = Len(files) + 1
      BY <3>1, <1>1, AppendProperties
    <3>3. path' = Len(files') BY <2>1 DEF L!Open
    <3> QED BY <3>2, <3>3, <2>1, <1>1
  <2>2. CASE path # 0
    BY <2>2, <1>1 DEF L!Open
  <2> QED BY <2>1, <2>2
<1>3. /\ daemon' = [daemon EXCEPT ![d] = [pc |-> "flock", file |-> 1, retry |-> L!At(d, "again")]]
      /\ L!At(d, "again") \in BOOLEAN
  BY <1>2 DEF L!Open, L!At
<1>4. daemon' \in [Daemons -> [pc : StartPCs, file : Nat, retry : BOOLEAN]]
  BY <1>1, <1>3 DEF StartPCs
<1>5. ASSUME NEW e \in Daemons
      PROVE  /\ daemon'[e].pc # "idle" => daemon'[e].file = 1
             /\ e \in L!Owners' => files'[1].lock = e
  <2>1. CASE e = d
    BY <2>1, <1>1, <1>3 DEF L!Owners
  <2>2. CASE e # d
    <3>1. daemon'[e] = daemon[e] BY <2>2, <1>1, <1>3
    <3> QED BY <3>1, <1>2 DEF OneFile, L!Owners
  <2> QED BY <2>1, <2>2
<1> QED BY <1>2, <1>4, <1>5 DEF OneFile

(* What a daemon writes into the one file.                                 *)
LEMMA SetFile ==
  ASSUME OneFile, Len(files) = 1,
         NEW f \in [lock : Daemons \cup {Nobody}, pid : Daemons \cup {Nobody}],
         files' = [files EXCEPT ![1] = f]
  PROVE  /\ files' \in Seq([lock : Daemons \cup {Nobody}, pid : Daemons \cup {Nobody}])
         /\ Len(files') = 1 /\ files'[1] = f
<1> DEFINE R == [lock : Daemons \cup {Nobody}, pid : Daemons \cup {Nobody}]
<1>1. files \in Seq(R) /\ 1 \in 1 .. Len(files) BY DEF OneFile
<1> QED BY <1>1, ExceptSeq

(* A daemon goes on, and only whoever the lock names gets beyond flock.    *)
LEMMA GotoKeepsOneFile ==
  ASSUME OneFile, NEW d \in Daemons, NEW pc \in StartPCs \ {"idle"}, L!Goto(d, pc),
         daemon[d].pc # "idle",
         NEW f \in [lock : Daemons \cup {Nobody}, pid : Daemons \cup {Nobody}],
         files' = [files EXCEPT ![1] = f], path' = path,
         \A e \in Daemons \ {d} : e \in L!Owners => f.lock = e,
         pc \in {"truncate", "write", "owner"} => f.lock = d
  PROVE  OneFile'
<1>1. Len(files) = 1 /\ daemon[d].file = 1 /\ path = 1
      /\ daemon \in [Daemons -> [pc : StartPCs, file : Nat, retry : BOOLEAN]]
  BY DEF OneFile
<1>2. /\ files' \in Seq([lock : Daemons \cup {Nobody}, pid : Daemons \cup {Nobody}])
      /\ Len(files') = 1 /\ files'[1] = f
  BY <1>1, SetFile
<1>3. daemon' = [daemon EXCEPT ![d].pc = pc]
  BY DEF L!Goto
<1>4. daemon' \in [Daemons -> [pc : StartPCs, file : Nat, retry : BOOLEAN]]
  BY <1>1, <1>3
<1>5. ASSUME NEW e \in Daemons
      PROVE  /\ daemon'[e].pc # "idle" => daemon'[e].file = 1
             /\ e \in L!Owners' => files'[1].lock = e
  <2>1. CASE e = d
    BY <2>1, <1>1, <1>2, <1>3 DEF L!Owners
  <2>2. CASE e # d
    <3>1. daemon'[e] = daemon[e] BY <2>2, <1>1, <1>3
    <3> QED BY <3>1, <2>2, <1>2 DEF OneFile, L!Owners
  <2> QED BY <2>1, <2>2
<1> QED BY <1>1, <1>2, <1>4, <1>5 DEF OneFile

(* No system call on the lock file disturbs StartInv.                      *)
LEMMA NextStartInv ==
  ASSUME Pids, StartInv, [L!Next]_(L!lockVars)
  PROVE  StartInv'
<1> SUFFICES ASSUME ended' = FALSE PROVE OneFile'
  BY DEF StartInv
<1>1. CASE UNCHANGED L!lockVars
  BY <1>1 DEF L!lockVars, StartInv, OneFile, L!Owners
<1>2. CASE L!Probe
  BY <1>2 DEF L!Probe
<1>3. ASSUME NEW d \in Daemons, L!DaemonStep(d) PROVE OneFile'
  <2> DEFINE R == [lock : Daemons \cup {Nobody}, pid : Daemons \cup {Nobody}]
  <2>1. ~L!Unlock(d) /\ ~L!Crash(d)
    BY DEF L!Unlock, L!Crash
  <2>2. ended = FALSE /\ OneFile
    BY <1>3, <2>1 DEF L!DaemonStep, L!Open, L!Flock, L!Refused, L!Check, L!RemoveStale, L!Truncate,
      L!WritePID,
                      L!Remove, StartInv
  <2>3. /\ daemon \in [Daemons -> [pc : StartPCs, file : Nat, retry : BOOLEAN]]
        /\ files \in Seq(R)
        /\ \A e \in Daemons : daemon[e].pc # "idle" => daemon[e].file = 1 /\ Len(files) = 1
        /\ \A e \in L!Owners : files[1].lock = e
    BY <2>2 DEF OneFile, L!Owners
  <2>4. ASSUME daemon[d].pc # "idle"
        PROVE  /\ files[1] \in R /\ L!File(d) = files[1] /\ daemon[d].file = 1
               /\ [files EXCEPT ![1] = files[1]] = files
    <3>0. daemon[d].file = 1 /\ Len(files) = 1 BY <2>3, <2>4
    <3>1. daemon[d].file = 1 /\ 1 \in 1 .. Len(files) BY <3>0
    <3> QED BY <3>1, <2>3, ElementOfSeq, LenProperties DEF L!File
  <2>5. ASSUME NEW v PROVE [files EXCEPT ![1].lock = v] = [files EXCEPT ![1] = [files[1] EXCEPT !.lock = v]]
        /\ [files EXCEPT ![1].pid = v] = [files EXCEPT ![1] = [files[1] EXCEPT !.pid = v]]
    OBVIOUS
  <2>6. CASE L!Open(d) BY <2>6, <2>2, OpenKeepsOneFile
  <2>7. CASE L!Flock(d)
    <3>1. daemon[d].pc = "flock" BY <2>7 DEF L!Flock, L!At
    <3>2. files[1] \in R /\ L!File(d) = files[1] /\ daemon[d].file = 1 BY <3>1, <2>4
    <3>3. files[1].lock = Nobody BY <2>7, <3>2 DEF L!Flock
    <3> DEFINE f == [files[1] EXCEPT !.lock = d]
    <3>4. f \in R /\ f.lock = d BY <3>2
    <3>5. files' = [files EXCEPT ![1] = f] BY <2>7, <3>2, <2>5 DEF L!Flock
    <3>6. L!Owners = {} BY <2>3, <3>3 DEF Pids, L!Owners
    <3>7. L!Goto(d, "truncate") /\ path' = path BY <2>7 DEF L!Flock
    <3>8. "truncate" \in StartPCs \ {"idle"} BY DEF StartPCs
    <3> HIDE DEF f
    <3> QED BY <2>2, <3>1, <3>4, <3>5, <3>6, <3>7, <3>8, GotoKeepsOneFile
  <2>8. ASSUME NEW pc \in {"refused", "stale"}, L!Goto(d, pc), daemon[d].pc # "idle",
               UNCHANGED <<path, files>>
        PROVE  OneFile'
    <3>1. PICK f : f = files[1] OBVIOUS
    <3>2. f \in R /\ files' = [files EXCEPT ![1] = f] /\ path' = path BY <2>8, <2>4, <3>1
    <3>3. pc \in StartPCs \ {"idle"} /\ pc \notin {"truncate", "write", "owner"} BY DEF StartPCs
    <3>4. \A e \in Daemons \ {d} : e \in L!Owners => f.lock = e BY <2>2, <3>1 DEF OneFile
    <3>5. L!Goto(d, pc) /\ daemon[d].pc # "idle" BY <2>8
    <3> QED BY <2>2, <3>2, <3>3, <3>4, <3>5, GotoKeepsOneFile
  <2>9. CASE L!Refused(d)
    <3>1. daemon[d].pc = "flock" BY <2>9 DEF L!Refused, L!At
    <3>2. CASE daemon[d].retry BY <3>1, <3>2, <2>8, <2>9 DEF L!Refused
    <3>3. CASE ~daemon[d].retry BY <3>1, <3>3, <2>8, <2>9 DEF L!Refused
    <3> QED BY <3>2, <3>3
  <2>10. CASE L!Check(d)
    <3>1. daemon[d].pc = "stale" BY <2>10 DEF L!Check, L!At
    <3>2. L!File(d).pid \in Daemons \cup {Nobody} BY <3>1, <2>4
    <3>3. L!File(d).pid = Nobody \/ L!Alive(L!File(d).pid)
      BY <3>2, <2>3 DEF L!Alive, StartPCs
    <3>4. L!Goto(d, "refused") BY <2>10, <3>3 DEF L!Check
    <3> QED BY <3>1, <3>4, <2>8, <2>10 DEF L!Check
  <2>11. ~L!RemoveStale(d) /\ ~L!Remove(d)
    BY <2>3 DEF L!RemoveStale, L!Remove, L!At, StartPCs
  <2>12. ASSUME NEW pc \in {"write", "owner"}, NEW v \in Daemons \cup {Nobody},
                d \in L!Owners, L!Goto(d, pc), path' = path,
                files' = [files EXCEPT ![daemon[d].file].pid = v]
         PROVE  OneFile'
    <3> DEFINE f == [files[1] EXCEPT !.pid = v]
    <3>1. daemon[d].pc # "idle" BY <2>12 DEF L!Owners
    <3>2. files[1] \in R /\ daemon[d].file = 1 BY <3>1, <2>4
    <3>3. files[1].lock = d BY <2>3, <2>12
    <3>4. f \in R /\ f.lock = d BY <3>2, <3>3
    <3>5. files' = [files EXCEPT ![1] = f] BY <2>12, <3>2, <2>5
    <3>6. \A e \in Daemons \ {d} : e \in L!Owners => f.lock = e BY <2>3, <3>3
    <3>7. pc \in StartPCs \ {"idle"} BY DEF StartPCs
    <3> HIDE DEF f
    <3> QED BY <2>2, <2>12, <3>1, <3>4, <3>5, <3>6, <3>7, GotoKeepsOneFile
  <2>13. CASE L!Truncate(d)
    <3>1. d \in L!Owners BY <2>13 DEF L!Truncate, L!At, L!Owners
    <3> QED BY <3>1, <2>12, <2>13 DEF L!Truncate
  <2>14. CASE L!WritePID(d)
    <3>1. d \in L!Owners BY <2>14 DEF L!WritePID, L!At, L!Owners
    <3> QED BY <3>1, <2>12, <2>14 DEF L!WritePID
  <2> QED
    BY <1>3, <2>1, <2>6, <2>7, <2>9, <2>10, <2>11, <2>13, <2>14 DEF L!DaemonStep
<1> QED BY <1>1, <1>2, <1>3 DEF L!Next

(* Of daemons that start together one at most gets the lock, until one of  *)
(* them has ended (lockfile.go:15).                                        *)
THEOREM StartersExclude ==
  ASSUME Pids
  PROVE  Spec => []OneOwnerUntilOneEnds
<1> DEFINE I == part = "lock" => StartInv
<1>1. Init => I BY PartInit, InitStartInv
<1>2. I /\ [Next]_runtimeVars => I' BY PartStep, NextStartInv
<1>3. StartInv => L!OneOwnerUntilOneEnds
  <2> SUFFICES ASSUME OneFile PROVE L!Cardinality(L!Owners) <= 1
    BY DEF StartInv, L!OneOwnerUntilOneEnds
  <2>1. L!Cardinality(L!Owners) = Cardinality(L!Owners)
    BY DEF L!Cardinality, Cardinality
  <2>2. L!Owners \subseteq {files[1].lock}
    BY DEF OneFile, L!Owners
  <2>3. L!Owners = {} \/ L!Owners = {files[1].lock}
    BY <2>2
  <2>4. Cardinality(L!Owners) = 0 \/ Cardinality(L!Owners) = 1
    BY <2>3, FS_EmptySet, FS_Singleton, Zenon
  <2> QED BY <2>1, <2>4
<1>4. I => OneOwnerUntilOneEnds BY <1>3 DEF OneOwnerUntilOneEnds
<1> QED BY <1>1, <1>2, <1>4, PTL DEF Spec

-----------------------------------------------------------------------------
(* The queue.                                                              *)

(* NewIngestionQueue replaces a capacity of zero or less by 8192.          *)
Capacities == MaxSize \in Nat \ {0} /\ MaxEvents \in Nat

(* KeepsNewest, and what it takes to keep it when the queue is empty: all  *)
(* that was taken was enqueued before what is queued.                      *)
Ordered ==
  /\ \A i \in 1 .. Len(events) : events[i] = enqueued - Len(events) + i
  /\ \A i, j \in 1 .. Len(taken) : i < j => taken[i] < taken[j]
  /\ \A i \in 1 .. Len(taken) : taken[i] <= enqueued - Len(events)

QueueInv == Q!TypeOK /\ Ordered /\ Q!NothingLost

queueData == <<events, enqueued, dropped, taken, removed>>

CallTypes ==
  /\ closed \in BOOLEAN
  /\ pop \in [Poppers -> {"none", "awake", "waiting"}]
  /\ ctx \in [Poppers -> {"live", "cancelled"}]
  /\ watch \in [Poppers -> {"off", "on", "released"}]

-----------------------------------------------------------------------------
(* Of two places at most one is the one appended.                          *)
LEMMA Last ==
  \A l, i, j \in Nat : 1 <= i /\ i < j /\ j <= l + 1 /\ j # l + 1 => i \in 1 .. l /\ j \in 1 .. l
  OBVIOUS

(* What was taken is before the rest, also when more is dropped.           *)
LEMMA Sooner == \A x, e, l, n \in Nat : x <= e - l => x <= e - (l - n)
  OBVIOUS

(* Dropping n events moves the others forward by n.                        *)
LEMMA Earlier == \A e, l, n, i \in Nat : e - (l - n) + i = e - l + (n + i)
  OBVIOUS

(* All events are accounted for, wherever n of them move.                  *)
LEMMA Balance ==
  \A e, l, t, d, r, n \in Nat :
     /\ (e = l + t + d + r) => (e + 1 = (l + 1) + t + d + r /\ e + 1 = l + t + (d + 1) + r)
     /\ (e = l + t + d + r) => (e = (l - n) + t + d + (r + n) /\ e = (l - n) + (t + n) + d + r)
     /\ (e = l + t + d + r) => (d <= e /\ r <= e)
  OBVIOUS

(* An empty queue satisfies QueueInv.                                      *)
LEMMA InitQueueInv ==
  ASSUME Capacities, Q!Init
  PROVE  QueueInv
<1>1. Len(events) = 0 /\ Len(taken) = 0
      /\ events \in Seq(1 .. MaxEvents) /\ taken \in Seq(1 .. MaxEvents)
  BY EmptySeq DEF Q!Init
<1>2. pop \in [Poppers -> {"none", "awake", "waiting"}] /\ ctx \in [Poppers -> {"live", "cancelled"}]
      /\ watch \in [Poppers -> {"off", "on", "released"}] /\ closed \in BOOLEAN
  BY DEF Q!Init
<1>3. enqueued = 0 /\ dropped = 0 /\ removed = 0
  BY DEF Q!Init
<1>4. Q!TypeOK
  BY <1>1, <1>2, <1>3 DEF Capacities, Q!TypeOK
<1> QED
  BY <1>1, <1>3, <1>4 DEF QueueInv, Ordered, Q!NothingLost

(* Whatever only moves calls and contexts keeps the data.                  *)
LEMMA QuietKeepsQueue ==
  ASSUME QueueInv, UNCHANGED queueData, CallTypes'
  PROVE  QueueInv'
  BY DEF QueueInv, Q!TypeOK, Ordered, Q!NothingLost, queueData, CallTypes

(* The calls and contexts themselves.                                      *)
LEMMA CallTypesKept ==
  ASSUME Q!TypeOK, [Q!Next]_(Q!queueVars)
  PROVE  CallTypes'
<1> USE DEF Q!TypeOK, CallTypes
<1>1. ASSUME Q!Signal PROVE pop' \in [Poppers -> {"none", "awake", "waiting"}]
  BY <1>1 DEF Q!Signal, Q!Waiting
<1>2. CASE Q!Enqueue BY <1>1, <1>2 DEF Q!Enqueue
<1>3. CASE Q!Close BY <1>3 DEF Q!Close, Q!Broadcast
<1>4. ASSUME NEW n \in 1 .. MaxSize, Q!DequeueN(n) PROVE CallTypes'
  BY <1>4 DEF Q!DequeueN
<1>5. ASSUME NEW c \in Poppers, Q!PopStart(c) PROVE CallTypes' BY <1>5 DEF Q!PopStart
<1>6. ASSUME NEW c \in Poppers, Q!PopWait(c) PROVE CallTypes' BY <1>6 DEF Q!PopWait
<1>7. ASSUME NEW c \in Poppers, Q!PopError(c) PROVE CallTypes' BY <1>7 DEF Q!PopError, Q!Returns
<1>8. ASSUME NEW c \in Poppers, Q!PopEvent(c) PROVE CallTypes' BY <1>8 DEF Q!PopEvent, Q!Returns
<1>9. ASSUME NEW c \in Poppers, Q!Cancel(c) PROVE CallTypes' BY <1>9 DEF Q!Cancel
<1>10. ASSUME NEW c \in Poppers, Q!WatchBroadcast(c) PROVE CallTypes'
  BY <1>10 DEF Q!WatchBroadcast, Q!Broadcast
<1>11. ASSUME NEW c \in Poppers, Q!WatchLeave(c) PROVE CallTypes' BY <1>11 DEF Q!WatchLeave
<1>12. CASE UNCHANGED Q!queueVars BY <1>12 DEF Q!queueVars
<1> QED
  BY <1>2, <1>3, <1>4, <1>5, <1>6, <1>7, <1>8, <1>9, <1>10, <1>11, <1>12 DEF Q!Next, Q!PopStep

(* A full queue loses its oldest event and gets a newer one.               *)
LEMMA EnqueueKeepsQueue ==
  ASSUME Capacities, QueueInv, Q!Enqueue, CallTypes'
  PROVE  QueueInv'
<1> DEFINE full == Len(events) >= MaxSize
           rest == IF full THEN Tail(events) ELSE events
           Evs == 1 .. MaxEvents
<1>1. /\ events \in Seq(Evs) /\ Len(events) \in Nat /\ Len(events) <= MaxSize
      /\ taken \in Seq(Evs) /\ Len(taken) \in Nat
      /\ enqueued \in Nat /\ enqueued < MaxEvents /\ MaxEvents \in Nat /\ MaxSize \in Nat \ {0}
      /\ dropped \in Nat /\ removed \in Nat
      /\ enqueued' = enqueued + 1 /\ enqueued + 1 \in Evs
      /\ events' = Append(rest, enqueued + 1)
      /\ dropped' = IF full THEN dropped + 1 ELSE dropped
      /\ taken' = taken /\ removed' = removed
  BY DEF Capacities, QueueInv, Q!TypeOK, Q!Enqueue
<1>2. CASE full
  <2>1. events # <<>> BY <1>1, <1>2, EmptySeq
  <2>2. /\ rest \in Seq(Evs) /\ Len(rest) = Len(events) - 1
        /\ \A i \in 1 .. Len(rest) : rest[i] = events[i + 1]
    BY <1>1, <1>2, <2>1, HeadTailProperties
  <2> HIDE DEF rest
  <2>3. /\ events' \in Seq(Evs) /\ Len(events') = Len(events)
        /\ \A i \in 1 .. Len(rest) : events'[i] = rest[i]
        /\ events'[Len(rest) + 1] = enqueued + 1
    BY <1>1, <2>2, AppendProperties
  <2>4. ASSUME NEW i \in 1 .. Len(events')
        PROVE  events'[i] = enqueued' - Len(events') + i
    <3>1. CASE i = Len(events')
      BY <3>1, <1>1, <2>2, <2>3
    <3>2. CASE i # Len(events')
      <4>1. i \in 1 .. Len(rest) /\ i + 1 \in 1 .. Len(events)
        BY <3>2, <1>1, <2>2, <2>3
      <4>2. events'[i] = events[i + 1] BY <4>1, <2>2, <2>3
      <4>3. events[i + 1] = enqueued - Len(events) + (i + 1)
        BY <4>1 DEF QueueInv, Ordered
      <4>4. enqueued' = enqueued + 1 /\ Len(events') = Len(events)
            /\ enqueued \in Nat /\ Len(events) \in Nat /\ i \in Nat
        BY <1>1, <2>3, <4>1
      <4>5. enqueued' - Len(events') + i = enqueued - Len(events) + (i + 1)
        BY <4>4
      <4> QED BY <4>2, <4>3, <4>5, Zenon
    <3> QED BY <3>1, <3>2
  <2>5. ASSUME NEW i \in 1 .. Len(taken) PROVE taken[i] <= enqueued' - Len(events')
    <3>1. taken[i] <= enqueued - Len(events) /\ taken[i] \in Nat
      BY <1>1, ElementOfSeq DEF QueueInv, Ordered
    <3>2. /\ enqueued' = enqueued + 1 /\ enqueued \in Nat
          /\ Len(events') = Len(events) /\ Len(events) \in Nat
      BY <1>1, <2>3
    <3>3. \A x, e, l \in Nat : x <= e - l => x <= (e + 1) - l OBVIOUS
    <3> QED BY <3>1, <3>2, <3>3
  <2>6. Q!NothingLost' /\ dropped' \in 0 .. MaxEvents
    <3>1. enqueued = Len(events) + Len(taken) + dropped + removed
      BY DEF QueueInv, Q!NothingLost
    <3>2. enqueued + 1 = Len(events) + Len(taken) + (dropped + 1) + removed
      BY <3>1, <1>1, Balance
    <3>3. dropped + 1 <= enqueued + 1
      BY <3>1, <1>1, Balance
    <3>4. /\ enqueued' = enqueued + 1 /\ Len(events') = Len(events) /\ taken' = taken
          /\ dropped' = dropped + 1 /\ removed' = removed
      BY <1>1, <1>2, <2>3
    <3>5. Q!NothingLost' BY <3>2, <3>4, Zenon DEF Q!NothingLost
    <3>6. dropped + 1 \in 0 .. MaxEvents BY <3>3, <1>1
    <3> QED BY <3>4, <3>5, <3>6, Zenon
  <2> QED
    BY <1>1, <2>3, <2>4, <2>5, <2>6 DEF QueueInv, Q!TypeOK, CallTypes, Ordered
<1>3. CASE ~full
  <2>1. rest = events BY <1>3
  <2> HIDE DEF rest
  <2>3. /\ events' \in Seq(Evs) /\ Len(events') = Len(events) + 1
        /\ \A i \in 1 .. Len(events) : events'[i] = events[i]
        /\ events'[Len(events) + 1] = enqueued + 1
    BY <1>1, <2>1, AppendProperties
  <2>4. ASSUME NEW i \in 1 .. Len(events')
        PROVE  events'[i] = enqueued' - Len(events') + i
    <3>1. CASE i = Len(events')
      BY <3>1, <1>1, <2>3
    <3>2. CASE i # Len(events')
      <4>1. i \in 1 .. Len(events) BY <3>2, <1>1, <2>3
      <4>2. events'[i] = enqueued - Len(events) + i
        BY <4>1, <2>3 DEF QueueInv, Ordered
      <4>3. enqueued' = enqueued + 1 /\ Len(events') = Len(events) + 1
            /\ enqueued \in Nat /\ Len(events) \in Nat /\ i \in Nat
        BY <1>1, <2>3, <4>1
      <4>4. enqueued' - Len(events') + i = enqueued - Len(events) + i
        BY <4>3
      <4> QED BY <4>2, <4>4, Zenon
    <3> QED BY <3>1, <3>2
  <2>5. ASSUME NEW i \in 1 .. Len(taken) PROVE taken[i] <= enqueued' - Len(events')
    <3>1. taken[i] <= enqueued - Len(events) /\ taken[i] \in Nat
      BY <1>1, ElementOfSeq DEF QueueInv, Ordered
    <3>2. /\ enqueued' = enqueued + 1 /\ enqueued \in Nat
          /\ Len(events') = Len(events) + 1 /\ Len(events) \in Nat
      BY <1>1, <2>3
    <3>3. enqueued' - Len(events') = enqueued - Len(events) BY <3>2
    <3> QED BY <3>1, <3>3
  <2>6. Q!NothingLost' /\ dropped' \in 0 .. MaxEvents
    <3>1. enqueued = Len(events) + Len(taken) + dropped + removed
      BY DEF QueueInv, Q!NothingLost
    <3>2. enqueued + 1 = (Len(events) + 1) + Len(taken) + dropped + removed
      BY <3>1, <1>1, Balance
    <3>3. dropped \in 0 .. MaxEvents
      BY DEF QueueInv, Q!TypeOK
    <3> QED BY <3>2, <3>3, <1>1, <1>3, <2>3 DEF Q!NothingLost
  <2>7. Len(events') <= MaxSize
    BY <1>1, <1>3, <2>3
  <2> QED
    BY <1>1, <2>3, <2>4, <2>5, <2>6, <2>7 DEF QueueInv, Q!TypeOK, CallTypes, Ordered
<1> QED BY <1>2, <1>3

(* The oldest event goes to a consumer, who got only older ones before.    *)
LEMMA PopEventKeepsQueue ==
  ASSUME Capacities, QueueInv, NEW c \in Poppers, Q!PopEvent(c), CallTypes'
  PROVE  QueueInv'
<1> DEFINE Evs == 1 .. MaxEvents
<1>1. /\ events \in Seq(Evs) /\ Len(events) \in Nat /\ Len(events) <= MaxSize /\ events # <<>>
      /\ taken \in Seq(Evs) /\ Len(taken) \in Nat
      /\ enqueued \in Nat /\ MaxEvents \in Nat /\ MaxSize \in Nat
      /\ dropped \in Nat /\ removed \in Nat
      /\ events' = Tail(events) /\ taken' = Append(taken, Head(events))
      /\ enqueued' = enqueued /\ dropped' = dropped /\ removed' = removed
  BY DEF Capacities, QueueInv, Q!TypeOK, Q!PopEvent
<1>2. /\ Len(events) \in Nat \ {0} /\ Head(events) \in Evs /\ Head(events) = events[1]
      /\ events' \in Seq(Evs) /\ Len(events') = Len(events) - 1
      /\ \A i \in 1 .. Len(events') : events'[i] = events[i + 1]
  BY <1>1, EmptySeq, HeadTailProperties
<1>3. /\ taken' \in Seq(Evs) /\ Len(taken') = Len(taken) + 1
      /\ \A i \in 1 .. Len(taken) : taken'[i] = taken[i]
      /\ taken'[Len(taken) + 1] = Head(events)
  BY <1>1, <1>2, AppendProperties
<1>4. Head(events) = enqueued - Len(events) + 1
  BY <1>1, <1>2 DEF QueueInv, Ordered
<1>5. ASSUME NEW i \in 1 .. Len(events')
      PROVE  events'[i] = enqueued' - Len(events') + i
  <2>1. i + 1 \in 1 .. Len(events) BY <1>1, <1>2
  <2>2. events'[i] = enqueued - Len(events) + (i + 1)
    BY <2>1, <1>2 DEF QueueInv, Ordered
  <2> QED BY <2>1, <2>2, <1>1, <1>2
<1>6. ASSUME NEW i \in 1 .. Len(taken)
      PROVE  taken'[i] < Head(events) /\ taken'[i] \in Nat
  <2>1. taken[i] <= enqueued - Len(events) /\ taken[i] \in Nat
    BY <1>1, ElementOfSeq DEF QueueInv, Ordered
  <2> QED BY <2>1, <1>1, <1>2, <1>3, <1>4
<1>7. ASSUME NEW i \in 1 .. Len(taken'), NEW j \in 1 .. Len(taken'), i < j
      PROVE  taken'[i] < taken'[j]
  <2>1. CASE j = Len(taken')
    <3>1. i \in 1 .. Len(taken) BY <2>1, <1>1, <1>3, <1>7
    <3> QED BY <3>1, <2>1, <1>6, <1>3
  <2>2. CASE j # Len(taken')
    <3>1. i \in 1 .. Len(taken) /\ j \in 1 .. Len(taken)
      <4>1. i \in Nat /\ j \in Nat /\ 1 <= i /\ i < j /\ j <= Len(taken) + 1 /\ j # Len(taken) + 1
        BY <2>2, <1>1, <1>3, <1>7
      <4> QED BY <4>1, <1>1, Last
    <3>2. taken[i] < taken[j] BY <3>1, <1>7 DEF QueueInv, Ordered
    <3> QED BY <3>1, <3>2, <1>3
  <2> QED BY <2>1, <2>2
<1>8. ASSUME NEW i \in 1 .. Len(taken') PROVE taken'[i] <= enqueued' - Len(events')
  <2>1. CASE i = Len(taken') BY <2>1, <1>1, <1>2, <1>3, <1>4
  <2>2. CASE i # Len(taken')
    <3>1. i \in 1 .. Len(taken) BY <2>2, <1>1, <1>3
    <3> QED BY <3>1, <1>1, <1>2, <1>4, <1>6
  <2> QED BY <2>1, <2>2
<1>9. Q!NothingLost' /\ Len(events') <= MaxSize
  BY <1>1, <1>2, <1>3 DEF QueueInv, Q!NothingLost
<1> QED
  BY <1>1, <1>2, <1>3, <1>5, <1>7, <1>8, <1>9 DEF QueueInv, Q!TypeOK, CallTypes, Ordered

(* What SubSeq leaves of a queue without its n oldest events.              *)
LEMMA RestProperties ==
  ASSUME NEW W, NEW s \in Seq(W), NEW n \in 1 .. Len(s)
  PROVE  /\ SubSeq(s, n + 1, Len(s)) \in Seq(W)
         /\ Len(SubSeq(s, n + 1, Len(s))) = Len(s) - n
         /\ \A i \in 1 .. Len(s) - n : n + i \in 1 .. Len(s) /\ SubSeq(s, n + 1, Len(s))[i] = s[n + i]
<1>1. Len(s) \in Nat /\ n \in Nat /\ n <= Len(s) /\ n + 1 \in Int /\ Len(s) \in Int
  BY LenProperties
<1>2. \A i \in n + 1 .. Len(s) : i \in 1 .. Len(s)
  BY <1>1
<1>3. \A i \in n + 1 .. Len(s) : s[i] \in W
  BY <1>2, ElementOfSeq
<1>4. /\ SubSeq(s, n + 1, Len(s)) \in Seq(W)
      /\ Len(SubSeq(s, n + 1, Len(s))) = IF n + 1 <= Len(s) THEN Len(s) - (n + 1) + 1 ELSE 0
      /\ \A i \in 1 .. Len(s) - (n + 1) + 1 : SubSeq(s, n + 1, Len(s))[i] = s[(n + 1) + i - 1]
  BY <1>1, <1>3, SubSeqProperties
<1>5. Len(SubSeq(s, n + 1, Len(s))) = Len(s) - n
  <2>1. \A l, m \in Nat : m <= l => (IF m + 1 <= l THEN l - (m + 1) + 1 ELSE 0) = l - m
    OBVIOUS
  <2> QED BY <2>1, <1>1, <1>4, Zenon
<1>6. ASSUME NEW i \in 1 .. Len(s) - n
      PROVE  n + i \in 1 .. Len(s) /\ i \in 1 .. Len(s) - (n + 1) + 1 /\ (n + 1) + i - 1 = n + i
  BY <1>1
<1>7. \A i \in 1 .. Len(s) - n : SubSeq(s, n + 1, Len(s))[i] = s[n + i]
  BY <1>4, <1>6, Zenon
<1> QED BY <1>4, <1>5, <1>6, <1>7

(* The n oldest events go.                                                 *)
LEMMA DequeueKeepsQueue ==
  ASSUME Capacities, QueueInv, NEW n \in 1 .. MaxSize, Q!DequeueN(n), CallTypes'
  PROVE  QueueInv'
<1> DEFINE Evs == 1 .. MaxEvents
<1>1. /\ events \in Seq(Evs) /\ Len(events) \in Nat /\ Len(events) <= MaxSize
      /\ taken \in Seq(Evs) /\ Len(taken) \in Nat
      /\ enqueued \in Nat /\ enqueued <= MaxEvents /\ MaxEvents \in Nat /\ MaxSize \in Nat
      /\ dropped \in Nat /\ removed \in Nat
      /\ n \in 1 .. Len(events)
      /\ events' = SubSeq(events, n + 1, Len(events)) /\ removed' = removed + n
      /\ enqueued' = enqueued /\ dropped' = dropped /\ taken' = taken
  BY DEF Capacities, QueueInv, Q!TypeOK, Q!DequeueN
<1>2. /\ events' \in Seq(Evs) /\ Len(events') = Len(events) - n
      /\ \A i \in 1 .. Len(events) - n : n + i \in 1 .. Len(events) /\ events'[i] = events[n + i]
  <2> HIDE DEF Evs
  <2> QED BY <1>1, RestProperties, Zenon
<1>3. Len(events') = Len(events) - n
  BY <1>2
<1>4. ASSUME NEW i \in 1 .. Len(events')
      PROVE  events'[i] = enqueued' - Len(events') + i
  <2>1. n + i \in 1 .. Len(events) /\ events'[i] = events[n + i]
    BY <1>2
  <2>2. events'[i] = enqueued - Len(events) + (n + i)
    BY <2>1 DEF QueueInv, Ordered
  <2>3. enqueued' = enqueued /\ Len(events') = Len(events) - n
    BY <1>1, <1>3
  <2>4. i \in Nat /\ n \in Nat OBVIOUS
  <2>5. enqueued - (Len(events) - n) + i = enqueued - Len(events) + (n + i)
    BY <1>1, <2>4, Earlier
  <2> QED BY <2>2, <2>3, <2>5, Zenon
<1>5. ASSUME NEW i \in 1 .. Len(taken) PROVE taken[i] <= enqueued' - Len(events')
  <2>1. taken[i] <= enqueued - Len(events) /\ taken[i] \in Nat
    BY <1>1, ElementOfSeq DEF QueueInv, Ordered
  <2>2. taken[i] <= enqueued - (Len(events) - n)
    BY <2>1, <1>1, Sooner
  <2>3. enqueued' = enqueued /\ Len(events') = Len(events) - n
    BY <1>1, <1>3
  <2> QED BY <2>2, <2>3, Zenon
<1>6. Q!NothingLost' /\ Len(events') <= MaxSize /\ removed' \in 0 .. MaxEvents
  <2>1. enqueued = Len(events) + Len(taken) + dropped + removed
    BY DEF QueueInv, Q!NothingLost
  <2>2. n \in Nat /\ Len(events) - n \in Nat /\ removed + n \in Nat
    BY <1>1
  <2>3. enqueued = (Len(events) - n) + Len(taken) + dropped + (removed + n)
    BY <2>1, <2>2, <1>1, Balance
  <2>4. removed + n <= enqueued
    BY <2>2, <2>3, <1>1, Balance
  <2>5. /\ enqueued' = enqueued /\ Len(events') = Len(events) - n /\ taken' = taken
        /\ dropped' = dropped /\ removed' = removed + n
    BY <1>1, <1>3
  <2>6. Q!NothingLost' BY <2>3, <2>5, Zenon DEF Q!NothingLost
  <2>7. removed + n \in 0 .. MaxEvents /\ Len(events) - n <= MaxSize BY <2>2, <2>4, <1>1
  <2> QED BY <2>5, <2>6, <2>7, Zenon
<1> QED
  BY <1>1, <1>2, <1>4, <1>5, <1>6 DEF QueueInv, Q!TypeOK, CallTypes, Ordered

(* No step on the queue disturbs QueueInv.                                 *)
LEMMA NextQueueInv ==
  ASSUME Capacities, QueueInv, [Q!Next]_(Q!queueVars)
  PROVE  QueueInv'
<1>1. CallTypes' BY CallTypesKept DEF QueueInv
<1>2. CASE Q!Enqueue BY <1>1, <1>2, EnqueueKeepsQueue
<1>3. CASE Q!Close BY <1>1, <1>3, QuietKeepsQueue DEF Q!Close, queueData
<1>4. ASSUME NEW n \in 1 .. MaxSize, Q!DequeueN(n) PROVE QueueInv'
  BY <1>1, <1>4, DequeueKeepsQueue
<1>5. ASSUME NEW c \in Poppers, Q!PopStart(c) \/ Q!PopWait(c) \/ Q!PopError(c) PROVE QueueInv'
  BY <1>1, <1>5, QuietKeepsQueue DEF Q!PopStart, Q!PopWait, Q!PopError, queueData
<1>6. ASSUME NEW c \in Poppers, Q!PopEvent(c) PROVE QueueInv'
  BY <1>1, <1>6, PopEventKeepsQueue
<1>7. ASSUME NEW c \in Poppers, Q!Cancel(c) \/ Q!WatchBroadcast(c) \/ Q!WatchLeave(c)
      PROVE  QueueInv'
  BY <1>1, <1>7, QuietKeepsQueue DEF Q!Cancel, Q!WatchBroadcast, Q!WatchLeave, queueData
<1>8. CASE UNCHANGED Q!queueVars
  BY <1>1, <1>8, QuietKeepsQueue DEF Q!queueVars, queueData
<1> QED
  BY <1>2, <1>3, <1>4, <1>5, <1>6, <1>7, <1>8 DEF Q!Next, Q!PopStep

(* The queue holds the newest events, in order, and accounts for the rest. *)
LEMMA OrderedIsKeepsNewest ==
  ASSUME Capacities, QueueInv
  PROVE  Q!KeepsNewest
<1> DEFINE Evs == 1 .. MaxEvents
<1>1. /\ events \in Seq(Evs) /\ Len(events) \in Nat
      /\ taken \in Seq(Evs) /\ Len(taken) \in Nat /\ enqueued \in Nat
  BY DEF Capacities, QueueInv, Q!TypeOK
<1>2. ASSUME NEW i \in 1 .. Len(taken), events # <<>> PROVE taken[i] < Head(events)
  <2>1. Len(events) \in Nat \ {0} BY <1>1, <1>2, EmptySeq
  <2>2. Head(events) = events[1] BY <1>1, <1>2
  <2>3. Head(events) = enqueued - Len(events) + 1
    BY <1>1, <2>1, <2>2 DEF QueueInv, Ordered
  <2>4. taken[i] \in Evs
    BY <1>1, ElementOfSeq
  <2>5. taken[i] <= enqueued - Len(events) /\ taken[i] \in Nat
    BY <2>4, <1>1 DEF QueueInv, Ordered
  <2> QED BY <1>1, <2>1, <2>3, <2>5
<1> QED BY <1>2 DEF QueueInv, Ordered, Q!KeepsNewest

(* A full queue drops its oldest events only, consumers get what is left   *)
(* in order, and every event is accounted for (ingestion_queue.go:21).     *)
THEOREM QueueKeepsNewest ==
  ASSUME Capacities
  PROVE  Spec => []KeepsNewest
<1> DEFINE I == part = "queue" => QueueInv
<1>1. Init => I BY PartInit, InitQueueInv
<1>2. I /\ [Next]_runtimeVars => I' BY PartStep, NextQueueInv
<1>3. I => KeepsNewest BY OrderedIsKeepsNewest DEF QueueInv, KeepsNewest
<1> QED BY <1>1, <1>2, <1>3, PTL DEF Spec

-----------------------------------------------------------------------------
Awake == {c \in Poppers : pop[c] = "awake"}

(* The queue counts with the cardinality of its own instance.              *)
LEMMA Counted == \A W : Q!Cardinality(W) = Cardinality(W)
BY DEF Q!Cardinality, Cardinality

(* Of finitely many consumers finitely many are awake.                     *)
LEMMA AwakeIsFinite ==
  ASSUME IsFiniteSet(Poppers)
  PROVE  /\ IsFiniteSet(Awake) /\ Cardinality(Awake) \in Nat
         /\ IsFiniteSet(Awake') /\ Cardinality(Awake') \in Nat
<1>1. Awake \in SUBSET Poppers /\ Awake' \in SUBSET Poppers
  BY DEF Awake
<1> QED BY <1>1, FS_Subset, FS_CardinalityType

(* One of those that wait joins those that are awake.                      *)
LEMMA SignalWakesOne ==
  ASSUME IsFiniteSet(Poppers), pop \in [Poppers -> {"none", "awake", "waiting"}],
         Q!Signal, Q!Waiting' # {}
  PROVE  Q!Waiting # {} /\ Cardinality(Awake') = Cardinality(Awake) + 1
<1>1. Q!Waiting # {}
  BY DEF Q!Signal, Q!Waiting
<1>2. PICK c \in Q!Waiting : pop' = [pop EXCEPT ![c] = "awake"]
  BY <1>1 DEF Q!Signal
<1>3. Awake' = Awake \cup {c} /\ c \notin Awake
  BY <1>2 DEF Awake, Q!Waiting
<1> QED
  BY <1>1, <1>3, AwakeIsFinite, FS_AddElement

(* Arithmetic of a consumer that wakes or falls asleep.                    *)
LEMMA MoreAwake ==
  ASSUME NEW a \in Nat, NEW l \in Nat, a >= l
  PROVE  a + 1 >= l /\ a + 1 >= l + 1 /\ (l # 0 => a - 1 >= l - 1)
  OBVIOUS

(* While no context was cancelled: each event finds somebody awake to take *)
(* it, or wakes one of those who sleep.                                    *)
LEMMA NextNoneSleeps ==
  ASSUME Capacities, IsFiniteSet(Poppers), QueueInv, Q!NoneSleepsOnEvent, [Q!Next]_(Q!queueVars)
  PROVE  Q!NoneSleepsOnEvent'
<1> SUFFICES ASSUME \A c \in Poppers : ctx'[c] = "live", Q!Waiting' # {}
             PROVE  Cardinality(Awake') >= Len(events')
  BY Counted DEF Q!NoneSleepsOnEvent, Awake
<1> DEFINE Evs == 1 .. MaxEvents
<1>0. /\ pop \in [Poppers -> {"none", "awake", "waiting"}]
      /\ ctx \in [Poppers -> {"live", "cancelled"}]
      /\ events \in Seq(Evs) /\ Len(events) \in Nat
      /\ enqueued \in Nat /\ MaxEvents \in Nat /\ MaxSize \in Nat \ {0}
  BY DEF QueueInv, Q!TypeOK, Capacities
<1>a. QueueInv' BY NextQueueInv
<1>b. Len(events') \in Nat BY <1>a DEF QueueInv, Q!TypeOK
<1>c. Cardinality(Awake) \in Nat /\ Cardinality(Awake') \in Nat BY AwakeIsFinite
<1>1. (\A c \in Poppers : ctx[c] = "live") /\ Q!Waiting # {} => Cardinality(Awake) >= Len(events)
  BY Counted DEF Q!NoneSleepsOnEvent, Awake
<1>2. ASSUME Len(events') = 0 PROVE Cardinality(Awake') >= Len(events')
  BY <1>2, <1>c
<1>3. ASSUME UNCHANGED <<pop, ctx>>, Len(events') <= Len(events)
      PROVE  Cardinality(Awake') >= Len(events')
  <2>1. Q!Waiting # {} /\ Awake' = Awake BY <1>3 DEF Q!Waiting, Awake
  <2>2. Cardinality(Awake) >= Len(events) BY <1>1, <1>3, <2>1
  <2> QED BY <2>1, <2>2, <1>3, <1>b, <1>c, <1>0
<1>4. CASE Q!Enqueue
  <2>1. Q!Signal /\ ctx' = ctx BY <1>4 DEF Q!Enqueue
  <2>2. Q!Waiting # {} /\ Cardinality(Awake') = Cardinality(Awake) + 1
    BY <2>1, <1>0, SignalWakesOne
  <2>3. Cardinality(Awake) >= Len(events) BY <1>1, <2>1, <2>2
  <2>4. Len(events') = Len(events) \/ Len(events') = Len(events) + 1
    <3>1. events' = Append(IF Len(events) >= MaxSize THEN Tail(events) ELSE events, enqueued + 1)
          /\ enqueued + 1 \in Evs
      BY <1>4, <1>0 DEF Q!Enqueue, QueueInv, Q!TypeOK
    <3>2. CASE Len(events) >= MaxSize
      <4>1. events # <<>> BY <3>2, <1>0, EmptySeq
      <4>2. Tail(events) \in Seq(Evs) /\ Len(Tail(events)) = Len(events) - 1
        BY <4>1, <1>0, HeadTailProperties
      <4>3. events' = Append(Tail(events), enqueued + 1) BY <3>1, <3>2
      <4>4. Len(events') = Len(events) - 1 + 1 BY <4>2, <4>3, <3>1, AppendProperties
      <4>5. Len(events) - 1 + 1 = Len(events) BY <1>0
      <4> QED BY <4>4, <4>5
    <3>3. CASE ~(Len(events) >= MaxSize)
      <4>1. events' = Append(events, enqueued + 1) BY <3>1, <3>3
      <4> QED BY <4>1, <3>1, <1>0, AppendProperties
    <3> QED BY <3>2, <3>3
  <2>5. Cardinality(Awake) + 1 >= Len(events) /\ Cardinality(Awake) + 1 >= Len(events) + 1
    BY <2>3, <1>0, <1>c, MoreAwake
  <2> QED BY <2>2, <2>4, <2>5
<1>5. CASE Q!Close
  BY <1>5, <1>0 DEF Q!Close, Q!Broadcast, Q!Waiting
<1>6. ASSUME NEW n \in 1 .. MaxSize, Q!DequeueN(n)
      PROVE  Cardinality(Awake') >= Len(events')
  <2>1. n \in 1 .. Len(events) /\ events' = SubSeq(events, n + 1, Len(events))
        /\ UNCHANGED <<pop, ctx>>
    BY <1>6 DEF Q!DequeueN
  <2>2. Len(events') = Len(events) - n
    BY <1>0, <2>1, RestProperties, Zenon
  <2>3. Len(events') <= Len(events) BY <2>1, <2>2, <1>0
  <2> QED BY <2>1, <2>3, <1>3
<1>7. ASSUME NEW c \in Poppers, Q!PopStart(c)
      PROVE  Cardinality(Awake') >= Len(events')
  <2>1. Awake' = Awake \cup {c} /\ c \notin Awake /\ Q!Waiting' = Q!Waiting
        /\ UNCHANGED <<events, ctx>>
    BY <1>7, <1>0 DEF Q!PopStart, Awake, Q!Waiting
  <2>2. Cardinality(Awake') = Cardinality(Awake) + 1
    BY <2>1, AwakeIsFinite, FS_AddElement
  <2>3. Cardinality(Awake) >= Len(events) BY <1>1, <2>1
  <2>4. Cardinality(Awake) + 1 >= Len(events) BY <2>3, <1>0, <1>c, MoreAwake
  <2> QED BY <2>1, <2>2, <2>4
<1>8. ASSUME NEW c \in Poppers, Q!PopWait(c) \/ Q!PopError(c)
      PROVE  Cardinality(Awake') >= Len(events')
  <2>1. events' = <<>> BY <1>8, <1>0 DEF Q!PopWait, Q!PopError
  <2> QED BY <2>1, <1>2, EmptySeq
<1>9. ASSUME NEW c \in Poppers, Q!PopEvent(c)
      PROVE  Cardinality(Awake') >= Len(events')
  <2>1. c \in Awake /\ Awake' = Awake \ {c} /\ Q!Waiting' = Q!Waiting /\ ctx' = ctx
        /\ events # <<>> /\ events' = Tail(events)
    BY <1>9, <1>0 DEF Q!PopEvent, Q!Returns, Awake, Q!Waiting
  <2>2. Cardinality(Awake') = Cardinality(Awake) - 1
    BY <2>1, AwakeIsFinite, FS_RemoveElement
  <2>3. Cardinality(Awake) >= Len(events) BY <1>1, <2>1
  <2>4. Len(events') = Len(events) - 1 /\ Len(events) # 0
    BY <2>1, <1>0, HeadTailProperties, EmptySeq
  <2>5. Cardinality(Awake) - 1 >= Len(events) - 1 BY <2>3, <2>4, <1>0, <1>c, MoreAwake
  <2> QED BY <2>2, <2>4, <2>5
<1>10. ASSUME NEW c \in Poppers, Q!Cancel(c) \/ Q!WatchBroadcast(c)
       PROVE  FALSE
  BY <1>10, <1>0 DEF Q!Cancel, Q!WatchBroadcast
<1>11. ASSUME NEW c \in Poppers, Q!WatchLeave(c)
       PROVE  Cardinality(Awake') >= Len(events')
  BY <1>11, <1>3, <1>0 DEF Q!WatchLeave
<1>12. CASE UNCHANGED Q!queueVars
  BY <1>12, <1>3, <1>0 DEF Q!queueVars
<1> QED
  BY <1>4, <1>5, <1>6, <1>7, <1>8, <1>9, <1>10, <1>11, <1>12 DEF Q!Next, Q!PopStep

(* As long as no context was cancelled no wake-up is lost: while anyone    *)
(* sleeps there are as many awake as there are events, although Signal is  *)
(* sent once per event and newcomers may take what it was sent for         *)
(* (ingestion_queue.go:84, :115).                                          *)
THEOREM NoWakeUpIsLost ==
  ASSUME Capacities, IsFiniteSet(Poppers)
  PROVE  Spec => []NoneSleepsOnEvent
<1> DEFINE I == part = "queue" => QueueInv /\ Q!NoneSleepsOnEvent
<1>1. Init => I
  <2>1. Q!Init => Q!Waiting = {} BY DEF Q!Init, Q!Waiting
  <2> QED BY <2>1, PartInit, InitQueueInv DEF Q!NoneSleepsOnEvent
<1>2. I /\ [Next]_runtimeVars => I' BY PartStep, NextQueueInv, NextNoneSleeps
<1>3. I => NoneSleepsOnEvent BY DEF NoneSleepsOnEvent
<1> QED BY <1>1, <1>2, <1>3, PTL DEF Spec

-----------------------------------------------------------------------------
(* The bridge.                                                             *)

HandlerPCs == {"handling", "send", "forget", "done"}

HandlerRecord == [id : RequestIds, pc : HandlerPCs, cancelled : BOOLEAN]

Over == {"closing", "done"}

Shape ==
  /\ reader \in {"check", "read", "refuse", "wait"} \cup Over
  /\ handler \in Seq(HandlerRecord)
  /\ registry \in [RequestIds -> Nat]
  /\ responses \in Seq(Nat)
  /\ channel \in {"open", "closed"}
  /\ writer \in {"works", "failed", "ended"}
  /\ runCtx \in {"live", "cancelled"}

(* A handler is registered under its id until it forgets itself.           *)
Registered == \A h \in B!Handlers : handler[h].pc # "done" => registry[handler[h].id] = h

(* The channel is closed once, when nobody is left to send to it.          *)
Closed ==
  /\ channel = "open" <=> reader \notin Over
  /\ channel = "closed" => \A h \in B!Handlers : handler[h].pc = "done"

(* As long as the output works, a response that was sent is written or     *)
(* still in the channel, which is empty when the writer leaves.            *)
Sent ==
  /\ writer # "failed" =>
       \A h \in B!Handlers : handler[h].pc \in {"forget", "done"} =>
          h \in written \/ \E i \in 1 .. Len(responses) : responses[i] = h
  /\ writer = "ended" => responses = << >> /\ channel = "closed"

BridgeInv == Shape /\ Registered /\ Closed /\ Sent

-----------------------------------------------------------------------------
(* Before the first line BridgeInv holds.                                  *)
LEMMA InitBridgeInv == B!Init => BridgeInv
<1> SUFFICES ASSUME B!Init PROVE BridgeInv
  OBVIOUS
<1>1. handler \in Seq(HandlerRecord) /\ responses \in Seq(Nat) /\ Len(handler) = 0
  BY EmptySeq DEF B!Init
<1>2. B!Handlers = {}
  BY <1>1, LenProperties DEF B!Handlers
<1> QED
  BY <1>1, <1>2 DEF B!Init, BridgeInv, Shape, Registered, Closed, Sent, Over

(* The types of the handlers, for the steps below.                         *)
LEMMA HandlersAre ==
  ASSUME Shape
  PROVE  /\ B!Handlers = 1 .. Len(handler) /\ Len(handler) \in Nat
         /\ \A h \in B!Handlers : handler[h] \in HandlerRecord
BY LenProperties, ElementOfSeq DEF Shape, B!Handlers

(* A function of the numbers of handlers to handlers is a sequence.        *)
LEMMA AnySequence ==
  ASSUME NEW W, NEW n \in Nat, NEW f \in [1 .. n -> W]
  PROVE  f \in Seq(W) /\ Len(f) = n
OBVIOUS

(* What a step may do to handlers without changing what is said of them.   *)
SameHandlers ==
  /\ handler' \in Seq(HandlerRecord)
  /\ B!Handlers' = B!Handlers
  /\ \A h \in B!Handlers : handler'[h].id = handler[h].id /\ handler'[h].pc = handler[h].pc

(* To cancel a handler neither moves nor removes it.                       *)
LEMMA CancelledKeeps ==
  ASSUME Shape, NEW hs, handler' = B!Cancelled(hs)
  PROVE  SameHandlers
<1>1. B!Handlers = 1 .. Len(handler) /\ Len(handler) \in Nat
      /\ \A h \in B!Handlers : handler[h] \in HandlerRecord
  BY HandlersAre
<1>2. \A h \in B!Handlers : /\ handler'[h] \in HandlerRecord
                          /\ handler'[h].id = handler[h].id /\ handler'[h].pc = handler[h].pc
  BY <1>1 DEF B!Cancelled, HandlerRecord
<1>3. handler' \in [1 .. Len(handler) -> HandlerRecord]
  BY <1>1, <1>2 DEF B!Cancelled
<1>4. handler' \in Seq(HandlerRecord) /\ DOMAIN handler' = B!Handlers
  BY <1>1, <1>3, AnySequence
<1> QED BY <1>2, <1>4 DEF SameHandlers, B!Handlers

(* A step that leaves the handlers alone.                                  *)
LEMMA UnchangedHandlers ==
  ASSUME Shape, handler' = handler
  PROVE  SameHandlers
  BY DEF SameHandlers, B!Handlers, Shape

(* The reader goes on, or somebody is cancelled.                           *)
LEMMA QuietInv ==
  ASSUME BridgeInv, SameHandlers, UNCHANGED <<registry, responses, channel, writer, written>>,
         runCtx' \in {"live", "cancelled"},
         reader' \in {"check", "read", "refuse", "wait"} \cup Over,
         reader' \in Over <=> reader \in Over
  PROVE  BridgeInv'
<1>1. Shape' BY DEF BridgeInv, Shape, SameHandlers
<1>2. Registered' BY DEF BridgeInv, Registered, SameHandlers
<1>3. Closed' BY DEF BridgeInv, Closed, SameHandlers
<1>4. Sent' BY DEF BridgeInv, Sent, SameHandlers
<1> QED BY <1>1, <1>2, <1>3, <1>4 DEF BridgeInv

(* A request comes with an id that is not in use.                          *)
LEMMA StartRequestInv ==
  ASSUME BridgeInv, NEW id \in RequestIds, B!StartRequest(id)
  PROVE  BridgeInv'
<1> DEFINE new == [id |-> id, pc |-> "handling", cancelled |-> runCtx = "cancelled"]
           n == Len(handler) + 1
<1>1. /\ reader = "read" /\ reader' = "check" /\ registry[id] = B!None
      /\ handler' = Append(handler, new)
      /\ registry' = [registry EXCEPT ![id] = Len(handler')]
      /\ UNCHANGED <<responses, channel, writer, runCtx, written>>
  BY DEF B!StartRequest, B!Line, B!Register, B!Goto
<1>2. /\ B!Handlers = 1 .. Len(handler) /\ Len(handler) \in Nat
      /\ \A h \in B!Handlers : handler[h] \in HandlerRecord
      /\ handler \in Seq(HandlerRecord) /\ registry \in [RequestIds -> Nat]
  BY HandlersAre DEF BridgeInv, Shape
<1>3. new \in HandlerRecord
  BY DEF HandlerRecord, HandlerPCs
<1>4. /\ handler' \in Seq(HandlerRecord) /\ Len(handler') = n
      /\ \A h \in 1 .. Len(handler) : handler'[h] = handler[h]
      /\ handler'[n] = new
  BY <1>1, <1>2, <1>3, AppendProperties
<1>5. B!Handlers' = 1 .. n
  BY <1>4, LenProperties DEF B!Handlers
<1>6. n \in Nat /\ (\A h \in B!Handlers : h # n) /\ \A h \in B!Handlers' : h \in B!Handlers \/ h = n
  BY <1>2, <1>5
<1>7. new.id = id /\ new.pc = "handling"
  OBVIOUS
<1> HIDE DEF n, new
<1>8. Shape'
  BY <1>1, <1>2, <1>4, <1>6 DEF BridgeInv, Shape
<1>9. Registered'
  <2> SUFFICES ASSUME NEW h \in B!Handlers', handler'[h].pc # "done"
               PROVE  registry'[handler'[h].id] = h
    BY DEF Registered
  <2>1. CASE h = n
    BY <2>1, <1>1, <1>2, <1>4, <1>7
  <2>2. CASE h # n
    <3>1. h \in B!Handlers /\ handler'[h] = handler[h] /\ h # 0 BY <2>2, <1>2, <1>4, <1>6
    <3>2. registry[handler[h].id] = h BY <3>1, <2>2 DEF BridgeInv, Registered
    <3>3. handler[h].id # id BY <3>1, <3>2, <1>1 DEF B!None
    <3>4. handler[h].id \in RequestIds BY <3>1, <1>2 DEF HandlerRecord
    <3> QED BY <3>1, <3>2, <3>3, <3>4, <1>1, <1>2
  <2> QED BY <2>1, <2>2
<1>10. channel = "open" /\ Closed'
  BY <1>1 DEF BridgeInv, Closed, Over, Shape
<1>11. Sent'
  <2>1. ASSUME writer' # "failed", NEW h \in B!Handlers', handler'[h].pc \in {"forget", "done"}
        PROVE  h \in written' \/ \E i \in 1 .. Len(responses') : responses'[i] = h
    <3>1. h # n BY <2>1, <1>4, <1>7
    <3>2. h \in B!Handlers /\ handler'[h] = handler[h] BY <3>1, <1>2, <1>4, <1>6
    <3> QED BY <3>2, <2>1, <1>1 DEF BridgeInv, Sent
  <2> QED BY <2>1, <1>1, <1>10 DEF BridgeInv, Sent
<1> QED BY <1>8, <1>9, <1>10, <1>11 DEF BridgeInv

(* A handler moves on, and only one that has sent its response or has no   *)
(* one to send it to gets past "send".                                     *)
LEMMA HandlerMoves ==
  ASSUME BridgeInv, NEW h \in B!Handlers, NEW pc \in HandlerPCs, B!HandlerGoto(h, pc)
  PROVE  /\ handler' \in Seq(HandlerRecord) /\ B!Handlers' = B!Handlers
         /\ \A g \in B!Handlers : handler'[g].id = handler[g].id
         /\ handler'[h].pc = pc
         /\ \A g \in B!Handlers \ {h} : handler'[g].pc = handler[g].pc
<1>1. /\ B!Handlers = 1 .. Len(handler) /\ Len(handler) \in Nat
      /\ \A g \in B!Handlers : handler[g] \in HandlerRecord
      /\ handler \in [1 .. Len(handler) -> HandlerRecord]
  BY HandlersAre, LenProperties DEF BridgeInv, Shape
<1>2. handler' = [handler EXCEPT ![h].pc = pc]
  BY DEF B!HandlerGoto
<1>3. handler' \in [1 .. Len(handler) -> HandlerRecord]
  BY <1>1, <1>2 DEF HandlerRecord
<1>4. handler' \in Seq(HandlerRecord) /\ DOMAIN handler' = B!Handlers
  BY <1>1, <1>3, AnySequence
<1> QED BY <1>1, <1>2, <1>4 DEF B!Handlers, HandlerRecord

(* What is sent ends up in an open channel.                                *)
LEMMA SendKeeps ==
  ASSUME Shape, channel = "open", NEW r \in Nat, B!TrySend(r)
  PROVE  /\ responses' \in Seq(Nat) /\ channel' = "open"
         /\ \A x : (\E i \in 1 .. Len(responses) : responses[i] = x)
                     => \E i \in 1 .. Len(responses') : responses'[i] = x
         /\ writer # "failed" => \E i \in 1 .. Len(responses') : responses'[i] = r
<1>1. responses \in Seq(Nat) /\ Len(responses) \in Nat
  BY LenProperties DEF Shape
<1>2. CASE B!SendOrWait(r)
  <2>1. responses' = Append(responses, r) /\ channel' = "open"
    BY <1>2 DEF B!SendOrWait
  <2>2. /\ responses' \in Seq(Nat) /\ Len(responses') = Len(responses) + 1
        /\ \A i \in 1 .. Len(responses) : responses'[i] = responses[i]
        /\ responses'[Len(responses) + 1] = r
    BY <2>1, <1>1, AppendProperties
  <2>3. Len(responses) + 1 \in 1 .. Len(responses')
        /\ \A i \in 1 .. Len(responses) : i \in 1 .. Len(responses')
    BY <2>2, <1>1
  <2> QED BY <2>1, <2>2, <2>3
<1>3. CASE writer = "failed" /\ UNCHANGED <<responses, channel>>
  BY <1>1, <1>3
<1> QED BY <1>2, <1>3 DEF B!TrySend

(* A handler registers, works, sends its response and is done.             *)
LEMMA HandlerStepInv ==
  ASSUME BridgeInv, NEW h, B!HandlerStep(h)
  PROVE  BridgeInv'
<1>1. /\ h \in B!Handlers /\ handler[h].pc # "done"
      /\ UNCHANGED <<reader, writer, runCtx, written>>
  BY DEF B!HandlerStep, B!HandlerEnds, B!Respond, B!Forget, B!HandlerAt
<1>2. channel = "open" /\ Shape
  BY <1>1 DEF BridgeInv, Closed, Shape
<1>3. h \in Nat /\ registry \in [RequestIds -> Nat]
      /\ \A g \in B!Handlers : handler[g].id \in RequestIds
  BY <1>1, <1>2, HandlersAre DEF Shape, HandlerRecord
<1>4. CASE B!HandlerEnds(h)
  <2>1. B!HandlerGoto(h, "send") /\ "send" \in HandlerPCs
        /\ UNCHANGED <<registry, responses, channel>>
    BY <1>4 DEF B!HandlerEnds, HandlerPCs
  <2>2. /\ handler' \in Seq(HandlerRecord) /\ B!Handlers' = B!Handlers
        /\ \A g \in B!Handlers : handler'[g].id = handler[g].id
        /\ handler'[h].pc = "send"
        /\ \A g \in B!Handlers \ {h} : handler'[g].pc = handler[g].pc
    BY <2>1, <1>1, HandlerMoves
  <2>3. Shape' BY <2>1, <2>2, <1>1, <1>2 DEF Shape
  <2>4. Registered' BY <2>1, <2>2, <1>1 DEF BridgeInv, Registered
  <2>5. Closed' BY <2>1, <1>1, <1>2 DEF BridgeInv, Closed
  <2>6. Sent' BY <2>1, <2>2, <1>1, <1>2 DEF BridgeInv, Sent
  <2> QED BY <2>3, <2>4, <2>5, <2>6 DEF BridgeInv
<1>5. CASE B!Respond(h)
  <2>1. B!HandlerGoto(h, "forget") /\ "forget" \in HandlerPCs /\ B!TrySend(h) /\ registry' = registry
    BY <1>5 DEF B!Respond, HandlerPCs
  <2>2. /\ handler' \in Seq(HandlerRecord) /\ B!Handlers' = B!Handlers
        /\ \A g \in B!Handlers : handler'[g].id = handler[g].id
        /\ handler'[h].pc = "forget"
        /\ \A g \in B!Handlers \ {h} : handler'[g].pc = handler[g].pc
    BY <2>1, <1>1, HandlerMoves
  <2>3. /\ responses' \in Seq(Nat) /\ channel' = "open"
        /\ \A x : (\E i \in 1 .. Len(responses) : responses[i] = x)
                    => \E i \in 1 .. Len(responses') : responses'[i] = x
        /\ writer # "failed" => \E i \in 1 .. Len(responses') : responses'[i] = h
    BY <2>1, <1>2, <1>3, SendKeeps
  <2>4. Shape' BY <2>1, <2>2, <2>3, <1>1, <1>2 DEF Shape
  <2>5. Registered' BY <2>1, <2>2, <1>1 DEF BridgeInv, Registered
  <2>6. Closed' BY <2>3, <1>1, <1>2 DEF BridgeInv, Closed
  <2>7. Sent'
    <3>1. ASSUME writer # "failed", NEW g \in B!Handlers, handler'[g].pc \in {"forget", "done"}
          PROVE  g \in written \/ \E i \in 1 .. Len(responses') : responses'[i] = g
      <4>1. CASE g = h BY <4>1, <3>1, <2>3
      <4>2. CASE g # h
        <5>1. handler[g].pc \in {"forget", "done"} BY <4>2, <3>1, <2>2
        <5>2. g \in written \/ \E i \in 1 .. Len(responses) : responses[i] = g
          BY <5>1, <3>1 DEF BridgeInv, Sent
        <5> QED BY <5>2, <2>3
      <4> QED BY <4>1, <4>2
    <3>2. writer # "ended" BY <1>2 DEF BridgeInv, Sent
    <3> QED BY <3>1, <3>2, <2>2, <1>1 DEF Sent
  <2> QED BY <2>4, <2>5, <2>6, <2>7 DEF BridgeInv
<1>6. CASE B!Forget(h)
  <2>1. /\ B!HandlerGoto(h, "done") /\ "done" \in HandlerPCs /\ handler[h].pc = "forget"
        /\ registry' = [registry EXCEPT ![handler[h].id] = B!None]
        /\ UNCHANGED <<responses, channel>>
    BY <1>6 DEF B!Forget, HandlerPCs, B!HandlerAt
  <2>2. /\ handler' \in Seq(HandlerRecord) /\ B!Handlers' = B!Handlers
        /\ \A g \in B!Handlers : handler'[g].id = handler[g].id
        /\ handler'[h].pc = "done"
        /\ \A g \in B!Handlers \ {h} : handler'[g].pc = handler[g].pc
    BY <2>1, <1>1, HandlerMoves
  <2>3. registry' \in [RequestIds -> Nat] BY <2>1, <1>3 DEF B!None
  <2>4. Shape' BY <2>1, <2>2, <2>3, <1>1, <1>2 DEF Shape
  <2>5. Registered'
    <3> SUFFICES ASSUME NEW g \in B!Handlers, g # h, handler[g].pc # "done"
                 PROVE  registry'[handler[g].id] = g
      BY <2>2 DEF Registered
    <3>1. registry[handler[g].id] = g /\ registry[handler[h].id] = h
      BY <1>1 DEF BridgeInv, Registered
    <3>2. handler[g].id # handler[h].id BY <3>1
    <3> QED BY <3>1, <3>2, <2>1, <1>3
  <2>6. Closed' BY <2>1, <1>1, <1>2 DEF BridgeInv, Closed
  <2>7. Sent'
    <3>1. ASSUME writer # "failed", NEW g \in B!Handlers, handler'[g].pc \in {"forget", "done"}
          PROVE  g \in written \/ \E i \in 1 .. Len(responses) : responses[i] = g
      <4>1. handler[g].pc \in {"forget", "done"} BY <3>1, <2>1, <2>2
      <4> QED BY <4>1, <3>1 DEF BridgeInv, Sent
    <3>2. writer # "ended" BY <1>2 DEF BridgeInv, Sent
    <3> QED BY <3>1, <3>2, <2>1, <2>2, <1>1 DEF Sent
  <2> QED BY <2>4, <2>5, <2>6, <2>7 DEF BridgeInv
<1> QED BY <1>4, <1>5, <1>6 DEF B!HandlerStep

(* What leaves the channel is written, or the output is broken.            *)
LEMMA WriteInv ==
  ASSUME BridgeInv, B!Write \/ B!WriteFails
  PROVE  BridgeInv'
<1>1. /\ writer = "works" /\ responses # << >> /\ responses' = Tail(responses)
      /\ UNCHANGED <<reader, handler, registry, channel, runCtx>>
  BY DEF B!Write, B!WriteFails
<1>2. /\ responses \in Seq(Nat) /\ Len(responses) \in Nat \ {0} /\ responses' \in Seq(Nat)
      /\ Len(responses') = Len(responses) - 1 /\ Head(responses) = responses[1]
      /\ \A i \in 1 .. Len(responses') : responses'[i] = responses[i + 1]
  BY <1>1, EmptySeq, HeadTailProperties DEF BridgeInv, Shape
<1>3. SameHandlers /\ Shape
  BY <1>1, UnchangedHandlers DEF BridgeInv
<1>4. writer' \in {"works", "failed"} BY <1>1 DEF B!Write, B!WriteFails
<1>5. Shape' BY <1>1, <1>2, <1>3, <1>4 DEF Shape
<1>6. Registered' /\ Closed' BY <1>1, <1>3 DEF BridgeInv, Registered, Closed, SameHandlers
<1>7. Sent'
  <2>1. CASE B!WriteFails
    BY <2>1, <1>4 DEF B!WriteFails, Sent
  <2>2. CASE B!Write
    <3>1. written' = written \cup {responses[1]} BY <2>2, <1>2 DEF B!Write
    <3>2. ASSUME NEW x, NEW i \in 1 .. Len(responses), responses[i] = x
          PROVE  x \in written' \/ \E j \in 1 .. Len(responses') : responses'[j] = x
      <4>1. CASE i = 1 BY <4>1, <3>1, <3>2
      <4>2. CASE i # 1
        <5>1. i - 1 \in 1 .. Len(responses') /\ (i - 1) + 1 = i BY <4>2, <3>2, <1>2
        <5>2. responses'[i - 1] = x BY <5>1, <3>2, <1>2
        <5> QED BY <5>1, <5>2
      <4> QED BY <4>1, <4>2
    <3> QED BY <3>1, <3>2, <1>1, <1>3, <1>4 DEF BridgeInv, Sent, SameHandlers
  <2> QED BY <2>1, <2>2
<1> QED BY <1>5, <1>6, <1>7 DEF BridgeInv

(* No step of the bridge disturbs BridgeInv.                               *)
LEMMA NextBridgeInv ==
  ASSUME BridgeInv, [B!Next]_(B!bridgeVars)
  PROVE  BridgeInv'
<1>1. Shape /\ reader \in {"check", "read", "refuse", "wait"} \cup Over
      /\ runCtx \in {"live", "cancelled"}
  BY DEF BridgeInv, Shape
<1>2. CASE UNCHANGED B!bridgeVars
  BY <1>1, <1>2, QuietInv, UnchangedHandlers DEF B!bridgeVars
<1>3. CASE B!Check \/ B!RefuseLine \/ B!EndOfInput \/ B!RunReturns
  BY <1>1, <1>3, QuietInv, UnchangedHandlers DEF B!Check, B!RefuseLine, B!Line, B!EndOfInput,
    B!RunReturns, B!Goto, Over
<1>4. CASE B!StopReading \/ B!ReadFails \/ B!CancelAll
  <2>1. SameHandlers
    BY <1>1, <1>4, CancelledKeeps DEF B!StopReading, B!ReadFails, B!CancelAll, B!CancelActive
  <2> QED BY <2>1, <1>1, <1>4, QuietInv DEF B!StopReading, B!ReadFails, B!CancelAll, B!Goto, Over
<1>5. ASSUME NEW id \in RequestIds, B!CancelLine(id) PROVE BridgeInv'
  <2>1. SameHandlers BY <1>1, <1>5, CancelledKeeps DEF B!CancelLine
  <2> QED BY <2>1, <1>1, <1>5, QuietInv DEF B!CancelLine, B!Line, B!Goto, Over
<1>6. CASE B!Interrupt
  <2>1. SameHandlers BY <1>1, <1>6, CancelledKeeps DEF B!Interrupt
  <2> QED BY <2>1, <1>1, <1>6, QuietInv DEF B!Interrupt
<1>7. CASE B!LifeStep
  BY <1>1, <1>7, QuietInv, UnchangedHandlers DEF B!LifeStep, B!Return, B!ShutdownTimeout
<1>8. CASE B!SendRefusal
  <2>1. /\ reader = "refuse" /\ reader' = "check" /\ B!TrySend(0) /\ channel = "open"
        /\ UNCHANGED <<handler, registry, writer, runCtx, written>>
    BY <1>1, <1>8 DEF B!SendRefusal, B!Goto, B!Refusal, BridgeInv, Closed, Over
  <2>2. /\ responses' \in Seq(Nat) /\ channel' = "open"
        /\ \A x : (\E i \in 1 .. Len(responses) : responses[i] = x)
                    => \E i \in 1 .. Len(responses') : responses'[i] = x
    BY <2>1, <1>1, SendKeeps
  <2>3. SameHandlers BY <2>1, <1>1, UnchangedHandlers
  <2>4. Shape' BY <2>1, <2>2, <2>3, <1>1 DEF Shape
  <2>5. Registered' BY <2>1, <2>3 DEF BridgeInv, Registered, SameHandlers
  <2>6. Closed' BY <2>1, <2>2 DEF Closed, Over
  <2>7. Sent' BY <2>1, <2>2, <2>3 DEF BridgeInv, Sent, SameHandlers
  <2> QED BY <2>4, <2>5, <2>6, <2>7 DEF BridgeInv
<1>9. CASE B!WaitForHandlers
  <2>1. /\ \A h \in B!Handlers : handler[h].pc = "done"
        /\ reader = "wait" /\ reader' = "closing" /\ channel' = "closed"
        /\ UNCHANGED <<handler, registry, responses, writer, runCtx, written>>
    BY <1>9 DEF B!WaitForHandlers, B!CloseChannel, B!Goto
  <2>2. SameHandlers BY <2>1, <1>1, UnchangedHandlers
  <2>3. Shape' BY <2>1, <2>2, <1>1 DEF Shape, Over
  <2>4. Registered' BY <2>1, <2>2 DEF BridgeInv, Registered, SameHandlers
  <2>5. Closed' BY <2>1, <2>2 DEF Closed, Over, SameHandlers
  <2>6. Sent' BY <2>1, <2>2 DEF BridgeInv, Sent, SameHandlers
  <2> QED BY <2>3, <2>4, <2>5, <2>6 DEF BridgeInv
<1>10. CASE B!WriterEnds
  <2>1. /\ writer = "works" /\ channel = "closed" /\ responses = << >> /\ writer' = "ended"
        /\ UNCHANGED <<reader, handler, registry, responses, channel, runCtx, written>>
    BY <1>1, <1>10 DEF B!WriterEnds, Shape
  <2>2. SameHandlers BY <2>1, <1>1, UnchangedHandlers
  <2>3. Shape' BY <2>1, <2>2, <1>1 DEF Shape
  <2>4. Registered' /\ Closed' BY <2>1, <2>2 DEF BridgeInv, Registered, Closed, SameHandlers
  <2>5. Sent' BY <2>1, <2>2 DEF BridgeInv, Sent, SameHandlers
  <2> QED BY <2>3, <2>4, <2>5 DEF BridgeInv
<1>11. ASSUME NEW id \in RequestIds, B!StartRequest(id) PROVE BridgeInv'
  BY <1>11, StartRequestInv
<1>12. ASSUME NEW h \in 1 .. MaxLines, B!HandlerStep(h) PROVE BridgeInv'
  BY <1>12, HandlerStepInv
<1>13. CASE B!Write \/ B!WriteFails BY <1>13, WriteInv
<1> QED
  BY <1>2, <1>3, <1>4, <1>5, <1>6, <1>7, <1>8, <1>9, <1>10, <1>11, <1>12, <1>13
     DEF B!Next, B!ReaderStep, B!WriterStep

(* A request at work is cancelled by its id and by cancelAll, however      *)
(* often the client uses ids again (startRequest, cancelRequest).          *)
THEOREM AtWorkIsCancellable == Spec => []RunningIsCancellable
<1> DEFINE I == part = "bridge" => BridgeInv
<1>1. Init => I BY PartInit, InitBridgeInv
<1>2. I /\ [Next]_runtimeVars => I' BY PartStep, NextBridgeInv
<1>3. I => RunningIsCancellable
  BY DEF BridgeInv, Registered, B!RunningIsCancellable, RunningIsCancellable
<1> QED BY <1>1, <1>2, <1>3, PTL DEF Spec

(* When run is over and the output was not broken, each request that was   *)
(* accepted has its response in it: none is sent to a closed channel, left *)
(* in it or dropped (trySend, wg.Wait, close).                             *)
THEOREM EachIsAnswered == Spec => []AllAreAnswered
<1> DEFINE I == part = "bridge" => BridgeInv
<1>1. Init => I BY PartInit, InitBridgeInv
<1>2. I /\ [Next]_runtimeVars => I' BY PartStep, NextBridgeInv
<1>3. BridgeInv => B!AllAreAnswered
  <2> SUFFICES ASSUME BridgeInv PROVE B!AllAreAnswered
    OBVIOUS
  <2>1. channel # "misused" BY DEF BridgeInv, Shape
  <2>2. ASSUME reader = "done", writer = "ended", NEW h \in B!Handlers PROVE h \in written
    <3>1. responses = << >> /\ channel = "closed" /\ handler[h].pc = "done"
      BY <2>2 DEF BridgeInv, Sent, Closed
    <3>2. h \in written \/ \E i \in 1 .. Len(responses) : responses[i] = h
      BY <2>2, <3>1 DEF BridgeInv, Sent
    <3>3. Len(responses) = 0 BY <3>1, EmptySeq
    <3> QED BY <3>2, <3>3
  <2> QED BY <2>1, <2>2 DEF B!AllAreAnswered
<1>4. I => AllAreAnswered BY <1>3 DEF AllAreAnswered
<1> QED BY <1>1, <1>2, <1>4, PTL DEF Spec

-----------------------------------------------------------------------------
(* The views of a run.                                                     *)

Views ==
  /\ Covers \in [Reqs -> SUBSET Tasks] /\ SetStatuses \subseteq S!Statuses
  /\ IsFiniteSet(Tasks)
  /\ MaxCommands \in Nat /\ MaxCrashes \in Nat

TaskFiles == [Tasks -> [status : S!Statuses, reason : SUBSET Findings]]

Sayings ==
  [state : {"running", "blocked", "completed"},
   gate : {"dispatch_ready", "verification", "completed"},
   blockers : SUBSET (Tasks \X SUBSET Findings)]

StatusFiles == [says : Sayings, counts : [S!Statuses -> 0 .. Cardinality(Tasks)]]

CommandPCs == {"idle", "sync", "cover", "refresh", "write", "compare"}

Doing(seen) ==
  [pc : CommandPCs, says : Sayings \cup {Unset}, seen : {seen}, alone : BOOLEAN]

(* What a command carries, and a status command nobody wrote into.         *)
CommandOK(j) ==
  /\ j \in Doing(j.seen)
  /\ j.pc = "idle" => j = S!Idle
  /\ j.pc \in {"refresh", "write"} => j.says \in Sayings
  /\ j.pc \in {"cover", "write"} => j.seen \in TaskFiles
  /\ j.alone => /\ j.pc \in {"compare", "refresh", "write"}
                /\ j.pc = "compare" => j.seen = status
                /\ j.pc \in {"refresh", "write"} => j.says = S!Inferred(task)
                /\ j.pc = "write" => j.seen = task

ViewTypes ==
  /\ task \in TaskFiles
  /\ coverage \in [Reqs -> {"satisfied", "in_progress", "blocked", "unassigned"}]
  /\ status \in StatusFiles
  /\ commands \in 0 .. MaxCommands /\ crashes \in 0 .. MaxCrashes
  /\ DOMAIN job = Procs
  /\ \A p \in Procs : CommandOK(job[p])

(* While commands do not overlap, only one that is about to sync leaves    *)
(* the coverage behind the tickets.                                        *)
Syncing(j) == j.pc \in {"sync", "cover"}

InTurn ==
  apart =>
  /\ \A p, q \in Procs : job[p] # S!Idle /\ job[q] # S!Idle => p = q
  /\ \A p \in Procs : job[p].pc = "cover" => job[p].seen = task
  /\ (\A p \in Procs : ~Syncing(job[p])) => coverage = S!Covered(task)

ViewInv == ViewTypes /\ InTurn

(* The status counts with the cardinality of its own instance.             *)
LEMMA Tallied == \A W : S!Cardinality(W) = Cardinality(W)
BY DEF S!Cardinality, Cardinality, S!IsFiniteSet, IsFiniteSet

(* The types of what is computed from tickets.                             *)
LEMMA Views1 ==
  ASSUME Views, NEW tasks \in TaskFiles
  PROVE  /\ S!Covered(tasks) \in [Reqs -> {"satisfied", "in_progress", "blocked", "unassigned"}]
         /\ S!Summaries(tasks) \in SUBSET (Tasks \X SUBSET Findings)
         /\ S!Inferred(tasks) \in Sayings
         /\ S!Completed \in Sayings
         /\ \A says \in Sayings : S!StatusFile(says, tasks) \in StatusFiles
         /\ S!AllDone(tasks) => S!Inferred(tasks) = S!Completed
<1>1. S!Covered(tasks) \in [Reqs -> {"satisfied", "in_progress", "blocked", "unassigned"}]
  BY DEF S!Covered, S!Coverage
<1>2. S!Summaries(tasks) \in SUBSET (Tasks \X SUBSET Findings) BY DEF S!Summaries, TaskFiles
<1>3. S!Completed \in Sayings BY DEF S!Completed, S!Says, Sayings
<1>4. S!Inferred(tasks) \in Sayings
  BY <1>2, <1>3 DEF S!Inferred, S!Running, S!Says, Sayings
<1>5. S!Counts(tasks) \in [S!Statuses -> 0 .. Cardinality(Tasks)]
  <2>1. ASSUME NEW st \in S!Statuses
        PROVE  Cardinality({t \in Tasks : tasks[t].status = st}) \in 0 .. Cardinality(Tasks)
    <3> DEFINE M == {t \in Tasks : tasks[t].status = st}
    <3>1. M \subseteq Tasks OBVIOUS
    <3>2. IsFiniteSet(M) /\ Cardinality(M) <= Cardinality(Tasks)
      BY <3>1, FS_Subset DEF Views
    <3>3. Cardinality(M) \in Nat /\ Cardinality(Tasks) \in Nat
      BY <3>2, FS_CardinalityType DEF Views
    <3> QED BY <3>2, <3>3
  <2> QED BY <2>1, Tallied DEF S!Counts
<1>6. \A says \in Sayings : S!StatusFile(says, tasks) \in StatusFiles
  BY <1>5 DEF S!StatusFile, StatusFiles
<1>7. S!AllDone(tasks) => S!Inferred(tasks) = S!Completed
  BY DEF S!AllDone, S!Inferred, S!Summaries
<1> QED BY <1>1, <1>2, <1>3, <1>4, <1>6, <1>7

(* Claims and sweeps change no coverage.                                   *)
LEMMA Views2 ==
  ASSUME Views, NEW tasks \in TaskFiles, NEW t \in Tasks,
         NEW to \in {"pending", "claimed", "repair_pending"}, NEW reason \in SUBSET Findings,
         tasks[t].status \in {"pending", "claimed", "repair_pending"}
  PROVE  S!Covered([tasks EXCEPT ![t] = [status |-> to, reason |-> reason]]) = S!Covered(tasks)
<1> DEFINE new == [tasks EXCEPT ![t] = [status |-> to, reason |-> reason]]
<1>1. /\ new[t].status = to
      /\ \A u \in Tasks \ {t} : new[u] = tasks[u]
  BY DEF TaskFiles
<1> HIDE DEF new
<1>2. ASSUME NEW r \in Reqs, NEW W \in {S!Done, S!Stuck, S!Statuses \ S!Stuck, S!Statuses \ (S!Done \cup S!Stuck)}
      PROVE  (\E u \in Covers[r] : new[u].status \in W) <=> (\E u \in Covers[r] : tasks[u].status \in W)
  <2>1. to \in W <=> tasks[t].status \in W BY DEF S!Done, S!Stuck, S!Statuses
  <2>2. \A u \in Covers[r] : new[u].status \in W <=> tasks[u].status \in W
    BY <1>1, <2>1 DEF Views
  <2> QED BY <2>2
<1>3. ASSUME NEW r \in Reqs PROVE S!Coverage(r, new) = S!Coverage(r, tasks)
  <2>1. /\ (\E u \in Covers[r] : new[u].status \in S!Done) <=>
             (\E u \in Covers[r] : tasks[u].status \in S!Done)
        /\ (\E u \in Covers[r] : new[u].status \in S!Stuck) <=>
             (\E u \in Covers[r] : tasks[u].status \in S!Stuck)
        /\ (\E u \in Covers[r] : new[u].status \in S!Statuses \ S!Stuck) <=>
             (\E u \in Covers[r] : tasks[u].status \in S!Statuses \ S!Stuck)
        /\ (\E u \in Covers[r] : new[u].status \in S!Statuses \ (S!Done \cup S!Stuck)) <=>
             (\E u \in Covers[r] : tasks[u].status \in S!Statuses \ (S!Done \cup S!Stuck))
    BY <1>2
  <2> QED BY <2>1, Zenon DEF S!Coverage
<1>4. S!Covered(new) = S!Covered(tasks) BY <1>3 DEF S!Covered
<1> QED BY <1>4 DEF new

(* A command that is over carries nothing.                                 *)
LEMMA IdleOK ==
  /\ CommandOK(S!Idle) /\ CommandOK(S!Idle)'
  /\ S!Idle.pc = "idle" /\ S!Idle.alone = FALSE /\ ~Syncing(S!Idle)
  /\ S!Idle.says = Unset /\ S!Idle.seen = Unset /\ S!Idle \in Doing(Unset)
BY DEF S!Idle, CommandOK, Doing, CommandPCs, Syncing

(* A command others write into is no longer alone, which is all it loses.  *)
LEMMA Disturbed ==
  ASSUME NEW p \in Procs, NEW q \in Procs \ {p}, NEW n, ViewTypes, job' = S!Disturb(p, n)
  PROVE  /\ CommandOK(job[q])'
         /\ job[q] = S!Idle => job'[q] = S!Idle
<1>1. job'[q] = [job[q] EXCEPT !.alone = FALSE] BY DEF S!Disturb
<1>2. PICK j : j = job[q] OBVIOUS
<1>3. CommandOK(j) BY <1>2 DEF ViewTypes
<1>4. PICK k : k = job'[q] OBVIOUS
<1>5. k = [j EXCEPT !.alone = FALSE] BY <1>1, <1>2, <1>4
<1>6. /\ k \in Doing(k.seen)
      /\ k.pc = j.pc /\ k.says = j.says /\ k.seen = j.seen /\ k.alone = FALSE
  BY <1>3, <1>5 DEF CommandOK, Doing
<1>7. j = S!Idle => k = S!Idle
  <2>1. ASSUME j = S!Idle PROVE k = S!Idle
    <3>1. S!Idle \in Doing(Unset) /\ k \in Doing(Unset) /\ k.pc = S!Idle.pc /\ k.says = S!Idle.says
          /\ k.seen = S!Idle.seen /\ k.alone = S!Idle.alone
      BY <1>6, <2>1, IdleOK
    <3> QED BY <3>1 DEF Doing
  <2> QED BY <2>1
<1>8. CommandOK(k)' BY <1>3, <1>6, <1>7 DEF CommandOK
<1> QED BY <1>2, <1>4, <1>7, <1>8

(* What is carried stays right as long as neither tickets nor status are   *)
(* written.                                                                *)
LEMMA StaysOK ==
  ASSUME UNCHANGED <<task, status>>
  PROVE  \A j : CommandOK(j) => CommandOK(j)'
BY DEF CommandOK

(* A step of p keeps the types, and the turns of commands.                 *)
LEMMA StepOK ==
  ASSUME NEW p \in Procs, ViewInv, CommandOK(job[p])', DOMAIN job' = Procs,
         \A q \in Procs \ {p} : CommandOK(job[q])',
         task' \in TaskFiles, status' \in StatusFiles,
         coverage' \in [Reqs -> {"satisfied", "in_progress", "blocked", "unassigned"}],
         commands' \in 0 .. MaxCommands, crashes' \in 0 .. MaxCrashes,
         apart' => /\ \A q \in Procs \ {p} : job'[q] = S!Idle
                   /\ job'[p].pc = "cover" => job'[p].seen = task'
                   /\ ~Syncing(job'[p]) => coverage' = S!Covered(task')
  PROVE  ViewInv'
<1>1. \A q \in Procs : CommandOK(job[q])' OBVIOUS
<1>2. ViewTypes' BY <1>1 DEF ViewTypes
<1>3. InTurn'
  <2> SUFFICES ASSUME apart' PROVE InTurn' BY DEF InTurn
  <2>1. \A q, r \in Procs : job'[q] # S!Idle /\ job'[r] # S!Idle => q = r OBVIOUS
  <2>2. S!Idle.pc # "cover" BY IdleOK
  <2>3. \A q \in Procs : job'[q].pc = "cover" => job'[q].seen = task' BY <2>2
  <2>4. S!Covered(task)' = S!Covered(task') BY DEF S!Covered, S!Coverage
  <2>5. (\A q \in Procs : ~Syncing(job'[q])) => coverage' = S!Covered(task') OBVIOUS
  <2> QED BY <2>1, <2>3, <2>4, <2>5 DEF InTurn, Syncing
<1> QED BY <1>2, <1>3 DEF ViewInv

(* Whose turn it is has it alone.                                          *)
LEMMA OthersIdle ==
  ASSUME ViewInv, apart, NEW p \in Procs, job[p] # S!Idle
  PROVE  \A q \in Procs \ {p} : job[q] = S!Idle
BY DEF ViewInv, InTurn

(* A command writes its ticket, and then has to sync or changes no view.   *)
LEMMA CommandInv ==
  ASSUME Views, ViewInv, NEW p \in Procs, NEW t \in Tasks, NEW to \in S!Statuses,
         NEW reason \in SUBSET Findings, NEW syncs \in BOOLEAN, NEW says \in Sayings \cup {Unset},
         S!Command(p, t, to, reason, syncs, says),
         syncs \/ (/\ to \in {"pending", "claimed", "repair_pending"}
                   /\ task[t].status \in {"pending", "claimed", "repair_pending"})
  PROVE  ViewInv'
<1> DEFINE n == IF syncs THEN [S!Idle EXCEPT !.pc = "sync", !.says = says] ELSE S!Idle
           s == [S!Idle EXCEPT !.pc = "sync", !.says = says]
<1>1. /\ ViewTypes /\ InTurn /\ job[p] = S!Idle /\ commands < MaxCommands /\ commands' = commands + 1
      /\ task' = [task EXCEPT ![t] = [status |-> to, reason |-> reason]]
      /\ job' = S!Disturb(p, n) /\ apart' = (apart /\ \A q \in Procs : job[q] = S!Idle)
      /\ UNCHANGED <<coverage, status, crashes>>
  BY DEF S!Command, ViewInv
<1>2. s \in Doing(s.seen) /\ s.pc = "sync" /\ s.says = says /\ s.seen = Unset /\ s.alone = FALSE
  BY IdleOK DEF Doing, CommandPCs
<1>3. CommandOK(s)' BY <1>2 DEF CommandOK
<1>4. job'[p] = n BY <1>1 DEF S!Disturb
<1>5. DOMAIN job' = Procs BY <1>1 DEF S!Disturb
<1>6. CommandOK(n)' BY <1>3, IdleOK
<1>7. CommandOK(job[p])'
  <2>1. PICK m : m = n OBVIOUS
  <2>2. CommandOK(m)' BY <1>6, <2>1 DEF n
  <2> QED BY <1>4, <2>1, <2>2
<1>8. ASSUME NEW q \in Procs \ {p} PROVE CommandOK(job[q])' /\ (job[q] = S!Idle => job'[q] = S!Idle)
  <2>1. PICK m : m = n OBVIOUS
  <2>2. job' = S!Disturb(p, m) BY <1>1, <2>1
  <2> QED BY <1>1, <2>2, Disturbed
<1>9. task' \in TaskFiles BY <1>1 DEF ViewTypes, TaskFiles
<1>10. commands' \in 0 .. MaxCommands
  <2>1. commands \in Nat /\ MaxCommands \in Nat BY <1>1 DEF ViewTypes, Views
  <2> QED BY <1>1, <2>1
<1>11. apart' => /\ \A q \in Procs \ {p} : job'[q] = S!Idle
                 /\ job'[p].pc = "cover" => job'[p].seen = task'
                 /\ ~Syncing(job'[p]) => coverage' = S!Covered(task')
  <2> SUFFICES ASSUME apart' PROVE /\ \A q \in Procs \ {p} : job'[q] = S!Idle
                                   /\ job'[p].pc = "cover" => job'[p].seen = task'
                                   /\ ~Syncing(job'[p]) => coverage' = S!Covered(task')
    OBVIOUS
  <2>1. apart /\ \A q \in Procs : job[q] = S!Idle BY <1>1
  <2>2. job'[p].pc # "cover" BY <1>2, <1>4, IdleOK
  <2>3. ~Syncing(job'[p]) => ~syncs BY <1>2, <1>4 DEF Syncing
  <2>4. coverage = S!Covered(task) BY <1>1, <2>1, IdleOK DEF InTurn
  <2>5. ~syncs => S!Covered(task') = S!Covered(task)
    <3> SUFFICES ASSUME ~syncs PROVE S!Covered(task') = S!Covered(task) OBVIOUS
    <3>1. PICK f \in TaskFiles : f = task BY <1>1 DEF ViewTypes
    <3>2. /\ to \in {"pending", "claimed", "repair_pending"}
          /\ f[t].status \in {"pending", "claimed", "repair_pending"}
      BY <3>1
    <3>3. S!Covered([f EXCEPT ![t] = [status |-> to, reason |-> reason]]) = S!Covered(f)
      BY <3>2, Views2
    <3> QED BY <1>1, <3>1, <3>3
  <2> QED BY <1>1, <1>8, <2>1, <2>2, <2>3, <2>4, <2>5
<1> HIDE DEF n, s
<1> QED BY <1>1, <1>5, <1>7, <1>8, <1>9, <1>10, <1>11, StepOK DEF ViewTypes

(* Each of the commands that change tickets is one.                        *)
LEMMA ChangesInv ==
  ASSUME Views, ViewInv, NEW p \in Procs, S!Changes(p)
  PROVE  ViewInv'
<1>1. PICK t \in Tasks :
        \/ \E F \in SUBSET Findings : S!Verify(p, t, F)
        \/ S!Retry(p, t)
        \/ \E s \in SetStatuses : S!UpdateTaskStatus(p, t, s)
        \/ S!Claim(p, t)
        \/ S!Sweep(p, t)
  BY DEF S!Changes
<1>2. /\ TRUE \in BOOLEAN /\ FALSE \in BOOLEAN /\ {} \in SUBSET Findings
      /\ Unset \in Sayings \cup {Unset}
      /\ \A gate \in {"verification", "dispatch_ready"} : S!Running(gate) \in Sayings \cup {Unset}
      /\ {"pending", "claimed", "done", "blocked"} \subseteq S!Statuses
  BY DEF S!Running, S!Says, Sayings, S!Statuses, S!Done, S!Stuck
<1>3. ASSUME NEW F \in SUBSET Findings, S!Verify(p, t, F) PROVE ViewInv'
  <2>1. CASE F = {} BY <1>2, <1>3, <2>1, CommandInv DEF S!Verify
  <2>2. CASE F # {}
    <3> DEFINE says == S!Says("blocked", "verification", {<<t, {f}>> : f \in F})
    <3>1. says \in Sayings \cup {Unset} BY DEF S!Says, Sayings
    <3>2. S!Command(p, t, "blocked", F, TRUE, says) BY <1>3, <2>2 DEF S!Verify
    <3> HIDE DEF says
    <3> QED BY <1>2, <3>1, <3>2, CommandInv
  <2> QED BY <2>1, <2>2
<1>4. ASSUME S!Retry(p, t) PROVE ViewInv' BY <1>2, <1>4, CommandInv DEF S!Retry
<1>5. ASSUME NEW s \in SetStatuses, S!UpdateTaskStatus(p, t, s) PROVE ViewInv'
  <2>1. s \in S!Statuses BY DEF Views
  <2> QED BY <1>2, <1>5, <2>1, CommandInv DEF S!UpdateTaskStatus
<1>6. ASSUME S!Claim(p, t) PROVE ViewInv'
  <2>1. task[t].status \in {"pending", "claimed", "repair_pending"} BY <1>6 DEF S!Claim
  <2> QED BY <1>2, <1>6, <2>1, CommandInv DEF S!Claim
<1>7. ASSUME S!Sweep(p, t) PROVE ViewInv'
  <2>1. task[t].status \in {"pending", "claimed", "repair_pending"} BY <1>7 DEF S!Sweep
  <2> QED BY <1>2, <1>7, <2>1, CommandInv DEF S!Sweep
<1> QED BY <1>1, <1>3, <1>4, <1>5, <1>6, <1>7

(* A step of p that writes neither tickets nor views.                      *)
LEMMA ReadStep ==
  ASSUME Views, ViewInv, NEW p \in Procs, NEW n, job' = [job EXCEPT ![p] = n], CommandOK(n),
         UNCHANGED <<task, coverage, status, commands>>, crashes' \in 0 .. MaxCrashes,
         apart' => /\ apart /\ (job[p] = S!Idle => \A q \in Procs : job[q] = S!Idle)
                   /\ n.pc = "cover" => n.seen = task
                   /\ ~Syncing(n) => ~Syncing(job[p])
  PROVE  ViewInv'
<1>1. ViewTypes /\ InTurn BY DEF ViewInv
<1>2. job'[p] = n /\ DOMAIN job' = Procs /\ \A q \in Procs \ {p} : job'[q] = job[q]
  BY <1>1 DEF ViewTypes
<1>3. CommandOK(job[p])' BY <1>2, StaysOK
<1>4. ASSUME NEW q \in Procs \ {p} PROVE CommandOK(job[q])'
  <2>1. PICK j : j = job[q] OBVIOUS
  <2>2. CommandOK(j) BY <1>1, <2>1 DEF ViewTypes
  <2>3. CommandOK(j)' BY <2>2, StaysOK
  <2>4. job'[q] = j BY <1>2, <2>1
  <2> QED BY <2>3, <2>4
<1>5. apart' => /\ \A q \in Procs \ {p} : job'[q] = S!Idle
                /\ job'[p].pc = "cover" => job'[p].seen = task'
                /\ ~Syncing(job'[p]) => coverage' = S!Covered(task')
  <2> SUFFICES ASSUME apart' PROVE /\ \A q \in Procs \ {p} : job'[q] = S!Idle
                                   /\ job'[p].pc = "cover" => job'[p].seen = task'
                                   /\ ~Syncing(job'[p]) => coverage' = S!Covered(task')
    OBVIOUS
  <2>1. \A q \in Procs \ {p} : job[q] = S!Idle BY OthersIdle
  <2>2. ~Syncing(n) => \A q \in Procs : ~Syncing(job[q]) BY <2>1, IdleOK
  <2>3. ~Syncing(n) => coverage = S!Covered(task) BY <1>1, <2>2 DEF InTurn
  <2>4. S!Covered(task') = S!Covered(task) OBVIOUS
  <2> QED BY <1>2, <2>1, <2>3, <2>4
<1> QED BY <1>1, <1>2, <1>3, <1>4, <1>5, StepOK DEF ViewTypes

(* A command reads the tickets.                                            *)
LEMMA ReadsInv ==
  ASSUME Views, ViewInv, NEW p \in Procs, S!SyncRead(p) \/ S!RefreshRead(p)
  PROVE  ViewInv'
<1>1. /\ ViewTypes /\ UNCHANGED <<task, coverage, status, commands, crashes, apart>>
      /\ task \in TaskFiles /\ CommandOK(job[p]) /\ crashes' \in 0 .. MaxCrashes
  BY DEF ViewInv, ViewTypes, S!SyncRead, S!RefreshRead
<1>2. PICK j : j = job[p] OBVIOUS
<1>3. PICK to : to = IF S!SyncRead(p) THEN "cover" ELSE "write" OBVIOUS
<1>4. job' = [job EXCEPT ![p] = [j EXCEPT !.pc = to, !.seen = task]]
  BY <1>2, <1>3 DEF S!SyncRead, S!RefreshRead
<1>5. /\ CommandOK(j) /\ j \in Doing(j.seen)
      /\ (j.pc = "sync" /\ to = "cover") \/ (j.pc = "refresh" /\ to = "write")
  BY <1>1, <1>2, <1>3 DEF CommandOK, S!SyncRead, S!RefreshRead
<1>6. PICK n : n = [j EXCEPT !.pc = to, !.seen = task] OBVIOUS
<1>7. n \in Doing(task) BY <1>5, <1>6 DEF Doing, CommandPCs
<1>8. n.pc = to /\ n.says = j.says /\ n.seen = task /\ n.alone = j.alone BY <1>5, <1>6 DEF Doing
<1>9. CommandOK(n) BY <1>1, <1>5, <1>7, <1>8 DEF CommandOK
<1>10. job[p] # S!Idle BY <1>2, <1>5, IdleOK
<1>11. ~Syncing(n) => ~Syncing(job[p]) BY <1>2, <1>5, <1>8 DEF Syncing
<1> QED BY <1>1, <1>4, <1>6, <1>8, <1>9, <1>10, <1>11, ReadStep

(* A status command reads the status and compares, or a command dies.      *)
LEMMA ReconcilesInv ==
  ASSUME Views, ViewInv, NEW p \in Procs, S!ReconcileStart(p) \/ S!ReconcileRead(p) \/ S!Crash(p)
  PROVE  ViewInv'
<1>1. /\ ViewTypes /\ UNCHANGED <<task, coverage, status, commands>>
      /\ task \in TaskFiles /\ CommandOK(job[p]) /\ crashes \in 0 .. MaxCrashes
  BY DEF ViewInv, ViewTypes, S!ReconcileStart, S!ReconcileRead, S!Crash
<1>2. CASE S!ReconcileStart(p)
  <2>1. PICK n : n = [S!Idle EXCEPT !.pc = "compare", !.seen = status, !.alone = TRUE] OBVIOUS
  <2>2. n \in Doing(status) BY <2>1, IdleOK DEF Doing, CommandPCs
  <2>3. n.pc = "compare" /\ n.says = Unset /\ n.seen = status /\ n.alone = TRUE
    BY <2>1, IdleOK DEF Doing
  <2>4. CommandOK(n) BY <2>2, <2>3 DEF CommandOK
  <2>5. ~Syncing(job[p]) BY <1>2, IdleOK DEF S!ReconcileStart
  <2> QED BY <1>1, <1>2, <2>1, <2>3, <2>4, <2>5, ReadStep DEF S!ReconcileStart
<1>3. CASE S!ReconcileRead(p)
  <2>1. PICK j : j = job[p] OBVIOUS
  <2>2. CommandOK(j) /\ j \in Doing(j.seen) /\ j.pc = "compare"
    BY <1>1, <1>3, <2>1 DEF CommandOK, S!ReconcileRead
  <2>3. job[p] # S!Idle /\ ~Syncing(job[p]) BY <2>1, <2>2, IdleOK DEF Syncing
  <2>4. CASE ~S!NeedsRefresh(j.seen, task)
    BY <1>1, <1>3, <2>1, <2>3, <2>4, IdleOK, ReadStep DEF S!ReconcileRead
  <2>5. CASE S!NeedsRefresh(j.seen, task)
    <3>1. PICK n : n = [j EXCEPT !.pc = "refresh", !.seen = Unset, !.says = S!Inferred(task)] OBVIOUS
    <3>2. S!Inferred(task) \in Sayings BY <1>1, Views1
    <3>3. n \in Doing(Unset) BY <2>2, <3>1, <3>2 DEF Doing, CommandPCs
    <3>4. n.pc = "refresh" /\ n.says = S!Inferred(task) /\ n.seen = Unset /\ n.alone = j.alone
      BY <2>2, <3>1 DEF Doing
    <3>5. CommandOK(n) BY <2>2, <3>2, <3>3, <3>4 DEF CommandOK
    <3> QED BY <1>1, <1>3, <2>1, <2>3, <2>5, <3>1, <3>4, <3>5, ReadStep DEF S!ReconcileRead
  <2> QED BY <2>4, <2>5
<1>4. CASE S!Crash(p)
  <2>1. crashes' \in 0 .. MaxCrashes
    <3>1. crashes \in Nat /\ MaxCrashes \in Nat /\ crashes < MaxCrashes /\ crashes' = crashes + 1
      BY <1>1, <1>4 DEF S!Crash, Views
    <3> QED BY <3>1
  <2> QED BY <1>1, <1>4, <2>1, IdleOK, ReadStep DEF S!Crash
<1> QED BY <1>2, <1>3, <1>4

(* A step of p that writes a view: other commands are not alone any more.  *)
LEMMA WriteStep ==
  ASSUME Views, ViewInv, NEW p \in Procs, NEW n, job' = S!Disturb(p, n), CommandOK(n)',
         UNCHANGED <<task, commands, crashes, apart>>, job[p] # S!Idle, n.pc # "cover",
         status' \in StatusFiles,
         coverage' \in [Reqs -> {"satisfied", "in_progress", "blocked", "unassigned"}],
         apart /\ ~Syncing(n) => coverage' = S!Covered(task)
  PROVE  ViewInv'
<1>1. ViewTypes /\ InTurn BY DEF ViewInv
<1>2. job'[p] = n /\ DOMAIN job' = Procs BY DEF S!Disturb
<1>3. CommandOK(job[p])' BY <1>2
<1>4. ASSUME NEW q \in Procs \ {p} PROVE CommandOK(job[q])' /\ (job[q] = S!Idle => job'[q] = S!Idle)
  BY <1>1, Disturbed
<1>5. apart' => /\ \A q \in Procs \ {p} : job'[q] = S!Idle
                /\ job'[p].pc = "cover" => job'[p].seen = task'
                /\ ~Syncing(job'[p]) => coverage' = S!Covered(task')
  <2> SUFFICES ASSUME apart' PROVE /\ \A q \in Procs \ {p} : job'[q] = S!Idle
                                   /\ job'[p].pc = "cover" => job'[p].seen = task'
                                   /\ ~Syncing(job'[p]) => coverage' = S!Covered(task')
    OBVIOUS
  <2>1. \A q \in Procs \ {p} : job'[q] = S!Idle BY <1>4, OthersIdle
  <2>2. S!Covered(task') = S!Covered(task) OBVIOUS
  <2> QED BY <1>2, <2>1, <2>2
<1> QED BY <1>1, <1>2, <1>3, <1>4, <1>5, StepOK DEF ViewTypes

(* A command writes the coverage.                                          *)
LEMMA SyncWriteInv ==
  ASSUME Views, ViewInv, NEW p \in Procs, S!SyncWrite(p)
  PROVE  ViewInv'
<1>1. /\ ViewTypes /\ InTurn /\ CommandOK(job[p]) /\ job[p].pc = "cover"
      /\ coverage' = S!Covered(job[p].seen)
      /\ UNCHANGED <<task, status, commands, crashes, apart>> /\ status \in StatusFiles
  BY DEF ViewInv, ViewTypes, S!SyncWrite
<1>2. PICK j : j = job[p] OBVIOUS
<1>3. CommandOK(j) /\ j \in Doing(j.seen) /\ j.pc = "cover" /\ j.seen \in TaskFiles /\ ~j.alone
  BY <1>1, <1>2 DEF CommandOK
<1>4. job[p] # S!Idle BY <1>1, IdleOK
<1>5. PICK n : /\ job' = S!Disturb(p, n)
               /\ n = IF j.says = Unset THEN S!Idle ELSE [j EXCEPT !.pc = "refresh", !.seen = Unset]
  BY <1>2 DEF S!SyncWrite
<1>6. CommandOK(n)' /\ ~Syncing(n)
  <2>1. CASE j.says = Unset BY <1>5, <2>1, IdleOK
  <2>2. CASE j.says # Unset
    <3>1. n \in Doing(Unset) BY <1>3, <1>5, <2>2 DEF Doing, CommandPCs
    <3>2. n.pc = "refresh" /\ n.says = j.says /\ n.seen = Unset /\ n.alone = j.alone
      BY <1>3, <1>5, <2>2 DEF Doing
    <3>3. j.says \in Sayings BY <1>3, <2>2 DEF Doing
    <3> QED BY <1>3, <3>1, <3>2, <3>3 DEF CommandOK, Syncing
  <2> QED BY <2>1, <2>2
<1>7. coverage' \in [Reqs -> {"satisfied", "in_progress", "blocked", "unassigned"}]
  BY <1>1, <1>2, <1>3, Views1
<1>8. apart => coverage' = S!Covered(task)
  BY <1>1 DEF InTurn
<1> QED BY <1>1, <1>4, <1>5, <1>6, <1>7, <1>8, WriteStep DEF Syncing

(* A command writes the status.                                            *)
LEMMA RefreshWriteInv ==
  ASSUME Views, ViewInv, NEW p \in Procs, S!RefreshWrite(p)
  PROVE  ViewInv'
<1>1. /\ ViewTypes /\ InTurn /\ CommandOK(job[p]) /\ job[p].pc = "write"
      /\ job' = S!Disturb(p, S!Idle)
      /\ UNCHANGED <<task, coverage, commands, crashes, apart>>
  BY DEF ViewInv, ViewTypes, S!RefreshWrite
<1>2. PICK j : j = job[p] OBVIOUS
<1>3. CommandOK(j) /\ j.pc = "write" /\ j.seen \in TaskFiles /\ j.says \in Sayings
  BY <1>1, <1>2 DEF CommandOK
<1>4. status' \in StatusFiles
  <2>1. status' = S!StatusFile(IF S!AllDone(j.seen) THEN S!Completed ELSE j.says, j.seen)
    BY <1>2 DEF S!RefreshWrite
  <2> QED BY <1>3, <2>1, Views1
<1>5. job[p] # S!Idle /\ ~Syncing(job[p]) BY <1>1, IdleOK DEF Syncing
<1>6. apart => coverage = S!Covered(task)
  <2>1. apart => \A q \in Procs : ~Syncing(job[q]) BY <1>5, IdleOK, OthersIdle
  <2> QED BY <1>1, <2>1 DEF InTurn
<1>7. CommandOK(S!Idle)' /\ S!Idle.pc # "cover" BY IdleOK
<1> QED BY <1>1, <1>4, <1>5, <1>6, <1>7, WriteStep DEF ViewTypes

(* Initially the views agree with the tickets.                             *)
LEMMA ViewInit ==
  ASSUME Views, S!Init
  PROVE  ViewInv
<1>1. task \in TaskFiles BY DEF S!Init, TaskFiles, S!Statuses
<1>2. S!Running("dispatch_ready") \in Sayings BY DEF S!Running, S!Says, Sayings
<1>3. coverage \in [Reqs -> {"satisfied", "in_progress", "blocked", "unassigned"}]
  BY <1>1, Views1 DEF S!Init
<1>4. status \in StatusFiles BY <1>1, <1>2, Views1 DEF S!Init
<1>5. ViewTypes
  <2>1. commands \in 0 .. MaxCommands /\ crashes \in 0 .. MaxCrashes BY DEF S!Init, Views
  <2>2. DOMAIN job = Procs /\ \A p \in Procs : job[p] = S!Idle BY DEF S!Init
  <2>3. \A p \in Procs : CommandOK(job[p]) BY <2>2, IdleOK
  <2> QED BY <1>1, <1>3, <1>4, <2>1, <2>2, <2>3 DEF ViewTypes
<1>6. InTurn BY IdleOK DEF S!Init, InTurn
<1> QED BY <1>5, <1>6 DEF ViewInv

(* No step of a command disturbs ViewInv.                                  *)
LEMMA ViewNext ==
  ASSUME Views, ViewInv, [S!Next]_(S!statusVars)
  PROVE  ViewInv'
<1>1. CASE UNCHANGED S!statusVars
  <2>1. UNCHANGED <<task, coverage, status, job, commands, crashes, apart>> BY <1>1 DEF S!statusVars
  <2>2. \A j : CommandOK(j) => CommandOK(j)' BY <2>1, StaysOK
  <2>3. ASSUME NEW p \in Procs PROVE CommandOK(job[p])'
    <3>1. PICK j : j = job[p] OBVIOUS
    <3>2. CommandOK(j)' BY <2>2, <3>1 DEF ViewInv, ViewTypes
    <3> QED BY <2>1, <3>1, <3>2
  <2>4. ViewTypes' BY <2>1, <2>3 DEF ViewInv, ViewTypes
  <2>5. InTurn' BY <2>1 DEF ViewInv, InTurn, S!Covered, S!Coverage
  <2> QED BY <2>4, <2>5 DEF ViewInv
<1>2. CASE S!Next
  BY <1>2, ChangesInv, ReadsInv, ReconcilesInv, SyncWriteInv, RefreshWriteInv DEF S!Next, S!Goes
<1> QED BY <1>1, <1>2

(* ViewInv says what CoverageIsCurrent asks.                               *)
LEMMA CoverageFollows ==
  ASSUME ViewInv
  PROVE  S!CoverageIsCurrent
<1>1. ASSUME apart, \A p \in Procs : job[p] = S!Idle PROVE coverage = S!Covered(task)
  BY <1>1, IdleOK DEF ViewInv, InTurn
<1> QED BY <1>1 DEF S!CoverageIsCurrent

(* ViewInv has the types of the run status.                                *)
LEMMA ViewsTyped ==
  ASSUME ViewInv
  PROVE  S!TypeOK
BY Tallied DEF ViewInv, ViewTypes, S!TypeOK, TaskFiles, StatusFiles, Sayings

(* A status command that ends without a crash found the status exact, or   *)
(* has made it so.                                                         *)
LEMMA RepairsStep ==
  ASSUME Views, ViewInv, [S!Next]_(S!statusVars)
  PROVE  S!Repairs
<1> SUFFICES ASSUME NEW p \in Procs, job[p].alone, job'[p] = S!Idle, crashes' = crashes
             PROVE  S!Exact'
  BY DEF S!Repairs
<1>1. ViewTypes /\ CommandOK(job[p]) BY DEF ViewInv, ViewTypes
<1>2. PICK j : j = job[p] OBVIOUS
<1>3. /\ CommandOK(j) /\ j.alone /\ j.pc \in {"compare", "refresh", "write"}
      /\ j.pc = "compare" => j.seen = status
      /\ j.pc \in {"refresh", "write"} => j.says = S!Inferred(task)
      /\ j.pc = "write" => j.seen = task /\ task \in TaskFiles
  BY <1>1, <1>2 DEF CommandOK
<1>4. job'[p] # job[p] BY <1>2, <1>3, IdleOK
<1>5. PICK q \in Procs : S!Goes(q) \/ S!Changes(q) \/ S!ReconcileStart(q) \/ S!Crash(q)
  BY <1>4 DEF S!Next, S!statusVars
<1>6. CASE q # p
  <2>1. [j EXCEPT !.alone = FALSE] # S!Idle
    <3>1. [j EXCEPT !.alone = FALSE].pc = j.pc BY <1>3 DEF CommandOK, Doing
    <3> QED BY <1>3, <3>1, IdleOK
  <2>2. job'[p] = job[p] \/ job'[p] = [job[p] EXCEPT !.alone = FALSE]
    BY <1>1, <1>5, <1>6 DEF ViewTypes, S!Goes, S!Changes, S!SyncRead, S!SyncWrite, S!RefreshRead,
      S!RefreshWrite,
       S!ReconcileRead, S!ReconcileStart, S!Crash, S!Verify, S!Retry, S!UpdateTaskStatus, S!Claim,
       S!Sweep, S!Command,
       S!Disturb
  <2> QED BY <1>2, <1>4, <2>1, <2>2
<1>7. CASE q = p
  <2>1. CASE S!ReconcileRead(p)
    <3>1. [j EXCEPT !.pc = "refresh", !.seen = Unset, !.says = S!Inferred(task)] # S!Idle
      <4>1. [j EXCEPT !.pc = "refresh", !.seen = Unset, !.says = S!Inferred(task)].pc = "refresh"
        BY <1>3 DEF CommandOK, Doing
      <4> QED BY <4>1, IdleOK
    <3>2. ~S!NeedsRefresh(j.seen, task) /\ j.pc = "compare" /\ UNCHANGED <<task, status>>
      BY <1>1, <1>2, <2>1, <3>1 DEF S!ReconcileRead, ViewTypes
    <3>3. status = S!StatusFile(S!Inferred(task), task) BY <1>3, <3>2 DEF S!NeedsRefresh
    <3> QED BY <3>2, <3>3 DEF S!Exact, S!StatusFile, S!Inferred, S!Summaries, S!AllDone, S!Counts
  <2>2. CASE S!RefreshWrite(p)
    <3>1. j.pc = "write" /\ task' = task
          /\ status' = S!StatusFile(IF S!AllDone(j.seen) THEN S!Completed ELSE j.says, j.seen)
      BY <1>2, <2>2 DEF S!RefreshWrite
    <3>2. status' = S!StatusFile(S!Inferred(task), task) BY <1>3, <3>1, Views1
    <3> QED BY <3>1, <3>2 DEF S!Exact, S!StatusFile, S!Inferred, S!Summaries, S!AllDone, S!Counts
  <2>3. ~S!SyncRead(p) /\ ~S!SyncWrite(p) /\ ~S!Changes(p) /\ ~S!ReconcileStart(p)
    <3>1. job[p].pc \in {"compare", "refresh", "write"} /\ job[p] # S!Idle BY <1>2, <1>3, IdleOK
    <3> QED BY <3>1 DEF S!SyncRead, S!SyncWrite, S!Changes, S!ReconcileStart, S!Verify, S!Retry,
      S!UpdateTaskStatus,
                S!Claim, S!Sweep, S!Command
  <2>4. ~S!Crash(p)
    <3>1. crashes \in Nat BY <1>1 DEF ViewTypes
    <3> QED BY <3>1 DEF S!Crash
  <2>5. ~S!RefreshRead(p)
    <3>1. ASSUME S!RefreshRead(p) PROVE job'[p].pc = "write"
      <4>1. job[p] \in Doing(job[p].seen) BY <1>1 DEF CommandOK
      <4> QED BY <1>1, <3>1, <4>1 DEF S!RefreshRead, ViewTypes, Doing
    <3> QED BY <3>1, IdleOK
  <2> QED BY <1>5, <1>7, <2>1, <2>2, <2>3, <2>4, <2>5 DEF S!Goes
<1> QED BY <1>6, <1>7

(* Commands that do not overlap leave the coverage of every requirement as *)
(* its tickets say, for any tickets, requirements and commands.            *)
THEOREM CoverageFollowsTasks ==
  ASSUME Views
  PROVE  Spec => []CoverageIsCurrent
<1> DEFINE I == part = "status" => ViewInv
<1>1. Init => I BY PartInit, ViewInit
<1>2. I /\ [Next]_runtimeVars => I' BY PartStep, ViewNext
<1>3. I => CoverageIsCurrent BY CoverageFollows DEF CoverageIsCurrent
<1> QED BY <1>1, <1>2, <1>3, PTL DEF Spec

(* A status command that nobody wrote into leaves an exact status.         *)
THEOREM StatusIsRepaired ==
  ASSUME Views
  PROVE  Spec => ReconcileRepairs
<1> DEFINE I == part = "status" => ViewInv
<1>1. Init => I BY PartInit, ViewInit
<1>2. I /\ [Next]_runtimeVars => I' BY PartStep, ViewNext
<1>3. I /\ [Next]_runtimeVars => [part = "status" => S!Repairs]_runtimeVars
  BY PartStep, RepairsStep
<1> QED BY <1>1, <1>2, <1>3, PTL DEF Spec, ReconcileRepairs
=============================================================================
