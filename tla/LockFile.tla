------------------------------- MODULE LockFile -------------------------------
(***************************************************************************)
(* llmcli/daemon.LockFile: flock on a file that holds the PID of its       *)
(* owner, removed when the lock is given back, and removed by others when  *)
(* the PID in it is that of a dead process.  A lock is on the file that    *)
(* was opened, whatever the path leads to by then, and the kernel lets go  *)
(* of it when its owner dies.  Each call below is one system call.         *)
(***************************************************************************)
EXTENDS Naturals, FiniteSets, Sequences

CONSTANTS
  Daemons,    \* processes, which are their PIDs and start once
  Nobody,     \* no lock, no PID
  MaxCrashes  \* bound: processes that die

VARIABLES
  path,     \* the file the path leads to, 0 if none
  files,    \* files made so far: who has the lock, the PID written
  daemon,   \* daemon[d]: where it is in Acquire or Release, and its file
  crashes,
  ended     \* history: an owner has ended or a file was looked into

lockVars == <<path, files, daemon, crashes, ended>>

Init ==
  /\ path = 0
  /\ files = << >>
  /\ daemon = [d \in Daemons |-> [pc |-> "idle", file |-> 0, retry |-> FALSE]]
  /\ crashes = 0
  /\ ended = FALSE

At(d, pc) == daemon[d].pc = pc

Goto(d, pc) == daemon' = [daemon EXCEPT ![d].pc = pc]

Alive(d) == daemon[d].pc # "dead"

File(d) == files[daemon[d].file]

Unlocked == [lock |-> Nobody, pid |-> Nobody]

(* Acquire and retryAcquire: open, or create.                              *)
Open(d) ==
  /\ daemon[d].pc \in {"idle", "again"}
  /\ files' = IF path = 0 THEN Append(files, Unlocked) ELSE files
  /\ path' = IF path = 0 THEN Len(files') ELSE path
  /\ daemon' = [daemon EXCEPT ![d] = [pc |-> "flock", file |-> path', retry |-> At(d, "again")]]
  /\ UNCHANGED <<crashes, ended>>

Flock(d) ==
  /\ At(d, "flock") /\ File(d).lock = Nobody
  /\ files' = [files EXCEPT ![daemon[d].file].lock = d]
  /\ Goto(d, "truncate")
  /\ UNCHANGED <<path, crashes, ended>>

(* The second attempt is the last.                                         *)
Refused(d) ==
  /\ At(d, "flock") /\ File(d).lock # Nobody
  /\ Goto(d, IF daemon[d].retry THEN "refused" ELSE "stale")
  /\ UNCHANGED <<path, files, crashes, ended>>

CheckUnread(d) ==
  /\ At(d, "stale")
  /\ Goto(d, IF File(d).pid # Nobody /\ Alive(File(d).pid) THEN "refused" ELSE "remove")
  /\ UNCHANGED <<path, files, crashes, ended>>

(* readPIDFromFile and isProcessAlive: a file without a PID is taken for   *)
(* one whose owner is about to write it.                                   *)
Check(d) ==
  /\ At(d, "stale")
  /\ Goto(d, IF File(d).pid = Nobody \/ Alive(File(d).pid) THEN "refused" ELSE "remove")
  /\ UNCHANGED <<path, files, crashes, ended>>

(* Whatever the path leads to by now is removed.                           *)
RemoveStale(d) ==
  /\ At(d, "remove")
  /\ path' = 0
  /\ Goto(d, "again")
  /\ UNCHANGED <<files, crashes, ended>>

Truncate(d) ==
  /\ At(d, "truncate")
  /\ files' = [files EXCEPT ![daemon[d].file].pid = Nobody]
  /\ Goto(d, "write")
  /\ UNCHANGED <<path, crashes, ended>>

WritePID(d) ==
  /\ At(d, "write")
  /\ files' = [files EXCEPT ![daemon[d].file].pid = d]
  /\ Goto(d, "owner")
  /\ UNCHANGED <<path, crashes, ended>>

(* Release: the lock first, the file after.                                *)
Unlock(d) ==
  /\ At(d, "owner")
  /\ files' = [files EXCEPT ![daemon[d].file].lock = Nobody]
  /\ ended' = TRUE
  /\ Goto(d, "removing")
  /\ UNCHANGED <<path, crashes>>

Remove(d) ==
  /\ At(d, "removing")
  /\ path' = 0
  /\ Goto(d, "dead")
  /\ UNCHANGED <<files, crashes, ended>>

(* ReadHeldPID tests a lock by taking it; another process does that here.  *)
Probe ==
  /\ path # 0 /\ files[path].lock = Nobody
  /\ ended' = TRUE
  /\ \E d \in Daemons :
       /\ At(d, "flock") /\ daemon[d].file = path
       /\ Goto(d, IF daemon[d].retry THEN "refused" ELSE "stale")
  /\ UNCHANGED <<path, files, crashes>>

Crash(d) ==
  /\ daemon[d].pc \notin {"idle", "dead"}
  /\ crashes < MaxCrashes
  /\ crashes' = crashes + 1
  /\ files' = [f \in DOMAIN files |->
                 IF files[f].lock = d THEN [files[f] EXCEPT !.lock = Nobody] ELSE files[f]]
  /\ ended' = TRUE
  /\ Goto(d, "dead")
  /\ UNCHANGED path

DaemonStep(d) ==
  \/ Open(d) \/ Flock(d) \/ Refused(d) \/ Check(d) \/ RemoveStale(d)
  \/ Truncate(d) \/ WritePID(d) \/ Unlock(d) \/ Remove(d) \/ Crash(d)

Next == Probe \/ \E d \in Daemons : DaemonStep(d)

Spec == Init /\ [][Next]_lockVars

-----------------------------------------------------------------------------
TypeOK ==
  /\ path \in 0 .. Len(files)
  /\ \A f \in DOMAIN files : /\ files[f].lock \in Daemons \cup {Nobody}
                             /\ files[f].pid \in Daemons \cup {Nobody}
  /\ \A d \in Daemons : daemon[d].file \in 0 .. Len(files)

Owners == {d \in Daemons : daemon[d].pc \in {"truncate", "write", "owner"}}

(* Of processes that start together one at most gets the lock, however     *)
(* their calls interleave with its writing of the PID; the file must not   *)
(* be taken away from it before it has ended.                              *)
OneOwnerUntilOneEnds == ~ended => Cardinality(Owners) <= 1

(* "an exclusive lock file to prevent multiple daemon instances"           *)
(* (lockfile.go:15).                                                       *)
OneOwner == Cardinality(Owners) <= 1
=============================================================================
