----------------------------- MODULE ClaimLease -----------------------------
(***************************************************************************)
(* What the claim API of internal/ticket promises: "an exclusive claim on  *)
(* a task" (ClaimTask) under "crash-safe leases" (state.ClaimableStore).   *)
(* Each call is one atomic step; there are no files, locks or processes.   *)
(*                                                                         *)
(* nominal is what the agents know: the end of the lease the agent was     *)
(* last granted (call time + lease), 0 after a release.  expires is what   *)
(* the store keeps: the same instant without its fraction of a second.     *)
(***************************************************************************)
EXTENDS Agents

CONSTANTS
  Ends,     \* the instants at which a lease may end
  MaxTime   \* bound: the clock stops here

VARIABLES
  holder,   \* holder[t]: the owner the store names for t, or NoOwner
  expires,  \* expires[t]: the end of that lease as stored
  nominal,  \* nominal[o][t]: the end of o's lease on t as o computes it
  now       \* the wall clock

vars == <<holder, expires, nominal, now>>

Stored(u) == u - (u % Grain)

Init ==
  /\ holder = [t \in Tasks |-> NoOwner]
  /\ expires = [t \in Tasks |-> 0]
  /\ nominal = [o \in Owners |-> [t \in Tasks |-> 0]]
  /\ now = 0

(* The task is free, o's own, or its lease has run out. *)
Free(t, o) == holder[t] \in {NoOwner, o} \/ ~(now < expires[t])

(* ClaimTask, and RenewClaim by the holder. *)
Grant(t, o) ==
  \E u \in Ends :
    /\ Free(t, o)
    /\ holder' = [holder EXCEPT ![t] = o]
    /\ expires' = [expires EXCEPT ![t] = Stored(u)]
    /\ nominal' = [nominal EXCEPT ![o][t] = u]
    /\ UNCHANGED now

(* ReleaseClaim: only by the holder. *)
Release(t, o) ==
  /\ holder[t] = o
  /\ holder' = [holder EXCEPT ![t] = NoOwner]
  /\ expires' = [expires EXCEPT ![t] = 0]
  /\ nominal' = [nominal EXCEPT ![o][t] = 0]
  /\ UNCHANGED now

(* ReclaimExpired: without the holder, and only after the lease. *)
Reclaim(t) ==
  /\ holder[t] # NoOwner
  /\ expires[t] < now
  /\ holder' = [holder EXCEPT ![t] = NoOwner]
  /\ expires' = [expires EXCEPT ![t] = 0]
  /\ UNCHANGED <<nominal, now>>

Tick ==
  /\ now < MaxTime
  /\ now' = now + 1
  /\ UNCHANGED <<holder, expires, nominal>>

Next ==
  \/ \E t \in Tasks, o \in Owners : Grant(t, o) \/ Release(t, o)
  \/ \E t \in Tasks : Reclaim(t)
  \/ Tick

Spec == Init /\ [][Next]_vars

-----------------------------------------------------------------------------
(* An agent is safe to work on t while its own lease has a second left:    *)
(* the stored end may be up to a second earlier than the one it computed.  *)
Working(o, t) == now + Grain <= nominal[o][t]

(* Two agents never work on one task at the same time: the exclusivity     *)
(* ClaimTask documents (claim.go:32), seen from the agents and not from    *)
(* the file.                                                               *)
LeaseExclusive ==
  \A t \in Tasks : \A o1, o2 \in Owners :
     Working(o1, t) /\ Working(o2, t) => o1 = o2
=============================================================================
