-------------------------- MODULE ClaimLeaseProofs --------------------------
(* Exclusivity of the atomic leases, for all tasks, owners and clocks. *)
EXTENDS ClaimLease, TLAPS

TypeOK ==
  /\ holder \in [Tasks -> Owners \cup {NoOwner}]
  /\ expires \in [Tasks -> Nat]
  /\ nominal \in [Owners -> [Tasks -> Nat]]
  /\ now \in Nat

(* An agent that may be working is the one the store names, and the stored *)
(* end of the lease is the one the agent computed: no step in between can  *)
(* separate what the agent believes from what the store will enforce.      *)
Agreed ==
  \A t \in Tasks, o \in Owners :
     Working(o, t) => holder[t] = o /\ expires[t] = Stored(nominal[o][t])

IInv == TypeOK /\ Agreed

-----------------------------------------------------------------------------
(* formatTime keeps whole seconds: the stored end is at most the computed  *)
(* one and less than a second earlier.                                     *)
LEMMA StoredBounds ==
  ASSUME NEW u \in Nat
  PROVE  Stored(u) \in Nat /\ Stored(u) <= u /\ u < Stored(u) + Grain
<1>1. u % Grain \in 0 .. (Grain - 1)
  BY OwnersAssumption, GrainAssumption
<1>2. u % Grain <= u
  BY OwnersAssumption, GrainAssumption
<1> QED
  BY <1>1, <1>2, OwnersAssumption, GrainAssumption DEF Stored

(* A lease that has run out leaves no second to work in. *)
LEMMA GrainPositive == \A n \in Nat : ~(n + Grain <= 0)
  BY OwnersAssumption, GrainAssumption

(* Nobody works before the first grant. *)
LEMMA InitIInv == Init => IInv
  BY OwnersAssumption, GrainAssumption, GrainPositive DEF Init, IInv, TypeOK, Agreed, Working

(* A lease is only granted on a task whose former lease has run out, so    *)
(* that no other agent may still be working on it.                         *)
LEMMA GrantIInv ==
  ASSUME IInv, Ends \subseteq Nat, NEW t \in Tasks, NEW o \in Owners, Grant(t, o)
  PROVE  IInv'
<1>1. PICK u \in Ends :
        /\ Free(t, o)
        /\ holder' = [holder EXCEPT ![t] = o]
        /\ expires' = [expires EXCEPT ![t] = Stored(u)]
        /\ nominal' = [nominal EXCEPT ![o][t] = u]
        /\ UNCHANGED now
  BY DEF Grant
<1>2. u \in Nat /\ Stored(u) \in Nat
  BY StoredBounds, OwnersAssumption, GrainAssumption
<1>3. TypeOK'
  BY <1>1, <1>2 DEF IInv, TypeOK
<1>4. ASSUME NEW t1 \in Tasks, NEW o1 \in Owners, Working(o1, t1)'
      PROVE  holder'[t1] = o1 /\ expires'[t1] = Stored(nominal'[o1][t1])
  <2>1. CASE t1 # t
    <3>1. nominal'[o1][t1] = nominal[o1][t1] /\ holder'[t1] = holder[t1]
             /\ expires'[t1] = expires[t1]
      BY <1>1, <2>1 DEF IInv, TypeOK
    <3>2. Working(o1, t1)
      BY <1>1, <1>4, <3>1 DEF Working
    <3> QED
      BY <3>1, <3>2 DEF IInv, Agreed
  <2>2. CASE t1 = t /\ o1 = o
    BY <1>1, <2>2 DEF IInv, TypeOK
  <2>3. CASE t1 = t /\ o1 # o
    <3>1. nominal'[o1][t] = nominal[o1][t]
      BY <1>1, <2>3 DEF IInv, TypeOK
    <3>2. Working(o1, t)
      BY <1>1, <1>4, <2>3, <3>1 DEF Working
    <3>3. holder[t] = o1 /\ expires[t] = Stored(nominal[o1][t])
      BY <3>2 DEF IInv, Agreed
    <3>4. nominal[o1][t] \in Nat /\ now \in Nat
      BY DEF IInv, TypeOK
    <3>5. nominal[o1][t] < expires[t] + Grain
      BY <3>3, <3>4, StoredBounds
    <3>6. now < expires[t]
      BY <3>2, <3>3, <3>4, <3>5, StoredBounds, OwnersAssumption, GrainAssumption DEF Working
    <3>7. FALSE
      BY <1>1, <2>3, <3>3, <3>6, OwnersAssumption, GrainAssumption DEF Free
    <3> QED
      BY <3>7
  <2> QED
    BY <2>1, <2>2, <2>3
<1> QED
  BY <1>3, <1>4 DEF IInv, Agreed

(* A release takes the lease from the agent that gives it up, and from no  *)
(* other.                                                                  *)
LEMMA ReleaseIInv ==
  ASSUME IInv, NEW t \in Tasks, NEW o \in Owners, Release(t, o)
  PROVE  IInv'
<1>1. TypeOK'
  BY DEF IInv, TypeOK, Release
<1>2. ASSUME NEW t1 \in Tasks, NEW o1 \in Owners, Working(o1, t1)'
      PROVE  holder'[t1] = o1 /\ expires'[t1] = Stored(nominal'[o1][t1])
  <2>1. CASE t1 # t
    BY <1>2, <2>1 DEF IInv, TypeOK, Agreed, Release, Working
  <2>2. CASE t1 = t /\ o1 = o
    <3>1. nominal'[o1][t1] = 0
      BY <2>2 DEF IInv, TypeOK, Release
    <3>2. now' + Grain <= 0 /\ now' \in Nat
      BY <1>1, <1>2, <3>1 DEF TypeOK, Working
    <3> QED
      BY <3>2, GrainPositive
  <2>3. CASE t1 = t /\ o1 # o
    <3>1. Working(o1, t)
      BY <1>2, <2>3 DEF IInv, TypeOK, Release, Working
    <3> QED
      BY <2>3, <3>1 DEF IInv, Agreed, Release
  <2> QED
    BY <2>1, <2>2, <2>3
<1> QED
  BY <1>1, <1>2 DEF IInv, Agreed

(* A sweep only clears leases whose agents have stopped.                   *)
LEMMA ReclaimIInv ==
  ASSUME IInv, NEW t \in Tasks, Reclaim(t)
  PROVE  IInv'
<1>1. TypeOK'
  BY DEF IInv, TypeOK, Reclaim
<1>2. ASSUME NEW t1 \in Tasks, NEW o1 \in Owners, Working(o1, t1)'
      PROVE  holder'[t1] = o1 /\ expires'[t1] = Stored(nominal'[o1][t1])
  <2>1. Working(o1, t1)
    BY <1>2 DEF Reclaim, Working
  <2>2. holder[t1] = o1 /\ expires[t1] = Stored(nominal[o1][t1])
    BY <2>1 DEF IInv, Agreed
  <2>3. nominal[o1][t1] \in Nat /\ now \in Nat
    BY DEF IInv, TypeOK
  <2>4. now < expires[t1]
    BY <2>1, <2>2, <2>3, StoredBounds, OwnersAssumption, GrainAssumption DEF Working
  <2>5. t1 # t
    BY <2>2, <2>3, <2>4, StoredBounds DEF Reclaim
  <2> QED
    BY <2>2, <2>5 DEF IInv, TypeOK, Reclaim
<1> QED
  BY <1>1, <1>2 DEF IInv, Agreed

(* Time only ends leases. *)
LEMMA TickIInv ==
  ASSUME IInv, Tick
  PROVE  IInv'
<1>1. ASSUME NEW t1 \in Tasks, NEW o1 \in Owners, Working(o1, t1)'
      PROVE  Working(o1, t1)
  BY <1>1, OwnersAssumption, GrainAssumption DEF IInv, TypeOK, Tick, Working
<1> QED
  BY <1>1 DEF IInv, TypeOK, Agreed, Tick

(* Every reachable state is typed and Agreed. *)
THEOREM Invariant == Ends \subseteq Nat => (Spec => []IInv)
<1> SUFFICES ASSUME Ends \subseteq Nat
             PROVE  Spec => []IInv
  OBVIOUS
<1>1. Init => IInv
  BY InitIInv
<1>2. IInv /\ [Next]_vars => IInv'
  <2>1. CASE UNCHANGED vars
    BY <2>1 DEF vars, IInv, TypeOK, Agreed, Working
  <2> QED
    BY <2>1, GrantIInv, ReleaseIInv, ReclaimIInv, TickIInv DEF Next
<1> QED
  BY <1>1, <1>2, PTL DEF Spec

(* For any number of tasks, agents and clock ticks per second, two agents  *)
(* whose leases on a task both have a second left are the same agent       *)
(* (claim.go:32 ClaimTask, "acquires an exclusive claim").                 *)
THEOREM Exclusive == Ends \subseteq Nat => (Spec => []LeaseExclusive)
<1>1. IInv => LeaseExclusive
  BY DEF IInv, Agreed, LeaseExclusive
<1> QED
  BY <1>1, Invariant, PTL
=============================================================================
