------------------------------- MODULE Agents --------------------------------
(* Who claims what, and how finely time passes: the parameters of the      *)
(* ticket files and of the leases they stand for.                          *)
EXTENDS Integers

CONSTANTS
  Tasks,    \* ticket ids of the run
  Owners,   \* agent ids that claim tasks (the empty ownerID is not one)
  NoOwner,  \* claimed_by is empty
  Grain     \* clock ticks per second: formatTime keeps whole seconds

ASSUME OwnersAssumption == NoOwner \notin Owners
ASSUME GrainAssumption == Grain \in Nat \ {0}
=============================================================================
