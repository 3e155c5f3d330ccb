SPECIFICATION Spec
CONSTANTS
  t1 = t1
  t2 = t2
  p1 = p1
  NoOwner = NoOwner
  NoFile = NoFile
  NoProc = NoProc
  Tasks = {t1, t2}
  Owners = {a}
  Procs = {p1, p2}
  Grain = 1
  Leases <- MCInstant
  SetStatuses <- MCProgress
  ReleaseStatuses <- MCReleases
  DepEdits <- MCDepEdits
  Sweeper = p1
  PlanDeps <- MCPlanDeps
  MaxTime = 1
  MaxCompiles = 1
SYMMETRY Symmetry
INVARIANTS
  ClaimedIsActive
