SPECIFICATION LiveSpec
CONSTANTS
  t1 = t1
  t2 = t2
  p1 = p1
  NoOwner = NoOwner
  NoFile = NoFile
  NoProc = NoProc
  Tasks = {t1}
  Owners = {a, b}
  Procs = {p1, p2, p3}
  Grain = 2
  Leases <- MCLong
  SetStatuses <- MCProgress
  ReleaseStatuses <- MCReleases
  DepEdits <- MCSelfEdit
  Sweeper = p1
  PlanDeps <- MCPlanDeps
  MaxTime = 5
  MaxCompiles = 0
INVARIANTS
  TypeOK
  LockedWriteIsCurrent
  LeaseExclusive
PROPERTIES
  DependencyKept
  LiveLeaseKept
  LeaseSpec
  ExpiredIsReclaimed
