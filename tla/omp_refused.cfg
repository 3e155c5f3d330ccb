SPECIFICATION Spec
CONSTANTS
  Parts = {"omp"}
  Unused = Unused
  Tasks = {"t1", "t2"}
  Reqs = {"r1", "r2"}
  Covers <- MCCovers
  Findings = {"f", "g"}
  SetStatuses = {"failed", "repair_pending"}
  Procs = {1, 2}
  MaxCommands = 2
  MaxCrashes = 1
  Unset = Unset
  Prompts = 3
  AtOnce = 2
  Threshold = 2
  RestartOnThreshold = TRUE
  MaxDaemonFaults = 2
  Poppers = {a, b, c}
  Cancellable = {c}
  MaxSize = 2
  MaxEvents = 4
  Daemons = {d1, d2, d3}
  Nobody = Nobody
  RequestIds = {r1, r2}
  MaxLines = 3
  Capacity = 1
  MaxTurns = 2
  MaxCalls = 2
  MaxUnread = 1
  MaxFaults = 2
  Ports = {1, 2}
  Kinds = {"claude", "omp", "text"}
  MaxFrames = 2
INVARIANTS
  NothingAfterTheEnd
CHECK_DEADLOCK FALSE
