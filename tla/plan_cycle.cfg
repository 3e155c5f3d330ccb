SPECIFICATION Spec
CONSTANTS
  Parts = {"plan"}
  Unused = Unused
  N = 3
  Lanes = 3
  Owned <- MCOwned
  Files <- MCFiles
  Edits = {0, 1, 2}
  MaxEdits = 1
  Nodes = {1, 2, 3}
  NoNode = 0
  Ids = {1, 2, 3}
  Similar <- MCSimilar
  Confidence <- MCConfidence
  Procs = {p1, p2}
  NoProc = NoProc
  Expiry = 1
  MaxAge = 1
  MinAttach = 1
  MaxTime = 2
  MaxOutcomes = 1
  Fixed = {f}
  Dynamic = {d}
  TextEdits = {e1}
  Modes = {"mvp"}
  Rounds = 1
  MaxCommands = 3
  Tickets = {1, 2, 3}
  MaxLinkFaults = 2
  MaxFaults = 1
INVARIANTS
  CompiledIsAcyclic
CHECK_DEADLOCK FALSE
