SPECIFICATION SteadySpec
CONSTANTS
  None = None
  Procs = {p1}
  Specs = {sound}
  Sound = {sound}
  Clean = {sound}
  Bounds = {empty}
  Empty = empty
  AskFirst = {}
  MaxDrafts = 1
  Fit = {1}
INVARIANTS
  CouncilBlocks
