SPECIFICATION SteadySpec
CONSTANTS
  None = None
  Procs = {p1}
  Specs = {sound, other}
  Sound = {sound, other}
  Clean = {sound, other}
  Bounds = {empty}
  Empty = empty
  AskFirst = {}
  MaxDrafts = 1
  Fit = {1}
INVARIANTS
  NotHalfApproved
