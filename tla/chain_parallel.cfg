SPECIFICATION Spec
CONSTANTS
  None = None
  Procs = {p1, p2}
  Specs = {sound, annotated, partial}
  Sound = {sound, annotated}
  Clean = {sound, partial}
  Bounds = {empty}
  Empty = empty
  AskFirst = {}
  MaxDrafts = 1
  Fit = {1}
SYMMETRY Symmetry
INVARIANTS
  ApprovedSpecIsSound
  TicketsAreTraceable
  StatusHasWork
