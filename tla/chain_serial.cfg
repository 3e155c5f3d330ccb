SPECIFICATION LiveSpec
CONSTANTS
  None = None
  Procs = {p1}
  Specs = {sound, other, annotated}
  Sound = {sound, other, annotated}
  Clean = {sound, other}
  Bounds = {empty, asks}
  Empty = empty
  AskFirst = {asks}
  MaxDrafts = 2
  Fit = {2}
INVARIANTS
  TypeOK
  ApprovedPlanIsFit
  CouncilSeesReviewedPlan
PROPERTIES
  TicketsFollowSpec
  RunRecovers
