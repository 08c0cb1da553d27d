\* One request at a time, which may stop between two writes
SPECIFICATION Spec
CONSTANTS
  reported = reported
  work = work
  closed = closed
  States = {reported, work, closed}
  InitialState = reported
  FinalStates = {closed}
  Flow <- MCFlow
  Types <- MCTypes
  Actions = {a1}
  Obligations = {o1, o2}
  Mandatory = {o1}
  SevereOnly = {o2}
  Reports = {p1, p2, p3}
  Editors = {r1}
  None = None
  MayOverlap = FALSE
  MayCrash = TRUE
INVARIANTS
  IInv
  ClosedResolved
  OneReport
CHECK_DEADLOCK FALSE
