SPECIFICATION Spec
CONSTANTS
  Excs = {x1, x2}
  RuleExcs = {x1}
  Incidents = {i1}
  Requests = {r1, r2}
  None = None
  MaxAttempts = 2
  BatchSize = 1
  MaxStops = 1
SYMMETRY RequestSymmetry
INVARIANTS
  IInv
  DoneHasIncident

  
CHECK_DEADLOCK FALSE
