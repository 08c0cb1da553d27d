SPECIFICATION Spec
CONSTANTS
  Excs = {x1, x2}
  RuleExcs = {x1, x2}
  Incidents = {i1}
  Requests = {r1}
  None = None
  MaxAttempts = 2
  BatchSize = 1
  MaxStops = 1
PROPERTIES
  OrderSettled
CHECK_DEADLOCK FALSE
