\* One request at a time
SPECIFICATION Spec
CONSTANTS
  y1 = y1
  y2 = y2
  LastPeriod = 3
  Years = {y1, y2}
  YearOf <- MCYearOf
  Records = {e1}
  Contents = {c1, c2}
  Clerks = {r1}
  None = None
  RequirePeriod = FALSE
  MayOverlap = FALSE
INVARIANTS
  IInv
PROPERTIES
  LockedBooks
SYMMETRY ContentSymmetry
CHECK_DEADLOCK FALSE
