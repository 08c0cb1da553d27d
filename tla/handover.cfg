\* One request at a time, which may stop between two writes
SPECIFICATION Spec
CONSTANTS
  u1 = u1
  u2 = u2
  Shifts = {s1, s2}
  MaxHandovers = 2
  Notes = {n1}
  Incidents = {i1}
  Actions = {}
  Reports = {}
  Area = {i1}
  MaxRows = 1
  Users = {u1, u2}
  Sees <- MCSees
  Clerks = {r1}
  None = None
  MayOverlap = FALSE
  MayCrash = TRUE
INVARIANTS
  IInv
  NotesRoll
PROPERTIES
  AcknowledgedFinal
SYMMETRY ShiftSymmetry
CHECK_DEADLOCK FALSE
