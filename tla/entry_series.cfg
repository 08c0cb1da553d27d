SPECIFICATION Spec
CONSTANTS
  e1 = e1
  e2 = e2
  Entries = {e1, e2}
  Requests = {r1, r2}
  Rounds = {o1, o2}
  s1 = s1
  s2 = s2
  draft = draft
  review = review
  check = check
  closed = closed
  Sections = {s1}
  Values = {ok, high}
  Alarming = {high}
  Dates = {}
  States = {draft, review, closed}
  InitialState = draft
  FinalStates = {closed}
  Transitions <- MCTransitions
  EditableIn <- MCOneSection
  SignedSections = {s1}
  DateSection = None
  CalcField = total
  CalcSection = s1
  Formula <- MCFormula
  FlowEntries = {e1}
  FolioEntries = {e1, e2}
  None = None
  MaxVersion <- MCOneSave
  MayOverlap = FALSE
  MayCrash = FALSE
INVARIANTS
  FolioGapless
  SubmittedComplete
  RoundFollowsEntry
  VoidReleasesRound
SYMMETRY RequestSymmetry
CHECK_DEADLOCK FALSE
