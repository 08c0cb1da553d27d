SPECIFICATION Spec
CONSTANTS
  e1 = e1
  e2 = e2
  Entries = {e1}
  Requests = {r1}
  Rounds = {}
  s1 = s1
  s2 = s2
  draft = draft
  review = review
  check = check
  closed = closed
  Sections = {s1, s2}
  Values = {ok, high}
  Alarming = {high}
  Dates = {d1, d2}
  States = {draft, review, closed}
  InitialState = draft
  FinalStates = {closed}
  Transitions <- MCTransitions
  EditableIn <- MCEditableIn
  SignedSections = {s1}
  DateSection = s2
  CalcField = total
  CalcSection = s2
  Formula <- MCFormula
  FlowEntries = {e1}
  FolioEntries = {e1}
  None = None
  MaxVersion <- MCTwoSaves
  MayOverlap = FALSE
  MayCrash = FALSE
INVARIANTS
  LockMatchesStage
  ExceptionsMatchValues
  EffectiveDateResolved
PROPERTIES
  RecordKept
  SignatureOverStored
CHECK_DEADLOCK FALSE
