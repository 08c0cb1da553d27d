SPECIFICATION Spec
CONSTANTS
  e1 = e1
  e2 = e2
  Entries = {e1, e2}
  Requests = {r1, r2}
  Rounds = {o1}
  s1 = s1
  s2 = s2
  draft = draft
  review = review
  check = check
  closed = closed
  Sections = {s1}
  Values = {high}
  Alarming = {high}
  Dates = {}
  States = {draft, review, check, closed}
  InitialState = draft
  FinalStates = {closed}
  Transitions <- MCForked
  EditableIn <- MCOneSection
  SignedSections = {}
  DateSection = None
  CalcField = total
  CalcSection = None
  Formula <- MCNoFormula
  FlowEntries = {e1}
  FolioEntries = {e1, e2}
  None = None
  MaxVersion <- MCOneSave
  MayOverlap = TRUE
  MayCrash = TRUE
INVARIANTS
  IInv
  FolioUnique
  SealGate
  CompletedRoundLinked
  SignerAlerted
SYMMETRY RequestSymmetry
CHECK_DEADLOCK FALSE
