SPECIFICATION Spec
CONSTANTS
  borrador = borrador
  aprobada = aprobada
  plan_aprobado = plan_aprobado
  preparacion = preparacion
  checklists_ok = checklists_ok
  ejecucion = ejecucion
  revision = revision
  cerrada = cerrada
  rechazada = rechazada
  a1 = a1
  art = art
  loto = loto
  cierre = cierre
  seed = seed
  other = other
  Requests = {r1}
  Activities = {a1}
  Templates = {art, loto, cierre}
  Workers = {w1}
  States = {borrador, aprobada, plan_aprobado, preparacion, checklists_ok, ejecucion, revision, cerrada, rechazada}
  InitialState = borrador
  FinalStates = {cerrada, rechazada}
  Transitions <- MCTransitions
  Types = {seed, other}
  NewType = seed
  Stages <- MCStages
  AfterApproval = {aprobada, plan_aprobado, preparacion, checklists_ok, ejecucion, revision, cerrada}
  AfterFreeze = {plan_aprobado, preparacion, checklists_ok, ejecucion, revision, cerrada}
  Rules <- MCRules
  Retypes <- MCRetypes
  ManualRows <- MCManualRows
  ManualMoments = {"EXECUTION"}
  None = None
  MayOverlap = FALSE
  MayCrash = TRUE
INVARIANTS
  IInv
  AppliedIsAuthorised
  ClosedComplete
  PermitDocumented
CHECK_DEADLOCK FALSE
