--------------------------- MODULE IncidentsProofs ---------------------------
(***************************************************************************)
(* What holds of an incident whatever the workflow, the types, the         *)
(* obligations and the numbers of actions, reports and requests are, as    *)
(* long as its requests come one after the other.                          *)
(***************************************************************************)
EXTENDS Incidents, TLAPS

RowVars == <<incident, action, investigation, report>>

ActionStatus == {"ABSENT", "OPEN", "IN_PROGRESS", "DONE", "VERIFIED", "CANCELED"}

(* What a derivation writes for an obligation *)
LEMMA NewReportType ==
  ASSUME TypeOK, NEW o \in Obligations, Free # {}
  PROVE  /\ NewReport(o) \in [Reports -> ReportRow]
         /\ \E p \in Free : NewReport(o) =
              [report EXCEPT ![p] = [status |-> "PENDING", ob |-> o,
                                     late |-> incident.lifecycle # "OPEN"]]
  <1> DEFINE p == CHOOSE q \in Free : TRUE
  <1>1. p \in Free
    OBVIOUS
  <1>2. p \in Reports
    BY <1>1 DEF Free
  <1> QED  BY <1>1, <1>2 DEF NewReport, TypeOK, ReportRow

(* Requests one after the other: the others of a request that is not idle  *)
(* are, and what it checked says nothing of them                           *)
LEMMA OthersIdle ==
  ASSUME IInv, NEW r \in Editors, req[r] # Idle
  PROVE  \A x \in Editors \ {r} : req[x] = Idle
  BY DEF IInv, RequestInv

LEMMA IdleInv ==
  ASSUME NEW r \in Editors, req[r] = Idle, \A x \in Editors : req[x] = Idle
  PROVE  RequestInv(r)
  BY DEF RequestInv, Idle

(* What a request carries, and writes, for an action.                      *)
LEMMA ActionParts ==
  ASSUME TypeOK, NEW op \in Op, op.kind \in OfAction
  PROVE  /\ op.a \in Actions /\ StatusAfter(op) \in ActionStatus
         /\ op.kind \in {"createAction", "updateAction"} => op.mandatory \in BOOLEAN
  <1>1. /\ op.a \in Actions
        /\ op.kind \in {"createAction", "updateAction"} => op.mandatory \in BOOLEAN
        /\ op.kind = "updateAction" => op.status \in {"OPEN", "IN_PROGRESS", "unchanged"}
        /\ op.kind = "verifyAction" => op.effective \in BOOLEAN
    BY DEF Op, OfAction
  <1>2. action[op.a].status \in ActionStatus
    BY <1>1 DEF TypeOK, ActionRow, ActionStatus
  <1> QED  BY <1>1, <1>2 DEF StatusAfter, OfAction, ActionStatus

(* A request that ends leaves nothing to be checked *)
LEMMA FinishInv ==
  ASSUME IInv, NEW r \in Editors, req[r] # Idle, Finish(r)
  PROVE  /\ req' \in [Editors -> InFlight \cup {Idle}]
         /\ \A x \in Editors : RequestInv(x)'
  <1>1. \A x \in Editors : req'[x] = Idle
    BY OthersIdle DEF Finish, IInv, TypeOK
  <1>2. \A x \in Editors : RequestInv(x)'
    BY <1>1 DEF RequestInv, Idle
  <1> QED  BY <1>2 DEF IInv, TypeOK, Finish

(* A request that begins is alone *)
LEMMA StartInv ==
  ASSUME IInv, ~MayOverlap, NEW r \in Editors, NEW q, Start(r, q)
  PROVE  /\ \A x \in Editors \ {r} : req'[x] = Idle
         /\ req'[r] = q
         /\ q \in InFlight \cup {Idle} => req' \in [Editors -> InFlight \cup {Idle}]
  BY DEF Start, Alone, IInv, TypeOK

LEMMA TypeInit == Init => IInv
  <1> SUFFICES ASSUME Init PROVE IInv
    OBVIOUS
  <1>1. TypeOK
    BY FlowAssumption
       DEF Init, TypeOK, IncidentRow, ActionRow, InvestigationRow, ReportRow, NoReport
  <1>2. \A r \in Editors : RequestInv(r)
    BY DEF Init, RequestInv, Idle
  <1> QED  BY <1>1, <1>2 DEF IInv, Init

-----------------------------------------------------------------------------
(* Each write, from rows of their types *)

LEMMA StepInv ==
  ASSUME ~MayOverlap, IInv, [Next]_vars
  PROVE  IInv'
  <1>1. CASE UNCHANGED vars
    <2>1. \A op : Allows(op)' = Allows(op)
      BY <1>1 DEF vars, Allows, ActionAllows, InvestigationAllows, ReportAllows, Reported,
                  MayClose, BlockingActions, BlockingReports, InvestigationPending, Open
    <2>2. Reported' = Reported
      BY <1>1 DEF vars, Reported
    <2>3. \A x \in Editors : RequestInv(x)'
      BY <1>1, <2>1, <2>2 DEF vars, IInv, RequestInv
    <2> QED  BY <1>1, <2>3 DEF vars, IInv, TypeOK
  <1>2. ASSUME NEW r \in Editors, NEW severe \in BOOLEAN, NEW reportable \in BOOLEAN,
               Create(r, severe, reportable)
        PROVE  IInv'
    <2>1. incident' \in IncidentRow
      BY <1>2 DEF Create, IInv, TypeOK, IncidentRow
    <2>2. /\ req' \in [Editors -> InFlight \cup {Idle}]
          /\ \A x \in Editors \ {r} : req'[x] = Idle
          /\ req'[r] \in {Deriving, Idle}
      BY <1>2, StartInv DEF Create, Deriving, InFlight
    <2>3. \A x \in Editors : RequestInv(x)'
      BY <2>2 DEF RequestInv, Idle, Deriving
    <2> QED  BY <1>2, <2>1, <2>2, <2>3 DEF Create, IInv, TypeOK
  <1>3. ASSUME NEW r \in Editors, NEW op \in Op, Begin(r, op)
        PROVE  IInv'
    <2> DEFINE q == [pc |-> "write", op |-> op, todo |-> {}]
    <2>1. /\ req' \in [Editors -> InFlight \cup {Idle}]
          /\ \A x \in Editors \ {r} : req'[x] = Idle
          /\ req'[r] = q
      BY <1>3, StartInv DEF Begin, InFlight
    <2>2. Allows(op)'
      BY <1>3 DEF Begin, Allows, ActionAllows, InvestigationAllows,
                ReportAllows, Reported, MayClose, BlockingActions, BlockingReports,
                InvestigationPending, Open
    <2>3. \A x \in Editors : RequestInv(x)'
      BY <2>1, <2>2 DEF RequestInv, Idle
    <2> QED  BY <1>3, <2>1, <2>3 DEF Begin, IInv, TypeOK
  <1>4. ASSUME NEW r \in Editors, CommitIncident(r)
        PROVE  IInv'
    <2>1. req[r] # Idle /\ Finish(r)
      BY <1>4 DEF CommitIncident, Idle
    <2>2. req[r].op \in Op
      BY <1>4, <2>1 DEF CommitIncident, IInv, TypeOK, InFlight
    <2>3. incident' \in IncidentRow
      BY <1>4, <2>2 DEF CommitIncident, IncidentAfter, IInv, TypeOK, IncidentRow, Op
    <2> QED  BY <1>4, <2>1, <2>3, FinishInv DEF CommitIncident, IInv, TypeOK
  <1>5. ASSUME NEW r \in Editors, CommitAction(r)
        PROVE  IInv'
    <2>1. req[r] # Idle /\ Finish(r)
      BY <1>5 DEF CommitAction, Idle
    <2>2. req[r].op \in Op
      <3>1. TypeOK
        BY DEF IInv
      <3>2. req[r] \in InFlight /\ req[r].pc = "write"
        BY <1>5, <2>1, <3>1 DEF TypeOK, CommitAction
      <3> QED  BY <3>2 DEF InFlight
    <2>3. action' \in [Actions -> ActionRow]
      <3> DEFINE op == req[r].op
      <3>1. TypeOK /\ op.kind \in OfAction
        BY <1>5 DEF IInv, CommitAction
      <3>2. /\ op.a \in Actions /\ StatusAfter(op) \in ActionStatus
            /\ op.kind \in {"createAction", "updateAction"} => op.mandatory \in BOOLEAN
        BY <2>2, <3>1, ActionParts
      <3>3. action \in [Actions -> ActionRow] /\ action[op.a] \in ActionRow
        <4>1. action \in [Actions -> ActionRow]
          BY <3>1, Zenon DEF TypeOK
        <4>2. op.a \in Actions
          BY <3>2, Zenon
        <4> HIDE DEF op
        <4> QED  BY <4>1, <4>2
      <3>4. PICK m \in BOOLEAN :
              action' = [action EXCEPT ![op.a].status = StatusAfter(op), ![op.a].mandatory = m]
        BY <1>5, <3>2, <3>3 DEF CommitAction, ActionRow
      <3>5. [action[op.a] EXCEPT !.status = StatusAfter(op), !.mandatory = m] \in ActionRow
        BY <3>2, <3>3 DEF ActionRow, ActionStatus
      <3> HIDE DEF op
      <3> QED  BY <3>2, <3>3, <3>4, <3>5
    <2> QED  BY <1>5, <2>1, <2>3, FinishInv DEF CommitAction, IInv, TypeOK
  <1>6. ASSUME NEW r \in Editors, CommitInvestigation(r)
        PROVE  IInv'
    <2>1. req[r] # Idle /\ Finish(r)
      BY <1>6 DEF CommitInvestigation, Idle
    <2>2. req[r].op \in Op /\ Allows(req[r].op)
      BY <1>6, <2>1 DEF CommitInvestigation, IInv, TypeOK, InFlight, RequestInv
    <2>3. /\ investigation' \in InvestigationRow
          /\ investigation'.status = "COMPLETED" => investigation'.root
      BY <1>6, <2>2 DEF CommitInvestigation, IInv, TypeOK, InvestigationRow, Op,
                        OfInvestigation, Allows, InvestigationAllows
    <2> QED  BY <1>6, <2>1, <2>3, FinishInv DEF CommitInvestigation, IInv, TypeOK
  <1>7. ASSUME NEW r \in Editors, CommitReport(r)
        PROVE  IInv'
    <2>1. req[r] # Idle /\ Finish(r)
      BY <1>7 DEF CommitReport, Idle
    <2>2. req[r].op \in Op
      BY <1>7, <2>1 DEF CommitReport, IInv, TypeOK, InFlight
    <2>3. report' \in [Reports -> ReportRow]
      <3>1. CASE req[r].op.kind = "createReport"
        <4>1. req[r].op.ob \in Obligations
          BY <2>2, <3>1 DEF Op
        <4> QED  BY <1>7, <3>1, <4>1, NewReportType DEF CommitReport, IInv
      <3>2. CASE req[r].op.kind # "createReport"
        <4>1. req[r].op.p \in Reports
          BY <1>7, <2>2, <3>2 DEF Op, CommitReport, OfReport
        <4>2. report[req[r].op.p] \in ReportRow
          BY <4>1 DEF IInv, TypeOK
        <4>3. PICK status \in {"SUBMITTED", "NOT_APPLICABLE", "CANCELED"} :
                report' = [report EXCEPT ![req[r].op.p].status = status]
          BY <1>7, <3>2 DEF CommitReport, OfReport
        <4>4. [report[req[r].op.p] EXCEPT !.status = status] \in ReportRow
          BY <4>2 DEF ReportRow
        <4> QED  BY <4>1, <4>3, <4>4 DEF IInv, TypeOK
      <3> QED  BY <3>1, <3>2
    <2> QED  BY <1>7, <2>1, <2>3, FinishInv DEF CommitReport, IInv, TypeOK
  <1>8. ASSUME NEW r \in Editors, BeginDerive(r)
        PROVE  IInv'
    <2>1. /\ req' \in [Editors -> InFlight \cup {Idle}]
          /\ \A x \in Editors \ {r} : req'[x] = Idle
          /\ req'[r] = Deriving
      BY <1>8, StartInv DEF BeginDerive, Deriving, InFlight
    <2>2. \A x \in Editors : RequestInv(x)'
      BY <2>1 DEF RequestInv, Idle, Deriving
    <2> QED  BY <1>8, <2>1, <2>2 DEF BeginDerive, IInv, TypeOK
  <1>9. ASSUME NEW r \in Editors, Derive(r)
        PROVE  IInv'
    <2>1. CASE Lacking = {}
      BY <1>9, <2>1, FinishInv DEF Derive, IInv, TypeOK, Idle
    <2>2. CASE Lacking # {}
      <3> DEFINE q == [pc |-> "derived", op |-> None, todo |-> Lacking]
      <3>1. Lacking \subseteq Obligations /\ Lacking \cap Reported = {}
        BY DEF Lacking, Applicable
      <3>2. /\ req[r] # Idle
            /\ req' = [req EXCEPT ![r] = q] /\ UNCHANGED RowVars
        BY <1>9, <2>2 DEF Derive, Idle, RowVars
      <3>3. q \in InFlight
        BY <3>1 DEF InFlight
      <3>4. /\ req' \in [Editors -> InFlight \cup {Idle}]
            /\ req'[r] = q /\ \A x \in Editors \ {r} : req'[x] = Idle
        BY <3>2, <3>3, OthersIdle DEF IInv, TypeOK
      <3>5. Reported' = Reported
        BY <3>2 DEF RowVars, Reported
      <3>6. \A x \in Editors : RequestInv(x)'
        BY <3>1, <3>4, <3>5 DEF RequestInv, Idle
      <3> QED  BY <3>2, <3>4, <3>6 DEF RowVars, IInv, TypeOK
    <2> QED  BY <2>1, <2>2
  <1>10. ASSUME NEW r \in Editors, NEW o \in Obligations, DeriveOne(r, o)
         PROVE  IInv'
    <2>1. req[r] # Idle
      BY <1>10 DEF DeriveOne, Idle
    <2>2. PICK p \in Free : report' =
              [report EXCEPT ![p] = [status |-> "PENDING", ob |-> o,
                                     late |-> incident.lifecycle # "OPEN"]]
      BY <1>10, NewReportType DEF DeriveOne, IInv
    <2>3. report' \in [Reports -> ReportRow]
      BY <1>10, NewReportType DEF DeriveOne, IInv
    <2>4. CASE req[r].todo = {o}
      BY <1>10, <2>1, <2>3, <2>4, FinishInv DEF DeriveOne, IInv, TypeOK
    <2>5. CASE req[r].todo # {o}
      <3>1. req' = [req EXCEPT ![r].todo = @ \ {o}]
        BY <1>10, <2>5 DEF DeriveOne
      <3>2. req[r] \in InFlight /\ req[r].pc = "derived"
        BY <1>10, <2>1 DEF DeriveOne, IInv, TypeOK
      <3>3. /\ req' \in [Editors -> InFlight \cup {Idle}]
            /\ \A x \in Editors \ {r} : req'[x] = Idle
            /\ req'[r] = [req[r] EXCEPT !.todo = @ \ {o}]
        BY <2>1, <3>1, <3>2, OthersIdle DEF IInv, TypeOK, InFlight
      <3>4. req[r].todo \cap Reported = {}
        BY <3>2 DEF IInv, RequestInv
      <3>5. Reported' \subseteq Reported \cup {o}
        BY <2>2 DEF Reported, Free, IInv, TypeOK
      <3>6. req'[r].pc = "derived" /\ req'[r].todo = req[r].todo \ {o}
        BY <3>2, <3>3 DEF InFlight
      <3>7. \A x \in Editors \ {r} : RequestInv(x)'
        BY <3>3 DEF RequestInv, Idle
      <3>8. RequestInv(r)'
        BY <3>3, <3>4, <3>5, <3>6 DEF RequestInv
      <3>9. \A x \in Editors : RequestInv(x)'
        BY <3>7, <3>8
      <3> QED  BY <1>10, <2>3, <3>3, <3>9 DEF DeriveOne, IInv, TypeOK
    <2> QED  BY <2>4, <2>5
  <1>11. ASSUME NEW r \in Editors, Abandon(r)
         PROVE  IInv'
    <2>1. req[r] # Idle /\ Finish(r)
      BY <1>11 DEF Abandon, Idle
    <2> QED  BY <1>11, <2>1, FinishInv DEF Abandon, IInv, TypeOK
  <1> QED  BY <1>1, <1>2, <1>3, <1>4, <1>5, <1>6, <1>7, <1>8, <1>9, <1>10, <1>11 DEF Next

(* The rows stay of their types, what a request checked holds when it      *)
(* writes, and no investigation is complete without a root cause.          *)
THEOREM IncidentInvariant ==
  ASSUME ~MayOverlap
  PROVE  Spec => []IInv
  <1>1. Init => IInv
    BY TypeInit
  <1>2. IInv /\ [Next]_vars => IInv'
    BY StepInv
  <1> QED  BY <1>1, <1>2, PTL DEF Spec

-----------------------------------------------------------------------------
(* What a step can do to the reports: nothing, add one of an obligation    *)
(* that had none, or settle or cancel one that is not canceled             *)
LEMMA ReportStep ==
  ASSUME IInv, Next
  PROVE  \/ report' = report
         \/ \E p \in Free, o \in Obligations \ Reported :
              report' = [report EXCEPT ![p] = [status |-> "PENDING", ob |-> o,
                                               late |-> incident.lifecycle # "OPEN"]]
         \/ \E p \in Reports, status \in {"SUBMITTED", "NOT_APPLICABLE", "CANCELED"} :
              /\ report[p].status \notin {"ABSENT", "CANCELED"}
              /\ incident.lifecycle # "OPEN" => status = "SUBMITTED"
              /\ report' = [report EXCEPT ![p].status = status]
  <1>1. ASSUME NEW r \in Editors, CommitReport(r)
        PROVE  \/ \E p \in Free, o \in Obligations \ Reported :
                    report' = [report EXCEPT ![p] =
                                 [status |-> "PENDING", ob |-> o,
                                  late |-> incident.lifecycle # "OPEN"]]
               \/ \E p \in Reports, status \in {"SUBMITTED", "NOT_APPLICABLE", "CANCELED"} :
                    /\ report[p].status \notin {"ABSENT", "CANCELED"}
                    /\ incident.lifecycle # "OPEN" => status = "SUBMITTED"
                    /\ report' = [report EXCEPT ![p].status = status]
    <2> DEFINE op == req[r].op
    <2>1. op \in Op /\ Allows(op) /\ op.kind \in OfReport
      BY <1>1 DEF CommitReport, IInv, TypeOK, InFlight, RequestInv, Idle
    <2>2. CASE op.kind = "createReport"
      <3>1. op.ob \in Obligations
        BY <2>1, <2>2 DEF Op
      <3>2. op.ob \notin Reported
        BY <2>1, <2>2 DEF Allows, ReportAllows, OfReport
      <3>3. Free # {} /\ report' = NewReport(op.ob)
        BY <1>1, <2>2 DEF CommitReport
      <3> HIDE DEF op
      <3>4. \E p \in Free : report' = [report EXCEPT ![p] =
              [status |-> "PENDING", ob |-> op.ob, late |-> incident.lifecycle # "OPEN"]]
        BY <3>1, <3>3, NewReportType DEF IInv
      <3> QED  BY <3>1, <3>2, <3>4
    <2>3. CASE op.kind # "createReport"
      <3>1. op.p \in Reports
        BY <2>1, <2>3 DEF Op, OfReport
      <3> DEFINE status == CASE op.kind = "submitReport"  -> "SUBMITTED"
                             [] op.kind = "notApplicable" -> "NOT_APPLICABLE"
                             [] op.kind = "cancelReport"  -> "CANCELED"
      <3>2. report' = [report EXCEPT ![op.p].status = status]
        BY <1>1, <2>3 DEF CommitReport
      <3>3. status \in {"SUBMITTED", "NOT_APPLICABLE", "CANCELED"}
        BY <2>1, <2>3 DEF OfReport
      <3>4. report[op.p].status \notin {"ABSENT", "CANCELED"}
        BY <2>1, <2>3 DEF Allows, ReportAllows, OfReport
      <3>5. incident.lifecycle # "OPEN" => status = "SUBMITTED"
        BY <2>1, <2>3 DEF Allows, Open, OfReport
      <3> HIDE DEF status
      <3> QED  BY <3>1, <3>2, <3>3, <3>4, <3>5
    <2> QED  BY <2>2, <2>3
  <1>2. ASSUME NEW r \in Editors, NEW o \in Obligations, DeriveOne(r, o)
        PROVE  \E p \in Free, u \in Obligations \ Reported :
                 report' = [report EXCEPT ![p] =
                              [status |-> "PENDING", ob |-> u,
                               late |-> incident.lifecycle # "OPEN"]]
    <2>1. o \notin Reported
      BY <1>2 DEF DeriveOne, IInv, RequestInv
    <2> QED  BY <1>2, <2>1, NewReportType DEF DeriveOne, IInv
  <1>3. ASSUME NEW r \in Editors,
               \/ \E severe, reportable \in BOOLEAN : Create(r, severe, reportable)
               \/ \E op \in Op : Begin(r, op)
               \/ CommitIncident(r) \/ CommitAction(r) \/ CommitInvestigation(r)
               \/ BeginDerive(r) \/ Derive(r) \/ Abandon(r)
        PROVE  report' = report
    BY <1>3 DEF Create, Begin, CommitIncident, CommitAction, CommitInvestigation,
                BeginDerive, Derive, Abandon
  <1> QED  BY <1>1, <1>2, <1>3 DEF Next

(* An obligation has at most one report that is not canceled.              *)
THEOREM ReportedOnce ==
  ASSUME ~MayOverlap
  PROVE  Spec => []OneReport
  <1>1. Init => OneReport
    BY DEF Init, OneReport, NoReport
  <1>2. IInv /\ OneReport /\ [Next]_vars => OneReport'
    <2> SUFFICES ASSUME IInv, OneReport, [Next]_vars PROVE OneReport'
      OBVIOUS
    <2>1. CASE report' = report
      BY <2>1 DEF OneReport
    <2>2. ASSUME NEW p \in Free, NEW o \in Obligations \ Reported, NEW late \in BOOLEAN,
                 report' = [report EXCEPT ![p] = [status |-> "PENDING", ob |-> o,
                                                  late |-> late]]
          PROVE  OneReport'
      <3>1. p \in Reports /\ report'[p].ob = o
        BY <2>2 DEF Free, IInv, TypeOK
      <3>2. \A q \in Reports \ {p} : report'[q] = report[q]
        BY <2>2 DEF IInv, TypeOK
      <3>3. \A q \in Reports : report[q].status \notin {"ABSENT", "CANCELED"} =>
                                 report[q].ob # o
        BY <2>2 DEF Reported
      <3> QED  BY <3>1, <3>2, <3>3 DEF OneReport
    <2>3. ASSUME NEW p \in Reports, NEW status \in {"SUBMITTED", "NOT_APPLICABLE", "CANCELED"},
                 report[p].status \notin {"ABSENT", "CANCELED"},
                 report' = [report EXCEPT ![p].status = status]
          PROVE  OneReport'
      <3>1. \A q \in Reports : report'[q].ob = report[q].ob
        BY <2>3 DEF IInv, TypeOK, ReportRow
      <3>2. \A q \in Reports :
              report'[q].status \notin {"ABSENT", "CANCELED"} =>
                report[q].status \notin {"ABSENT", "CANCELED"}
        BY <2>3 DEF IInv, TypeOK, ReportRow
      <3> QED  BY <3>1, <3>2 DEF OneReport
    <2>4. CASE UNCHANGED vars
      BY <2>1, <2>4 DEF vars
    <2> QED  BY <2>1, <2>2, <2>3, <2>4, ReportStep
  <1> QED  BY <1>1, <1>2, IncidentInvariant, PTL DEF Spec

-----------------------------------------------------------------------------
(* The three parts of ClosedResolved *)
ActionsResolved ==
  \A a \in Actions : action[a].mandatory =>
    /\ action[a].status \notin {"OPEN", "IN_PROGRESS"}
    /\ incident.type.capa => action[a].status # "DONE"

InvestigationResolved ==
  incident.type.investigation =>
    investigation.status = "COMPLETED" /\ investigation.root

ReportsResolved ==
  \A p \in Reports :
    report[p].status = "PENDING" /\ report[p].ob \in Mandatory => report[p].late

LEMMA ClosesResolved ==
  ASSUME MayClose
  PROVE  ActionsResolved /\ InvestigationResolved /\ ReportsResolved
  <1>1. ActionsResolved
    BY DEF MayClose, ActionsResolved, BlockingActions
  <1>2. InvestigationResolved
    BY DEF MayClose, InvestigationResolved, InvestigationPending
  <1>3. ReportsResolved
    BY DEF MayClose, ReportsResolved, BlockingReports
  <1> QED  BY <1>1, <1>2, <1>3

(* Who closes an incident found it resolved, and no other step leaves it   *)
(* closed and changes what the property is about but a late report         *)
LEMMA ClosedStep ==
  ASSUME IInv, Next, incident'.lifecycle = "CLOSED"
  PROVE  \/ MayClose /\ UNCHANGED <<action, investigation, report>>
            /\ incident'.type = incident.type
         \/ incident' = incident /\ UNCHANGED <<action, investigation>>
  <1>1. ASSUME NEW r \in Editors, CommitIncident(r)
        PROVE  /\ MayClose /\ UNCHANGED <<action, investigation, report>>
               /\ incident'.type = incident.type
    <2> DEFINE op == req[r].op
    <2>1. op \in Op /\ Allows(op)
      BY <1>1 DEF CommitIncident, IInv, TypeOK, InFlight, RequestInv, Idle
    <2>2. CASE op.kind = "transition"
      BY <1>1, <2>1, <2>2 DEF CommitIncident, IncidentAfter, Allows, IInv, TypeOK, IncidentRow
    <2>3. CASE op.kind = "cancel"
      BY <1>1, <2>3 DEF CommitIncident, IncidentAfter, IInv, TypeOK, IncidentRow
    <2>4. CASE op.kind = "update"
      BY <1>1, <2>1, <2>4 DEF CommitIncident, IncidentAfter, Allows, Open, IInv, TypeOK,
                              IncidentRow
    <2> QED  BY <1>1, <2>2, <2>3, <2>4 DEF CommitIncident
  <1>2. ASSUME NEW r \in Editors, CommitAction(r) \/ CommitInvestigation(r)
        PROVE  FALSE
    <2>1. req[r].op.kind \in OfAction \cup OfInvestigation /\ Allows(req[r].op)
      BY <1>2 DEF CommitAction, CommitInvestigation, IInv, RequestInv
    <2>2. incident.lifecycle = "OPEN"
      BY <2>1 DEF Allows, Open, OfAction, OfInvestigation
    <2> QED  BY <1>2, <2>2 DEF CommitAction, CommitInvestigation
  <1>3. ASSUME NEW r \in Editors, NEW severe \in BOOLEAN, NEW reportable \in BOOLEAN,
               Create(r, severe, reportable)
        PROVE  FALSE
    BY <1>3 DEF Create, IInv, TypeOK, IncidentRow
  <1>4. ASSUME NEW r \in Editors,
               \/ \E op \in Op : Begin(r, op)
               \/ CommitReport(r) \/ BeginDerive(r) \/ Derive(r)
               \/ (\E o \in Obligations : DeriveOne(r, o)) \/ Abandon(r)
        PROVE  incident' = incident /\ UNCHANGED <<action, investigation>>
    BY <1>4 DEF Begin, CommitReport, BeginDerive, Derive, DeriveOne, Abandon
  <1> QED  BY <1>1, <1>2, <1>3, <1>4 DEF Next

(* A closed incident stays resolved.                                       *)
THEOREM ClosedStaysResolved ==
  ASSUME ~MayOverlap
  PROVE  Spec => []ClosedResolved
  <1>1. Init => ClosedResolved
    BY DEF Init, ClosedResolved
  <1>2. IInv /\ ClosedResolved /\ [Next]_vars => ClosedResolved'
    <2> SUFFICES ASSUME IInv, ClosedResolved, Next, incident'.lifecycle = "CLOSED"
                 PROVE  ActionsResolved' /\ InvestigationResolved' /\ ReportsResolved'
      BY DEF vars, ClosedResolved, ActionsResolved, InvestigationResolved, ReportsResolved
    <2>1. CASE /\ MayClose /\ UNCHANGED <<action, investigation, report>>
               /\ incident'.type = incident.type
      BY <2>1, ClosesResolved DEF ActionsResolved, InvestigationResolved, ReportsResolved
    <2>2. CASE incident' = incident /\ UNCHANGED <<action, investigation>>
      <3>1. ActionsResolved /\ InvestigationResolved /\ ReportsResolved
        BY <2>2 DEF ClosedResolved, ActionsResolved, InvestigationResolved, ReportsResolved
      <3>2. ActionsResolved' /\ InvestigationResolved'
        BY <2>2, <3>1 DEF ActionsResolved, InvestigationResolved
      <3>3. ReportsResolved'
        <4>1. CASE report' = report
          BY <3>1, <4>1 DEF ReportsResolved
        <4>2. ASSUME NEW p \in Free, NEW o \in Obligations,
                     report' = [report EXCEPT ![p] = [status |-> "PENDING", ob |-> o,
                                                      late |-> incident.lifecycle # "OPEN"]]
              PROVE  ReportsResolved'
          <5>1. p \in Reports /\ report'[p].late = TRUE
            BY <2>2, <4>2 DEF Free, IInv, TypeOK
          <5>2. \A q \in Reports \ {p} : report'[q] = report[q]
            BY <4>2 DEF IInv, TypeOK
          <5> QED  BY <3>1, <5>1, <5>2 DEF ReportsResolved
        <4>3. ASSUME NEW p \in Reports,
                     NEW status \in {"SUBMITTED", "NOT_APPLICABLE", "CANCELED"},
                     report' = [report EXCEPT ![p].status = status]
              PROVE  ReportsResolved'
          <5>1. \A q \in Reports :
                  report'[q].status = "PENDING" => report'[q] = report[q]
            BY <4>3 DEF IInv, TypeOK, ReportRow
          <5> QED  BY <3>1, <5>1 DEF ReportsResolved
        <4> QED  BY <4>1, <4>2, <4>3, ReportStep
      <3> QED  BY <3>2, <3>3
    <2> QED  BY <2>1, <2>2, ClosedStep
  <1> QED  BY <1>1, <1>2, IncidentInvariant, PTL DEF Spec
=============================================================================
