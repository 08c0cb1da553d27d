------------------------------ MODULE Incidents ------------------------------
(***************************************************************************)
(* An incident from its report to its closing: the workflow that moves it, *)
(* its corrective actions, its root-cause investigation, its reports to    *)
(* authorities, and the three gates that hold back a closing while one of  *)
(* them is pending (IncidentsService, IncidentActionsService,              *)
(* IncidentInvestigationService, IncidentReportsService).                  *)
(*                                                                         *)
(* The rows are those of one incident: incidents share nothing.  A request *)
(* loads the rows, checks them and then writes by id, whatever they have   *)
(* become; a check that fails ends it with no effect and is no step here.  *)
(* Deriving the reports is a write of its own for each of them, and the    *)
(* process may stop in between.                                            *)
(*                                                                         *)
(* As in LogEntry, nothing in Next uses the variants that make a plausible *)
(* mistake.                                                                *)
(***************************************************************************)
EXTENDS Integers, FiniteSets

CONSTANTS
  States, InitialState, FinalStates, Flow,  \* the workflow: its graph
  Types,         \* types of incident: [capa, investigation]
  Actions,       \* ids of corrective actions
  Obligations,   \* active reporting obligations
  Mandatory,     \* those that hold back the closing
  SevereOnly,    \* those with a minimum severity
  Reports,       \* ids of reports
  Editors,       \* requests that can be in flight at once
  None,          \* null
  MayOverlap,    \* can two requests be in flight together?
  MayCrash       \* can the process stop between two writes of a request?

ASSUME FlowAssumption ==
  /\ InitialState \in States \ FinalStates /\ FinalStates \subseteq States
  /\ Flow \subseteq (States \ FinalStates) \X States
ASSUME CatalogAssumption ==
  /\ Types \subseteq [capa : BOOLEAN, investigation : BOOLEAN]
  /\ Mandatory \subseteq Obligations /\ SevereOnly \subseteq Obligations
ASSUME RequestAssumption ==
  None \notin Obligations /\ MayOverlap \in BOOLEAN /\ MayCrash \in BOOLEAN

VARIABLES
  incident,       \* the Incident row
  action,         \* its IncidentAction rows
  investigation,  \* its IncidentInvestigation row
  report,         \* its IncidentReport rows
  req             \* requests in flight

vars == <<incident, action, investigation, report, req>>

-----------------------------------------------------------------------------
IncidentRow ==
  [lifecycle : {"ABSENT", "OPEN", "CLOSED", "CANCELED"}, at : States,
   type : Types, severe : BOOLEAN]

ActionRow ==
  [status : {"ABSENT", "OPEN", "IN_PROGRESS", "DONE", "VERIFIED", "CANCELED"},
   mandatory : BOOLEAN]

(* root: is some step of the chain marked as a root cause? *)
InvestigationRow == [status : {"ABSENT", "DRAFT", "COMPLETED"}, root : BOOLEAN]

(* late: created when the incident was closed or canceled already *)
ReportRow ==
  [status : {"ABSENT", "PENDING", "SUBMITTED", "NOT_APPLICABLE", "CANCELED"},
   ob : Obligations \cup {None}, late : BOOLEAN]

NoReport == [status |-> "ABSENT", ob |-> None, late |-> FALSE]

Op ==
       [kind : {"cancel", "completeInvestigation", "reopenInvestigation"}]
  \cup [kind : {"transition"}, to : States]
  \cup [kind : {"update"}, severe : BOOLEAN]
  \cup [kind : {"createAction"}, a : Actions, mandatory : BOOLEAN]
  \cup [kind : {"updateAction"}, a : Actions, mandatory : BOOLEAN,
        status : {"OPEN", "IN_PROGRESS", "unchanged"}]
  \cup [kind : {"completeAction", "cancelAction"}, a : Actions]
  \cup [kind : {"verifyAction"}, a : Actions, effective : BOOLEAN]
  \cup [kind : {"investigate"}, root : BOOLEAN]
  \cup [kind : {"createReport"}, ob : Obligations]
  \cup [kind : {"submitReport", "notApplicable", "cancelReport"}, p : Reports]

Idle == [pc |-> "idle", op |-> None, todo |-> {}]
InFlight ==
       [pc : {"write"}, op : Op, todo : {{}}]
  \cup [pc : {"derive", "derived"}, op : {None}, todo : SUBSET Obligations]

TypeOK ==
  /\ incident \in IncidentRow
  /\ action \in [Actions -> ActionRow]
  /\ investigation \in InvestigationRow
  /\ report \in [Reports -> ReportRow]
  /\ req \in [Editors -> InFlight \cup {Idle}]

Init ==
  /\ incident \in [lifecycle : {"ABSENT"}, at : {InitialState}, type : Types,
                   severe : {FALSE}]
  /\ action = [a \in Actions |-> [status |-> "ABSENT", mandatory |-> FALSE]]
  /\ investigation = [status |-> "ABSENT", root |-> FALSE]
  /\ report = [p \in Reports |-> NoReport]
  /\ req = [r \in Editors |-> Idle]

-----------------------------------------------------------------------------
(* What holds back a closing *)

(* blockingActionsForClose: a DONE one too, if its efficacy is to be       *)
(* verified                                                                *)
BlockingActions ==
  {a \in Actions :
     /\ action[a].mandatory
     /\ \/ action[a].status \in {"OPEN", "IN_PROGRESS"}
        \/ action[a].status = "DONE" /\ incident.type.capa}

(* investigationBlocksClose *)
InvestigationPending ==
  /\ incident.type.investigation
  /\ ~(investigation.status = "COMPLETED" /\ investigation.root)

(* reportsBlockingClose *)
BlockingReports ==
  {p \in Reports : report[p].status = "PENDING" /\ report[p].ob \in Mandatory}

MayClose == BlockingActions = {} /\ ~InvestigationPending /\ BlockingReports = {}

-----------------------------------------------------------------------------
(* The reports an incident has and those it lacks *)

(* applicableObligationsFor *)
Applicable == {o \in Obligations : o \in SevereOnly => incident.severe}

ReportedPending == {report[p].ob : p \in {q \in Reports : report[q].status = "PENDING"}}

Reported == {report[p].ob : p \in {q \in Reports :
                                     report[q].status \notin {"ABSENT", "CANCELED"}}}

Free == {p \in Reports : report[p].status = "ABSENT"}

NewReport(o) ==
  [report EXCEPT ![CHOOSE p \in Free : TRUE] =
     [status |-> "PENDING", ob |-> o, late |-> incident.lifecycle # "OPEN"]]

-----------------------------------------------------------------------------
(* What a request checks when it loads the rows *)

Open == incident.lifecycle = "OPEN"

ActionAllows(op) ==
  CASE op.kind = "createAction"   -> action[op.a].status = "ABSENT"
    [] op.kind = "completeAction" -> action[op.a].status \in {"OPEN", "IN_PROGRESS"}
    [] op.kind = "verifyAction"   -> action[op.a].status = "DONE"
    [] op.kind \in {"updateAction", "cancelAction"} ->
         action[op.a].status \notin {"ABSENT", "VERIFIED", "CANCELED"}

InvestigationAllowsEmpty(op) ==
  CASE op.kind = "investigate"           -> investigation.status # "COMPLETED"
    [] op.kind = "completeInvestigation" -> investigation.status = "DRAFT"
    [] op.kind = "reopenInvestigation"   -> investigation.status = "COMPLETED"

InvestigationAllows(op) ==
  CASE op.kind = "investigate"           -> investigation.status # "COMPLETED"
    [] op.kind = "completeInvestigation" ->
         investigation.status = "DRAFT" /\ investigation.root
    [] op.kind = "reopenInvestigation"   -> investigation.status = "COMPLETED"

ReportAllows(op) ==
  CASE op.kind = "createReport" -> op.ob \notin Reported
    [] op.kind \in {"submitReport", "notApplicable"} -> report[op.p].status = "PENDING"
    [] op.kind = "cancelReport" -> report[op.p].status \notin {"ABSENT", "CANCELED"}

OfAction == {"createAction", "updateAction", "completeAction", "verifyAction",
             "cancelAction"}
OfInvestigation == {"investigate", "completeInvestigation", "reopenInvestigation"}
OfReport == {"createReport", "submitReport", "notApplicable", "cancelReport"}

AllowsRework(op) ==
  /\ incident.lifecycle # "ABSENT"
  /\ op.kind = "cancel" => incident.lifecycle # "CANCELED"
  /\ op.kind \notin {"cancel", "submitReport", "verifyAction"} => Open
  /\ op.kind = "transition" =>
       <<incident.at, op.to>> \in Flow /\ (op.to \in FinalStates => MayClose)
  /\ op.kind \in OfAction => ActionAllows(op)
  /\ op.kind \in OfInvestigation => InvestigationAllows(op)
  /\ op.kind \in OfReport => ReportAllows(op)

(* A report can still be submitted when the incident is closed *)
Allows(op) ==
  /\ incident.lifecycle # "ABSENT"
  /\ op.kind = "cancel" => incident.lifecycle # "CANCELED"
  /\ op.kind \notin {"cancel", "submitReport"} => Open
  /\ op.kind = "transition" =>
       <<incident.at, op.to>> \in Flow /\ (op.to \in FinalStates => MayClose)
  /\ op.kind \in OfAction => ActionAllows(op)
  /\ op.kind \in OfInvestigation => InvestigationAllows(op)
  /\ op.kind \in OfReport => ReportAllows(op)

Alone == \A x \in Editors : req[x] = Idle

Start(r, q) ==
  /\ req[r] = Idle /\ (MayOverlap \/ Alone)
  /\ req' = [req EXCEPT ![r] = q]

Begin(r, op) ==
  /\ Allows(op) /\ Start(r, [pc |-> "write", op |-> op, todo |-> {}])
  /\ UNCHANGED <<incident, action, investigation, report>>

Finish(r) == req' = [req EXCEPT ![r] = Idle]

(* Refused for want of permission, scope, signature or a free id, or the   *)
(* process stops: a derivation may have written some of its reports        *)
Abandon(r) ==
  /\ req[r].pc = "write" \/ (MayCrash /\ req[r] # Idle)
  /\ Finish(r) /\ UNCHANGED <<incident, action, investigation, report>>

-----------------------------------------------------------------------------
(* What it writes *)

(* transition writes the lifecycle whatever it was *)
IncidentAfter(op) ==
  CASE op.kind = "transition" ->
         [incident EXCEPT !.at = op.to,
            !.lifecycle = IF op.to \in FinalStates THEN "CLOSED" ELSE "OPEN"]
    [] op.kind = "cancel" -> [incident EXCEPT !.lifecycle = "CANCELED"]
    [] op.kind = "update" -> [incident EXCEPT !.severe = op.severe]

CommitIncident(r) ==
  LET op == req[r].op IN
  /\ req[r].pc = "write" /\ op.kind \in {"transition", "cancel", "update"}
  /\ incident' = IncidentAfter(op)
  /\ Finish(r) /\ UNCHANGED <<action, investigation, report>>

(* An action found not effective goes back to work *)
StatusAfter(op) ==
  CASE op.kind = "createAction"   -> "OPEN"
    [] op.kind = "updateAction"   -> IF op.status = "unchanged"
                                     THEN action[op.a].status ELSE op.status
    [] op.kind = "completeAction" -> "DONE"
    [] op.kind = "verifyAction"   -> IF op.effective THEN "VERIFIED" ELSE "IN_PROGRESS"
    [] op.kind = "cancelAction"   -> "CANCELED"

CommitAction(r) ==
  LET op == req[r].op IN
  /\ req[r].pc = "write" /\ op.kind \in OfAction
  /\ action' = [action EXCEPT ![op.a].status = StatusAfter(op),
                  ![op.a].mandatory = IF op.kind \in {"createAction", "updateAction"}
                                      THEN op.mandatory ELSE @]
  /\ Finish(r) /\ UNCHANGED <<incident, investigation, report>>

CommitInvestigation(r) ==
  LET op == req[r].op IN
  /\ req[r].pc = "write" /\ op.kind \in OfInvestigation
  /\ investigation' =
       CASE op.kind = "investigate" ->
              [status |-> IF investigation.status = "ABSENT" THEN "DRAFT"
                          ELSE investigation.status, root |-> op.root]
         [] op.kind = "completeInvestigation" ->
              [investigation EXCEPT !.status = "COMPLETED"]
         [] op.kind = "reopenInvestigation" -> [investigation EXCEPT !.status = "DRAFT"]
  /\ Finish(r) /\ UNCHANGED <<incident, action, report>>

CommitReport(r) ==
  LET op == req[r].op IN
  /\ req[r].pc = "write" /\ op.kind \in OfReport
  /\ IF op.kind = "createReport"
     THEN Free # {} /\ report' = NewReport(op.ob)
     ELSE report' = [report EXCEPT ![op.p].status =
                       CASE op.kind = "submitReport"  -> "SUBMITTED"
                         [] op.kind = "notApplicable" -> "NOT_APPLICABLE"
                         [] op.kind = "cancelReport"  -> "CANCELED"]
  /\ Finish(r) /\ UNCHANGED <<incident, action, investigation>>

-----------------------------------------------------------------------------
(* create, and materializeForIncident, which it calls for a reportable     *)
(* incident and which users call at any time to derive the reports again   *)

Deriving == [pc |-> "derive", op |-> None, todo |-> {}]

Create(r, severe, reportable) ==
  /\ incident.lifecycle = "ABSENT"
  /\ incident' = [incident EXCEPT !.lifecycle = "OPEN", !.severe = severe]
  /\ Start(r, IF reportable THEN Deriving ELSE Idle)
  /\ UNCHANGED <<action, investigation, report>>

BeginDerive(r) ==
  /\ incident.lifecycle # "ABSENT" /\ Start(r, Deriving)
  /\ UNCHANGED <<incident, action, investigation, report>>

Lacking == Applicable \ Reported

Derive(r) ==
  /\ req[r].pc = "derive"
  /\ IF Lacking = {} THEN Finish(r)
     ELSE req' = [req EXCEPT ![r] = [pc |-> "derived", op |-> None, todo |-> Lacking]]
  /\ UNCHANGED <<incident, action, investigation, report>>

DeriveOne(r, o) ==
  /\ req[r].pc = "derived" /\ o \in req[r].todo /\ Free # {}
  /\ report' = NewReport(o)
  /\ IF req[r].todo = {o} THEN Finish(r)
     ELSE req' = [req EXCEPT ![r].todo = @ \ {o}]
  /\ UNCHANGED <<incident, action, investigation>>

-----------------------------------------------------------------------------
Next ==
  \E r \in Editors :
    \/ \E severe, reportable \in BOOLEAN : Create(r, severe, reportable)
    \/ \E op \in Op : Begin(r, op)
    \/ CommitIncident(r) \/ CommitAction(r) \/ CommitInvestigation(r)
    \/ CommitReport(r)
    \/ BeginDerive(r) \/ Derive(r) \/ \E o \in Obligations : DeriveOne(r, o)
    \/ Abandon(r)

Spec == Init /\ [][Next]_vars

-----------------------------------------------------------------------------
(* A closed incident stays resolved, whatever is asked of it later: no     *)
(* mandatory action is open again nor, where the type asks for it,         *)
(* unverified; the investigation that the type asks for is complete and    *)
(* names a root cause; no mandatory report is pending but those derived    *)
(* when it was closed already (assertNoBlockingActions,                    *)
(* assertInvestigationComplete, assertNoBlockingReports, and the lifecycle *)
(* check that each of the other operations makes for itself).              *)
ClosedResolved ==
  incident.lifecycle = "CLOSED" =>
    /\ \A a \in Actions : action[a].mandatory =>
         /\ action[a].status \notin {"OPEN", "IN_PROGRESS"}
         /\ incident.type.capa => action[a].status # "DONE"
    /\ incident.type.investigation =>
         investigation.status = "COMPLETED" /\ investigation.root
    /\ \A p \in Reports :
         report[p].status = "PENDING" /\ report[p].ob \in Mandatory => report[p].late

(* An authority is told once: as often as the reports are derived again,   *)
(* added by hand, canceled or cut short, an incident has at most one       *)
(* report of an obligation that is not canceled (materializeForIncident,   *)
(* create).                                                                *)
OneReport ==
  \A p, q \in Reports :
    /\ report[p].status \notin {"ABSENT", "CANCELED"}
    /\ report[q].status \notin {"ABSENT", "CANCELED"}
    /\ report[p].ob = report[q].ob
    => p = q

(* Their inductive strengthening, for requests one after the other: what a *)
(* request checked still holds when it writes, what it derives is lacking  *)
(* still, and no investigation was completed without a root cause.         *)
RequestInv(r) ==
  /\ req[r] # Idle => \A x \in Editors \ {r} : req[x] = Idle
  /\ req[r].pc = "write" => Allows(req[r].op)
  /\ req[r].pc = "derived" => req[r].todo \cap Reported = {}

IInv ==
  /\ TypeOK
  /\ investigation.status = "COMPLETED" => investigation.root
  /\ \A r \in Editors : RequestInv(r)
=============================================================================
