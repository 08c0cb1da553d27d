----------------------------- MODULE WorkOrders -----------------------------
(***************************************************************************)
(* A work order and its permit to work: the order's stage, its plan of     *)
(* activities, its checklists, its roster, and the gates of transition     *)
(* that relate them (WorkOrdersService, WorkActivitiesService,             *)
(* WorkOrderChecklistsService, WorkOrderRosterService).                    *)
(*                                                                         *)
(* The rows are those of one order: orders share nothing but the folio     *)
(* counter, which LogEntry models.  As there, a handler LOADS the order,   *)
(* CHECKS its guards against it and against what it reads next, and        *)
(* COMMITS by id, without testing again.  What follows the commit (deriving *)
(* the checklists of the new stage, withdrawing a confirmation that no      *)
(* longer matches) is made of further writes of the same request.          *)
(*                                                                         *)
(* Permissions, node scope, signatures, the segregation of reviewer and    *)
(* responsible, competencies, and whether the entry behind a checklist is  *)
(* sealed, only refuse a request: they are the action Reject.  As in       *)
(* LogEntry, nothing in Next uses the variants that make a plausible       *)
(* mistake.                                                                *)
(***************************************************************************)
EXTENDS Integers, FiniteSets

CONSTANTS
  Requests,      \* HTTP requests that can be in flight at once
  Activities,    \* ids of activities; one removed is not used again
  Templates,     \* templates of checklists
  Workers,       \* people that can be on the roster
  States,        \* stages of the order's workflow
  InitialState,  \* its initial stage
  FinalStates,   \* its final stages
  Transitions,   \* its transitions: [from, to]
  Types,         \* types of order
  NewType,       \* the one the order is created with, whose workflow it keeps
  Stages,        \* per type, the stages where approving, freezing the plan,
                 \* deriving checklists, authorising the permit and so on
                 \* happen; None when the workflow does not have the stage
  AfterApproval, \* the stages that lie beyond gate 1 for an order of NewType
  AfterFreeze,   \* and those beyond gate 3
  Rules,         \* checklist rules: [t, moment, mandatory, ptw], where ptw
                 \* stands for all that a rule may ask of the order's fields
  Retypes,       \* bound: the changes of type users make: [at, to], a stage and
                 \* a type
  ManualRows,    \* bound: rows users add by hand
  ManualMoments, \* bound: moments they choose for rows of the order
  None,          \* null
  MayOverlap,    \* can two requests be in flight together?
  MayCrash       \* can the process stop between two writes of a request?

Moments == {"AUTHORIZATION", "EXECUTION", "CLOSURE"}

(* A checklist is named by its template and the activity it was created     *)
(* for, None when it is the order's                                        *)
Rows == Templates \X (Activities \cup {None})

(* The keys that a type gives its stages, for the workflow of the order    *)
FolioState(type)   == Stages[type].folio
FreezeState(type)  == Stages[type].freeze
SuggestState(type) == Stages[type].suggest
GateState(type)    == Stages[type].gate
ExecuteState(type) == Stages[type].execute
ClosureState(type) == Stages[type].closure

ASSUME NoneAssumption == None \notin Activities \cup States \cup Types \cup BOOLEAN
ASSUME FlowAssumption ==
  /\ Transitions \subseteq [from : States, to : States]
  /\ InitialState \in States /\ FinalStates \subseteq States
  /\ NewType \in Types
  /\ Stages \in
       [Types -> [folio : States \cup {None}, freeze : States \cup {None},
                  suggest : States \cup {None}, gate : States \cup {None},
                  execute : States \cup {None}, closure : States \cup {None}]]
(* The workflow leads beyond gate 1 by the stage that issues the folio     *)
(* only; beyond gate 3 by the one that freezes the plan or, should it have *)
(* a shortcut, by the one where execution starts, which tests the plan.    *)
ASSUME GateAssumption ==
  /\ InitialState \notin AfterApproval \cup AfterFreeze
  /\ \A t \in Transitions :
       /\ t.to \in AfterApproval => t.from \in AfterApproval \/ t.to = FolioState(NewType)
       /\ t.to \in AfterFreeze =>
            t.from \in AfterFreeze \/ t.to \in {FreezeState(NewType), ExecuteState(NewType)}
(* Where any type derives checklists or approves, the order is not closed. *)
ASSUME ClosingAssumption ==
  \A y \in Types :
    {FolioState(y), SuggestState(y), ExecuteState(y), ClosureState(y)} \cap FinalStates = {}
(* The stages where the permit stands.  They lie beyond the one that        *)
(* prepares it and are entered by gate 2, or by the shortcut to execution   *)
(* from a stage whose plan is not frozen; nothing leads back from beyond    *)
(* gate 3.                                                                 *)
Permitted ==
  {GateState(NewType), ExecuteState(NewType), ClosureState(NewType)} \ {None}
ASSUME PermitAssumption ==
  /\ SuggestState(NewType) \notin Permitted
  /\ FreezeState(NewType) \in AfterFreeze \cup {None}
  /\ \A t \in Transitions :
       /\ t.from \in AfterFreeze => t.to \in AfterFreeze
       /\ t.to \in Permitted =>
            \/ t.from \in Permitted \/ t.to = GateState(NewType)
            \/ t.to = ExecuteState(NewType) /\ t.from \notin AfterFreeze
ASSUME RuleAssumption ==
  /\ Rules \subseteq [t : Templates, moment : Moments, mandatory : BOOLEAN, ptw : BOOLEAN]
  /\ ManualRows \subseteq Rows /\ ManualMoments \subseteq Moments
  /\ Retypes \subseteq [at : States, to : Types]
ASSUME BoundAssumption == MayOverlap \in BOOLEAN /\ MayCrash \in BOOLEAN

VARIABLES
  order,     \* the WorkOrder row
  activity,  \* its WorkActivity rows
  check,     \* its WorkOrderChecklist rows
  roster,    \* its WorkOrderWorker rows that are not removed
  req,       \* requests in flight
  seen,      \* history: the set and the roster their approvers confirmed
  cut        \* history: the confirmations, of the set or of the roster, that
             \* a request left standing when it stopped short of withdrawing

rows == <<order, activity, check, roster>>
vars == <<rows, req, seen, cut>>

-----------------------------------------------------------------------------
(* Rows *)

OrderRow ==
  [lifecycle : {"ABSENT", "DRAFT", "OPEN", "CLOSED", "CANCELED"},
   cur : States, canceled : BOOLEAN,      \* canceledAt
   approved : BOOLEAN, folio : BOOLEAN,   \* approvedAt, folio
   frozen : BOOLEAN, ptw : BOOLEAN,       \* planFrozenAt, requiresPtw
   type : Types, retyped : BOOLEAN,       \* typeId; history: did an update change it?
   setOk : BOOLEAN, rosterOk : BOOLEAN]   \* executionSetConfirmedAt, rosterConfirmedAt

(* OPEN stands for PENDING, IN_PROGRESS and BLOCKED *)
ActivityRow ==
  [status : {"ABSENT", "REMOVED", "OPEN", "DONE", "CANCELED"}, mandatory : BOOLEAN]

(* PENDING stands for PENDING and REJECTED; IN_PROGRESS for IN_PROGRESS and *)
(* SUBMITTED, so that submit, which asks that the entry be sealed, changes *)
(* nothing here and comes down to review being refused                     *)
CheckRow ==
  [status : {"ABSENT", "PENDING", "IN_PROGRESS", "APPROVED"},
   moment : Moments, mandatory : BOOLEAN]

NoCheck == [status |-> "ABSENT", moment |-> "AUTHORIZATION", mandatory |-> FALSE]
NoActivity == [status |-> "ABSENT", mandatory |-> FALSE]

Confirmed == [set : SUBSET Rows, roster : SUBSET Workers]

(* What a request asks for *)
Op ==
       [kind : {"cancel", "suggest", "confirmSet", "confirmRoster"}]
  \cup [kind : {"transition"}, t : Transitions]
  \cup [kind : {"update"}, ptw : BOOLEAN]
  \cup [kind : {"retype"}, type : Types]    \* update too: a request that gives
                                           \* both does one, then the other
  \cup [kind : {"addActivity"}, a : Activities, mandatory : BOOLEAN]
  \cup [kind : {"editActivity"}, a : Activities, mandatory : BOOLEAN,
        status : {"OPEN", "DONE", "CANCELED"}]
  \cup [kind : {"removeActivity"}, a : Activities]
  \cup [kind : {"progress"}, a : Activities, status : {"OPEN", "DONE", "CANCELED"}]
  \cup [kind : {"addManual"}, c : ManualRows, moment : Moments]
  \cup [kind : {"removeCheck", "instantiate"}, c : Rows]
  \cup [kind : {"review"}, c : Rows, approve : BOOLEAN]
  \cup [kind : {"addWorker", "removeWorker"}, w : Workers]

(* A request in flight: its step, what it asks for, the order it read, the  *)
(* set and roster it found when it checked, the stage it derives           *)
(* checklists for and whether that grew the execution set                  *)
Idle == [pc |-> "idle", op |-> None, row |-> None, saw |-> None,
         state |-> None, grown |-> FALSE]
InFlight ==
  [pc : {"loaded", "ready", "derive", "clearSet", "clearRoster"},
   op : Op, row : OrderRow, saw : Confirmed \cup {None},
   state : States \cup {None}, grown : BOOLEAN]

TypeOK ==
  /\ order \in OrderRow
  /\ activity \in [Activities -> ActivityRow]
  /\ check \in [Rows -> CheckRow]
  /\ roster \in SUBSET Workers
  /\ req \in [Requests -> InFlight \cup {Idle}]
  /\ seen \in Confirmed
  /\ cut \in SUBSET {"set", "roster"}

Init ==
  /\ order = [lifecycle |-> "ABSENT", cur |-> InitialState, canceled |-> FALSE,
              approved |-> FALSE, folio |-> FALSE, frozen |-> FALSE,
              ptw |-> FALSE, type |-> NewType, retyped |-> FALSE,
              setOk |-> FALSE, rosterOk |-> FALSE]
  /\ activity = [a \in Activities |-> NoActivity]
  /\ check = [c \in Rows |-> NoCheck]
  /\ roster = {}
  /\ req = [r \in Requests |-> Idle]
  /\ seen = [set |-> {}, roster |-> {}]
  /\ cut = {}

-----------------------------------------------------------------------------
(* The shape of a request *)

Active(row) == row.lifecycle \in {"DRAFT", "OPEN"}

ExecutionSet == {c \in Rows : check[c].status # "ABSENT" /\ check[c].moment = "EXECUTION"}

Current == [set |-> ExecutionSet, roster |-> roster]

Step(r, kind, pc) == req[r].pc = pc /\ req[r].op.kind = kind

Finish(r) == req' = [req EXCEPT ![r] = Idle]

Goto(r, pc) == req' = [req EXCEPT ![r].pc = pc]

(* Refused by a guard, or by what is left out of the model *)
Reject(r) ==
  /\ req[r].pc \in {"loaded", "ready"}
  /\ Finish(r) /\ UNCHANGED <<rows, seen, cut>>

(* A request that is about to withdraw a confirmation *)
ClearsSet(q) == q.pc = "clearSet" \/ (q.pc = "derive" /\ q.grown)
ClearsRoster(q) == q.pc = "clearRoster"

(* A request that stops, or whose next write fails, leaves what it wrote,  *)
(* and standing the confirmation it was about to withdraw                  *)
Crash(r) ==
  /\ MayCrash /\ req[r].pc \in {"derive", "clearSet", "clearRoster"}
  /\ cut' = cut \cup {x \in {"set", "roster"} :
                        \/ x = "set" /\ order.setOk /\ ClearsSet(req[r])
                        \/ x = "roster" /\ order.rosterOk /\ ClearsRoster(req[r])}
  /\ Finish(r) /\ UNCHANGED <<rows, seen>>

-----------------------------------------------------------------------------
(* LOAD: every handler reads the order and refuses, by that row alone ...  *)

(* assertEditable, assertProgressable *)
Editable(row) == Active(row) /\ ~row.frozen
Progressable(row) == Active(row) /\ row.frozen

Allows(row, op) ==
  \/ op.kind = "transition" /\ Active(row) /\ op.t.from = row.cur
  \/ op.kind = "cancel" /\ row.lifecycle # "CANCELED"
  \/ op.kind \in {"addActivity", "editActivity", "removeActivity"} /\ Editable(row)
  \/ op.kind \in {"progress", "confirmSet"} /\ Progressable(row)
  \/ op.kind \in {"update", "addManual", "instantiate", "addWorker", "removeWorker",
                  "confirmRoster"} /\ Active(row)
  \/ op.kind = "retype" /\ Active(row) /\ [at |-> row.cur, to |-> op.type] \in Retypes
  \/ op.kind \in {"suggest", "removeCheck", "review"}

-----------------------------------------------------------------------------
(* ... CHECK: then by what it reads next                                   *)

Exists(c) == check[c].status # "ABSENT"
InPlan(a) == activity[a].status \notin {"ABSENT", "REMOVED"}

(* An activity that is removed leaves its checklists to the order          *)
(* (onDelete: SetNull)                                                     *)
OfActivity(c, a) == c[2] = a /\ InPlan(a)
OfOrder(c) == \A a \in Activities : ~OfActivity(c, a)

(* What addManual and the derivation call the same checklist *)
Duplicate(c) ==
  \E d \in Rows : /\ Exists(d) /\ d[1] = c[1]
                  /\ IF OfOrder(c) THEN OfOrder(d) ELSE OfActivity(d, c[2])

(* assertActivitiesComplete, assertChecklistsCompleteForMoment,            *)
(* assertActivityExecutionComplete                                         *)
ActivitiesComplete ==
  \A a \in Activities : InPlan(a) /\ activity[a].mandatory => activity[a].status # "OPEN"
Blocking(c) == Exists(c) /\ check[c].mandatory /\ check[c].status # "APPROVED"
ChecklistsComplete(moment) ==
  \A c \in Rows : check[c].moment = moment => ~Blocking(c)
ExecutionComplete(a) ==
  \A c \in Rows : check[c].moment = "EXECUTION" /\ OfActivity(c, a) => ~Blocking(c)

(* The gates of a transition, with the row the request read: 2 authorises  *)
(* the permit, 3 freezes the plan, 4 closes the order                      *)
PermitGateUndocumented ==
  /\ roster # {} => order.rosterOk
  /\ ExecutionSet # {} => order.setOk

PermitGate ==
  /\ roster # {} => order.rosterOk
  /\ ChecklistsComplete("AUTHORIZATION")
  /\ ExecutionSet # {} => order.setOk

CloseGateNoBackstop == ActivitiesComplete /\ ChecklistsComplete("CLOSURE")

CloseGate ==
  /\ ActivitiesComplete
  /\ ChecklistsComplete("EXECUTION") /\ ChecklistsComplete("CLOSURE")

(* assertPlanReadyToFreeze *)
PlanReady == \E a \in Activities : InPlan(a) /\ activity[a].status # "CANCELED"

(* No execution without a frozen plan, even if the workflow has a shortcut *)
ExecutesAnything(q) == TRUE

Executable(q) == q.op.t.to = ExecuteState(q.row.type) => q.row.frozen

Gates(q) ==
  LET to == q.op.t.to IN
  /\ to = GateState(q.row.type) => PermitGate
  /\ to = FreezeState(q.row.type) /\ ~q.row.frozen => PlanReady
  /\ Executable(q)
  /\ to \in FinalStates /\ q.row.approved => CloseGate

Passes(q) ==
  LET op == q.op IN
  /\ op.kind = "transition" => Gates(q)
  /\ op.kind = "addActivity" => activity[op.a].status = "ABSENT"
  /\ op.kind \in {"editActivity", "removeActivity"} => InPlan(op.a)
  /\ op.kind = "progress" =>
       /\ InPlan(op.a) /\ activity[op.a].status # "CANCELED"
       /\ op.status = "DONE" /\ activity[op.a].status # "DONE" => ExecutionComplete(op.a)
  /\ op.kind = "addManual" =>
       /\ ~Exists(op.c) /\ ~Duplicate(op.c)
       /\ IF op.c[2] = None THEN op.moment \in ManualMoments
          ELSE OfActivity(op.c, op.c[2]) /\ op.moment = "EXECUTION"
  /\ op.kind = "removeCheck" => Exists(op.c) /\ ~check[op.c].mandatory
  /\ op.kind = "instantiate" => check[op.c].status = "PENDING"
  /\ op.kind = "review" => check[op.c].status = "IN_PROGRESS"
  /\ op.kind = "addWorker" => op.w \notin roster
  /\ op.kind = "removeWorker" => op.w \in roster
  /\ op.kind = "confirmSet" => ExecutionSet # {}
  /\ op.kind = "confirmRoster" => roster # {}

(* Where requests follow one another, one that is bound to be refused is   *)
(* left out                                                                *)
Load(r, op) ==
  LET q == [Idle EXCEPT !.pc = "loaded", !.op = op, !.row = order] IN
  /\ req[r] = Idle /\ order.lifecycle # "ABSENT" /\ Allows(order, op)
  /\ MayOverlap \/ (Passes(q) /\ \A x \in Requests : req[x] = Idle)
  /\ req' = [req EXCEPT ![r] = q]
  /\ UNCHANGED <<rows, seen, cut>>

Check(r) ==
  /\ req[r].pc = "loaded" /\ Passes(req[r])
  /\ req' = [req EXCEPT ![r].pc = "ready", ![r].saw = Current,
                        ![r].state = order.cur]
  /\ UNCHANGED <<rows, seen, cut>>

-----------------------------------------------------------------------------
(* COMMIT of a transition: one transaction, by id                          *)

IsApproval(q) == q.op.t.to = FolioState(q.row.type) /\ ~q.row.approved

(* deriveWorkOrderLifecycle *)
LifecycleAfter(q) ==
  IF q.row.canceled THEN "CANCELED"
  ELSE IF q.op.t.to \in FinalStates
       THEN IF q.row.approved \/ IsApproval(q) THEN "CLOSED" ELSE "CANCELED"
  ELSE IF q.op.t.to = InitialState THEN "DRAFT" ELSE "OPEN"

Moved(q) ==
  [order EXCEPT !.cur = q.op.t.to,
                !.lifecycle = LifecycleAfter(q),
                !.approved = @ \/ IsApproval(q),
                !.folio = @ \/ (q.op.t.to = FolioState(q.row.type) /\ ~q.row.folio),
                !.frozen = @ \/ q.op.t.to = FreezeState(q.row.type)]

CommitTransition(r) ==
  /\ Step(r, "transition", "ready")
  /\ order' = Moved(req[r])
  /\ req' = [req EXCEPT ![r].pc = "derive", ![r].state = req[r].op.t.to]
  /\ UNCHANGED <<activity, check, roster, seen, cut>>

-----------------------------------------------------------------------------
(* materializeForState, after a transition or by suggest: the checklists   *)
(* that the rules ask for in the stage and that do not exist, one a write  *)

Applicable(moment) ==
  {rule \in Rules : rule.moment = moment /\ (rule.ptw => order.ptw)}

(* The order's own; a rule whose template is there already adds nothing    *)
OrderRows(moment) ==
  {[c |-> <<rule.t, None>>, rule |-> rule] : rule \in Applicable(moment)}

(* Those of each activity that is not CANCELED                             *)
ExecutionRows ==
  {[c |-> <<rule.t, a>>, rule |-> rule] :
     rule \in Applicable("EXECUTION"),
     a \in {b \in Activities : InPlan(b) /\ activity[b].status # "CANCELED"}}

Wanted(state) ==
       IF state = ClosureState(order.type) THEN OrderRows("CLOSURE")
  ELSE IF state = SuggestState(order.type)
       THEN OrderRows("AUTHORIZATION") \cup IF order.frozen THEN ExecutionRows ELSE {}
  ELSE IF state = ExecuteState(order.type) /\ order.frozen THEN ExecutionRows ELSE {}

Missing(state) == {w \in Wanted(state) : ~Exists(w.c) /\ ~Duplicate(w.c)}

Derived(w) == [status |-> "PENDING", moment |-> w.rule.moment,
               mandatory |-> w.rule.mandatory]

GrowsSilently(q, w) == q.grown

Grows(q, w) == q.grown \/ w.rule.moment = "EXECUTION"

DeriveOne(r, w) ==
  /\ req[r].pc = "derive" /\ w \in Missing(req[r].state)
  /\ check' = [check EXCEPT ![w.c] = Derived(w)]
  /\ req' = [req EXCEPT ![r].grown = Grows(req[r], w)]
  /\ UNCHANGED <<order, activity, roster, seen, cut>>

DeriveEnd(r) ==
  /\ req[r].pc = "derive" /\ Missing(req[r].state) = {}
  /\ IF req[r].grown THEN Goto(r, "clearSet") ELSE Finish(r)
  /\ UNCHANGED <<rows, seen, cut>>

BeginSuggest(r) ==
  /\ Step(r, "suggest", "ready")
  /\ Goto(r, "derive") /\ UNCHANGED <<rows, seen, cut>>

-----------------------------------------------------------------------------
(* COMMIT of what touches the order's row *)

(* create: a request in the initial stage of the workflow *)
Create(ptw) ==
  /\ order.lifecycle = "ABSENT"
  /\ order' = [order EXCEPT !.lifecycle = "DRAFT", !.ptw = ptw]
  /\ UNCHANGED <<activity, check, roster, req, seen, cut>>

CommitCancel(r) ==
  /\ Step(r, "cancel", "ready")
  /\ order' = [order EXCEPT !.lifecycle = "CANCELED", !.canceled = TRUE]
  /\ Finish(r) /\ UNCHANGED <<activity, check, roster, seen, cut>>

(* update: the type can change, and the workflow does not change with it   *)
CommitUpdate(r) ==
  /\ Step(r, "update", "ready")
  /\ order' = [order EXCEPT !.ptw = req[r].op.ptw]
  /\ Finish(r) /\ UNCHANGED <<activity, check, roster, seen, cut>>

CommitRetype(r) ==
  LET type == req[r].op.type IN
  /\ Step(r, "retype", "ready")
  /\ order' = [order EXCEPT !.type = type, !.retyped = @ \/ type # order.type]
  /\ Finish(r) /\ UNCHANGED <<activity, check, roster, seen, cut>>

CommitConfirmSet(r) ==
  /\ Step(r, "confirmSet", "ready")
  /\ order' = [order EXCEPT !.setOk = TRUE]
  /\ seen' = [seen EXCEPT !.set = req[r].saw.set] /\ cut' = cut \ {"set"}
  /\ Finish(r) /\ UNCHANGED <<activity, check, roster>>

CommitConfirmRoster(r) ==
  /\ Step(r, "confirmRoster", "ready")
  /\ order' = [order EXCEPT !.rosterOk = TRUE]
  /\ seen' = [seen EXCEPT !.roster = req[r].saw.roster] /\ cut' = cut \ {"roster"}
  /\ Finish(r) /\ UNCHANGED <<activity, check, roster>>

(* clearExecutionConfirmation, clearRosterConfirmation *)
ClearSet(r) ==
  /\ req[r].pc = "clearSet"
  /\ order' = [order EXCEPT !.setOk = FALSE]
  /\ seen' = [seen EXCEPT !.set = {}] /\ cut' = cut \ {"set"}
  /\ Finish(r) /\ UNCHANGED <<activity, check, roster>>

ClearRoster(r) ==
  /\ req[r].pc = "clearRoster"
  /\ order' = [order EXCEPT !.rosterOk = FALSE]
  /\ seen' = [seen EXCEPT !.roster = {}] /\ cut' = cut \ {"roster"}
  /\ Finish(r) /\ UNCHANGED <<activity, check, roster>>

-----------------------------------------------------------------------------
(* COMMIT of what touches the plan, the checklists and the roster; a row   *)
(* that is gone by then makes the write fail                               *)

Planned(op) ==
  CASE op.kind = "addActivity"    -> [status |-> "OPEN", mandatory |-> op.mandatory]
    [] op.kind = "editActivity"   -> [status |-> op.status, mandatory |-> op.mandatory]
    [] op.kind = "removeActivity" -> [status |-> "REMOVED", mandatory |-> FALSE]
    [] op.kind = "progress"       -> [activity[op.a] EXCEPT !.status = op.status]

CommitActivity(r) ==
  LET op == req[r].op IN
  /\ req[r].pc = "ready"
  /\ op.kind \in {"addActivity", "editActivity", "removeActivity", "progress"}
  /\ activity[op.a].status # "REMOVED"
  /\ activity' = [activity EXCEPT ![op.a] = Planned(op)]
  /\ Finish(r) /\ UNCHANGED <<order, check, roster, seen, cut>>

(* instantiate, review *)
NextStatus(op) ==
  CASE op.kind = "instantiate" -> "IN_PROGRESS"
    [] op.kind = "review"      -> IF op.approve THEN "APPROVED" ELSE "PENDING"

CommitCheck(r) ==
  LET op == req[r].op IN
  /\ req[r].pc = "ready" /\ op.kind \in {"instantiate", "review"}
  /\ Exists(op.c)
  /\ check' = [check EXCEPT ![op.c].status = NextStatus(op)]
  /\ Finish(r) /\ UNCHANGED <<order, activity, roster, seen, cut>>

(* Adding and removing a row of the execution set withdraws the            *)
(* confirmation with a write of its own                                    *)
AfterCurating(r, moment) ==
  IF moment = "EXECUTION" THEN Goto(r, "clearSet") ELSE Finish(r)

CommitAddManual(r) ==
  LET op == req[r].op IN
  /\ Step(r, "addManual", "ready") /\ ~Exists(op.c)
  /\ check' = [check EXCEPT ![op.c] = [status |-> "PENDING", moment |-> op.moment,
                                       mandatory |-> FALSE]]
  /\ AfterCurating(r, op.moment)
  /\ UNCHANGED <<order, activity, roster, seen, cut>>

CommitRemoveCheck(r) ==
  LET op == req[r].op IN
  /\ Step(r, "removeCheck", "ready") /\ Exists(op.c)
  /\ check' = [check EXCEPT ![op.c] = NoCheck]
  /\ AfterCurating(r, check[op.c].moment)
  /\ UNCHANGED <<order, activity, roster, seen, cut>>

CommitWorker(r) ==
  LET op == req[r].op IN
  /\ req[r].pc = "ready" /\ op.kind \in {"addWorker", "removeWorker"}
  /\ roster' = IF op.kind = "addWorker" THEN roster \cup {op.w} ELSE roster \ {op.w}
  /\ Goto(r, "clearRoster")
  /\ UNCHANGED <<order, activity, check, seen, cut>>

-----------------------------------------------------------------------------
Continue(r) ==
  \/ Check(r) \/ Reject(r) \/ Crash(r)
  \/ CommitTransition(r) \/ BeginSuggest(r) \/ DeriveEnd(r)
  \/ \E state \in {req[r].state} \cap States : \E w \in Missing(state) : DeriveOne(r, w)
  \/ CommitCancel(r) \/ CommitUpdate(r) \/ CommitRetype(r)
  \/ CommitConfirmSet(r) \/ CommitConfirmRoster(r) \/ ClearSet(r) \/ ClearRoster(r)
  \/ CommitActivity(r) \/ CommitCheck(r)
  \/ CommitAddManual(r) \/ CommitRemoveCheck(r) \/ CommitWorker(r)

Next ==
  \/ \E ptw \in BOOLEAN : Create(ptw)
  \/ \E r \in Requests : Continue(r) \/ \E op \in Op : Load(r, op)

Spec == Init /\ [][Next]_vars

-----------------------------------------------------------------------------
(* Properties that hold however the requests interleave *)

(* Gates 1, 3 and 4 hold of a row: an order whose type was never changed   *)
(* is approved beyond approval and has its plan frozen beyond the freeze;  *)
(* of every order, approval and folio go together, the confirmation of the *)
(* execution set is of a frozen plan, a CLOSED one was approved and is in a *)
(* final stage, and only the initial stage is DRAFT.                       *)
RowGates(row) ==
  /\ ~row.retyped =>
       /\ row.type = NewType
       /\ row.cur \in AfterApproval => row.approved
       /\ row.cur \in AfterFreeze => row.frozen
  /\ row.approved <=> row.folio
  /\ row.setOk => row.frozen
  /\ row.lifecycle = "CLOSED" => row.cur \in FinalStates /\ row.approved
  /\ row.lifecycle \in {"ABSENT", "DRAFT"} => row.cur = InitialState

(* The gates hold of the stored row although transition tests them, and    *)
(* decides what to write, on a row that may have changed since.            *)
GatesHold == RowGates(order)

(* Its inductive strengthening: a row that a request remembers kept the    *)
(* gates, and can be behind the stored one only by being less advanced.    *)
SnapshotTrails(q, row) ==
  q.pc \in {"loaded", "ready"} =>
    /\ RowGates(q.row)
    /\ q.row.approved => row.approved
    /\ q.row.frozen => row.frozen
    /\ q.row.retyped => row.retyped
    /\ q.op.kind = "transition" => q.op.t.from = q.row.cur
    /\ q.op.kind = "confirmSet" => q.row.frozen
    /\ q.pc = "ready" => q.saw \in Confirmed
    /\ q.pc = "ready" /\ q.op.kind = "transition" => Executable(q)

IInv ==
  /\ TypeOK /\ GatesHold
  /\ \A r \in Requests : SnapshotTrails(req[r], order)

-----------------------------------------------------------------------------
(* Properties of requests that follow one another *)

(* What is applied is what was authorised: while a confirmation stands,    *)
(* the execution set and the roster are the ones the approver saw, unless  *)
(* a request is about to withdraw it, or stopped when it was, and nobody   *)
(* has confirmed or changed them since.                                    *)
AppliedIsAuthorised ==
  /\ order.setOk => \/ seen.set = ExecutionSet
                    \/ \E r \in Requests : ClearsSet(req[r])
                    \/ "set" \in cut
  /\ order.rosterOk => \/ seen.roster = roster
                       \/ \E r \in Requests : ClearsRoster(req[r])
                       \/ "roster" \in cut

(* The same without the excuse of a stop, which is what the comment of the *)
(* gate (work-orders.service.ts:398-401) gives confirming for.             *)
ConfirmedIsApplied ==
  /\ order.setOk => \/ seen.set = ExecutionSet
                    \/ \E r \in Requests : ClearsSet(req[r])
  /\ order.rosterOk => \/ seen.roster = roster
                       \/ \E r \in Requests : ClearsRoster(req[r])

(* A CLOSED order has no mandatory activity open and no mandatory          *)
(* execution or closure checklist that is not approved, although both can  *)
(* be re-opened, added and derived again until the last moment.            *)
ClosedComplete ==
  order.lifecycle = "CLOSED" =>
    /\ ActivitiesComplete
    /\ ChecklistsComplete("EXECUTION") /\ ChecklistsComplete("CLOSURE")

(* From the permit on, every mandatory authorisation checklist of an order *)
(* whose type was never changed is approved: none can be derived,          *)
(* withdrawn or sent back behind the gate, also when the order is returned *)
(* to the plan and prepared again.                                         *)
PermitDocumented ==
  ~order.retyped /\ order.cur \in Permitted => ChecklistsComplete("AUTHORIZATION")

(* What docs/USER_GUIDE.md:611 says of a mandatory rule, that it blocks    *)
(* gate 2: an order beyond the permit has, for every mandatory             *)
(* authorisation rule that applies to it, an approved checklist.           *)
RulesBindGate ==
  order.cur = GateState(order.type) =>
    \A rule \in Applicable("AUTHORIZATION") : rule.mandatory =>
      \E c \in Rows : c[1] = rule.t /\ check[c].status = "APPROVED"

(* What the comments of transition (401, 405) give the gate for: while the *)
(* work is executed its checklists and its roster are the confirmed ones.  *)
WorkAsAuthorised ==
  order.cur = ExecuteState(order.type) /\ (\A r \in Requests : req[r] = Idle) =>
    /\ ExecutionSet # {} => order.setOk
    /\ roster # {} => order.rosterOk

(* What its comment of 416-418 says of the guard, that nothing is executed *)
(* without a plan: an order in the stage of execution has its plan frozen. *)
ExecutedPlanFrozen == order.cur = ExecuteState(order.type) => order.frozen

=============================================================================
