-------------------------- MODULE WorkOrdersProofs --------------------------
(***************************************************************************)
(* Proofs about WorkOrders, for any workflow whose gates cannot be gone    *)
(* round and any number of activities, checklists and workers.             *)
(*                                                                         *)
(* However the requests interleave or stop, the gates hold of the stored   *)
(* row (IInv).  When they follow one another, and although each may stop   *)
(* between two writes: a confirmation stands for what its approver saw     *)
(* or is one that a stop left (SerialInv), a closed order is complete, and *)
(* the permit of one that keeps its type stays documented (Gated).         *)
(***************************************************************************)
EXTENDS WorkOrders, TLAPS

(* What each kind of request carries.                                      *)
LEMMA OpParts ==
  ASSUME NEW op \in Op
  PROVE  /\ op.kind = "transition" => op.t \in Transitions
         /\ op.kind = "update" => op.ptw \in BOOLEAN
         /\ op.kind = "retype" => op.type \in Types
         /\ op.kind \in {"addActivity", "editActivity", "removeActivity", "progress"} =>
              op.a \in Activities
         /\ op.kind \in {"addActivity", "editActivity"} => op.mandatory \in BOOLEAN
         /\ op.kind \in {"editActivity", "progress"} => op.status \in {"OPEN", "DONE", "CANCELED"}
         /\ op.kind = "addManual" => op.c \in ManualRows /\ op.moment \in Moments
         /\ op.kind \in {"removeCheck", "instantiate", "review"} => op.c \in Rows
         /\ op.kind = "review" => op.approve \in BOOLEAN
         /\ op.kind \in {"addWorker", "removeWorker"} => op.w \in Workers
  BY DEF Op

(* What a request at work remembers, and what it was checked against.      *)
LEMMA RequestParts ==
  ASSUME IInv, NEW r \in Requests, req[r].pc # "idle"
  PROVE  /\ req[r] \in InFlight /\ req[r].op \in Op /\ req[r].row \in OrderRow
         /\ req[r].saw \in Confirmed \cup {None} /\ req[r].state \in States \cup {None}
         /\ req[r].grown \in BOOLEAN
         /\ req[r].pc \in {"loaded", "ready", "derive", "clearSet", "clearRoster"}
         /\ SnapshotTrails(req[r], order)
<1>1. req[r] \in InFlight
  BY DEF IInv, TypeOK, Idle
<1> QED BY <1>1 DEF IInv, InFlight

(* A step of one request keeps the invariant when it leaves rows and the   *)
(* request well typed, takes back neither the approval nor the freeze, and *)
(* leaves the gates standing: what the others remember still trails.       *)
LEMMA StepKeeps ==
  ASSUME IInv, NEW r \in Requests, NEW q \in InFlight \cup {Idle},
         req' = [req EXCEPT ![r] = q], SnapshotTrails(q, order'),
         order' \in OrderRow, RowGates(order'),
         order.approved => order'.approved, order.frozen => order'.frozen,
         order.retyped => order'.retyped,
         activity' \in [Activities -> ActivityRow], check' \in [Rows -> CheckRow],
         roster' \in SUBSET Workers, seen' \in Confirmed,
         cut' \in SUBSET {"set", "roster"}
  PROVE  IInv'
<1>1. req' \in [Requests -> InFlight \cup {Idle}]
  BY DEF IInv, TypeOK
<1>2. \A p \in Requests : SnapshotTrails(req'[p], order')
  <2> SUFFICES ASSUME NEW p \in Requests PROVE SnapshotTrails(req'[p], order')
    OBVIOUS
  <2>1. CASE p = r
    BY <2>1 DEF IInv, TypeOK
  <2>2. CASE p # r
    <3>1. req'[p] = req[p] /\ SnapshotTrails(req[p], order)
      BY <2>2 DEF IInv, TypeOK
    <3> QED BY <3>1 DEF SnapshotTrails
  <2> QED BY <2>1, <2>2
<1> QED BY <1>1, <1>2 DEF IInv, TypeOK, GatesHold

(* The same for a step that leaves the order's row alone and moves the     *)
(* request on, or ends it.                                                 *)
LEMMA RowsKeep ==
  ASSUME IInv, NEW r \in Requests, NEW q \in InFlight \cup {Idle},
         req' = [req EXCEPT ![r] = q], SnapshotTrails(q, order), UNCHANGED order,
         activity' \in [Activities -> ActivityRow], check' \in [Rows -> CheckRow],
         roster' \in SUBSET Workers, seen' \in Confirmed,
         cut' \in SUBSET {"set", "roster"}
  PROVE  IInv'
  BY StepKeeps DEF IInv, TypeOK, GatesHold

(* A request that is done, or has only follow-ups left, remembers nothing  *)
(* that must trail.                                                        *)
LEMMA TrailsNothing ==
  ASSUME NEW row, NEW q, q.pc \notin {"loaded", "ready"}
  PROVE  SnapshotTrails(q, row)
  BY DEF SnapshotTrails

LEMMA IdleTrails == ASSUME NEW row PROVE SnapshotTrails(Idle, row)
  BY DEF SnapshotTrails, Idle

(* A request moved to a follow-up keeps its type.                          *)
LEMMA FollowUp ==
  ASSUME IInv, NEW r \in Requests, req[r].pc # "idle",
         NEW pc \in {"derive", "clearSet", "clearRoster"}, Goto(r, pc)
  PROVE  \E q \in InFlight : /\ req' = [req EXCEPT ![r] = q]
                             /\ \A row : SnapshotTrails(q, row)
<1> DEFINE q == [req[r] EXCEPT !.pc = pc]
<1>1. q \in InFlight /\ q.pc = pc
  BY RequestParts DEF InFlight
<1>2. \A row : SnapshotTrails(q, row)
  BY <1>1, TrailsNothing
<1>3. req' = [req EXCEPT ![r] = q]
  BY DEF Goto, IInv, TypeOK
<1> QED BY <1>1, <1>2, <1>3

-----------------------------------------------------------------------------
(* A request that ends, with rows that are well typed.                     *)
LEMMA FinishKeeps ==
  ASSUME IInv, NEW r \in Requests, Finish(r), UNCHANGED order,
         activity' \in [Activities -> ActivityRow], check' \in [Rows -> CheckRow],
         roster' \in SUBSET Workers, seen' \in Confirmed,
         cut' \in SUBSET {"set", "roster"}
  PROVE  IInv'
  BY RowsKeep, IdleTrails DEF Finish

LEMMA FollowUpKeeps ==
  ASSUME IInv, NEW r \in Requests, req[r].pc # "idle",
         NEW pc \in {"derive", "clearSet", "clearRoster"}, Goto(r, pc), UNCHANGED order,
         activity' \in [Activities -> ActivityRow], check' \in [Rows -> CheckRow],
         roster' \in SUBSET Workers, seen' \in Confirmed,
         cut' \in SUBSET {"set", "roster"}
  PROVE  IInv'
<1>1. PICK q \in InFlight : /\ req' = [req EXCEPT ![r] = q]
                            /\ \A row : SnapshotTrails(q, row)
  BY FollowUp
<1> QED BY <1>1, RowsKeep

(* Loading: what is remembered is the row itself.                          *)
LEMMA LoadKeeps ==
  ASSUME IInv, NEW r \in Requests, NEW op \in Op, Load(r, op) PROVE IInv'
<1> DEFINE q == [Idle EXCEPT !.pc = "loaded", !.op = op, !.row = order]
<1>1. q \in InFlight /\ q.pc = "loaded" /\ q.op = op /\ q.row = order
  BY DEF Idle, InFlight, IInv, TypeOK
<1>2. SnapshotTrails(q, order)
  BY <1>1 DEF SnapshotTrails, IInv, GatesHold, Load, Allows, Progressable
<1>3. req' = [req EXCEPT ![r] = q] /\ UNCHANGED <<rows, seen, cut>>
  BY DEF Load
<1> QED BY <1>1, <1>2, <1>3, RowsKeep DEF IInv, TypeOK, rows

(* Checking: no one starts execution but with a frozen plan.               *)
LEMMA CheckKeeps ==
  ASSUME IInv, NEW r \in Requests, Check(r) PROVE IInv'
<1> DEFINE q == [req[r] EXCEPT !.pc = "ready", !.saw = Current, !.state = order.cur]
<1>1. req[r].pc = "loaded" /\ Passes(req[r])
  BY DEF Check
<1>2. Current \in Confirmed /\ order.cur \in States
  BY DEF Current, Confirmed, ExecutionSet, IInv, TypeOK, OrderRow
<1>3. /\ q \in InFlight /\ q.pc = "ready" /\ q.op = req[r].op /\ q.row = req[r].row
      /\ q.saw \in Confirmed
  BY <1>1, <1>2, RequestParts DEF InFlight
<1>4. SnapshotTrails(req[r], order)
  BY DEF IInv
<1>5. q.op.kind = "transition" => Executable(q)
  BY <1>1, <1>3 DEF Passes, Gates, Executable
<1>6. SnapshotTrails(q, order)
  BY <1>1, <1>3, <1>4, <1>5 DEF SnapshotTrails
<1>7. req' = [req EXCEPT ![r] = q] /\ UNCHANGED <<rows, seen, cut>>
  BY DEF Check
<1> QED BY <1>3, <1>6, <1>7, RowsKeep DEF IInv, TypeOK, rows

-----------------------------------------------------------------------------
(* The transition: the row it writes passed the gates, whatever the row it *)
(* finds has become since the request read it.                             *)
(* What the gates say of one row, one by one.                              *)
LEMMA GateParts ==
  ASSUME NEW w, RowGates(w)
  PROVE  /\ ~w.retyped => /\ w.type = NewType
                          /\ w.cur \in AfterApproval => w.approved
                          /\ w.cur \in AfterFreeze => w.frozen
         /\ w.approved <=> w.folio
         /\ w.setOk => w.frozen
  BY Zenon DEF RowGates

LEMMA MovedGates ==
  ASSUME IInv, NEW r \in Requests, Step(r, "transition", "ready")
  PROVE  /\ Moved(req[r]) \in OrderRow /\ RowGates(Moved(req[r]))
         /\ order.approved => Moved(req[r]).approved
         /\ order.frozen => Moved(req[r]).frozen
         /\ order.retyped => Moved(req[r]).retyped
<1> DEFINE q == req[r]
           to == q.op.t.to
           new == Moved(q)
           folio == FolioState(q.row.type)
           freeze == FreezeState(q.row.type)
<1>1. q.pc = "ready" /\ q.op.kind = "transition" /\ q.row \in OrderRow
  BY RequestParts DEF Step
<1>2. q.op.t \in Transitions
  BY <1>1, RequestParts, OpParts
<1>3. to \in States /\ q.op.t.from = q.row.cur
  BY <1>1, <1>2, FlowAssumption, RequestParts DEF SnapshotTrails
<1>4. /\ RowGates(q.row)
      /\ q.row.approved => order.approved
      /\ q.row.frozen => order.frozen
      /\ q.row.retyped => order.retyped
      /\ to = ExecuteState(q.row.type) => q.row.frozen
  BY <1>1, RequestParts DEF SnapshotTrails, Executable
<1>5. order \in OrderRow /\ RowGates(order)
  BY DEF IInv, TypeOK, GatesHold
<1>6. LifecycleAfter(q) \in {"CLOSED", "CANCELED", "DRAFT", "OPEN"}
  BY DEF LifecycleAfter
<1>15. /\ new.cur = to /\ new.lifecycle = LifecycleAfter(q)
       /\ new.canceled = order.canceled /\ new.ptw = order.ptw
       /\ new.setOk = order.setOk /\ new.rosterOk = order.rosterOk
       /\ new.type = order.type /\ new.retyped = order.retyped
  BY <1>5 DEF Moved, OrderRow
<1>16. /\ new.approved = (order.approved \/ IsApproval(q))
       /\ new.folio = (order.folio \/ (to = folio /\ ~q.row.folio))
       /\ new.frozen = (order.frozen \/ to = freeze)
  BY <1>5 DEF Moved, OrderRow
<1>18. IsApproval(q) <=> to = folio /\ ~q.row.approved
  BY DEF IsApproval
<1>7. /\ new.approved <=> order.approved \/ (to = folio /\ ~q.row.approved)
      /\ new.folio <=> order.folio \/ (to = folio /\ ~q.row.folio)
      /\ new.frozen <=> order.frozen \/ to = freeze
  BY <1>16, <1>18, Zenon
<1>8. new \in OrderRow
  <2> DEFINE a == order.approved \/ IsApproval(q)
             f == order.folio \/ (to = folio /\ ~q.row.folio)
             z == order.frozen \/ to = freeze
             l == LifecycleAfter(q)
  <2>1. a \in BOOLEAN /\ f \in BOOLEAN /\ z \in BOOLEAN
    BY Zenon
  <2>2. l \in {"ABSENT", "DRAFT", "OPEN", "CLOSED", "CANCELED"}
    BY <1>6
  <2>3. new = [order EXCEPT !.cur = to, !.lifecycle = l, !.approved = a,
                            !.folio = f, !.frozen = z]
    BY DEF Moved
  <2>4. to \in States /\ order \in OrderRow
    BY <1>3, <1>5
  <2> HIDE DEF a, f, z, l, new, to, q
  <2>5. [order EXCEPT !.cur = to, !.lifecycle = l, !.approved = a,
                      !.folio = f, !.frozen = z] \in OrderRow
    BY <2>1, <2>2, <2>4 DEF OrderRow
  <2> QED BY <2>3, <2>5
<1>21. ~new.retyped => new.type = NewType /\ q.row.type = NewType /\ ~q.row.retyped
  BY <1>4, <1>5, <1>15, GateParts
<1>9. ~new.retyped /\ new.cur \in AfterApproval => new.approved
  <2>1. SUFFICES ASSUME ~new.retyped, to \in AfterApproval PROVE new.approved
    BY <1>15
  <2>2. q.row.cur \in AfterApproval \/ to = folio
    BY <2>1, <1>2, <1>3, <1>21, GateAssumption
  <2>3. q.row.cur \in AfterApproval => q.row.approved
    BY <2>1, <1>4, <1>21, GateParts
  <2> QED BY <2>2, <2>3, <1>4, <1>7, Zenon
<1>10. new.approved <=> new.folio
  <2>1. (q.row.approved <=> q.row.folio) /\ (order.approved <=> order.folio)
    BY <1>4, <1>5, GateParts
  <2> QED BY <2>1, <1>4, <1>7, Zenon
<1>11. ~new.retyped /\ new.cur \in AfterFreeze => new.frozen
  <2>1. SUFFICES ASSUME ~new.retyped, to \in AfterFreeze PROVE new.frozen
    BY <1>15
  <2>2. \/ q.row.cur \in AfterFreeze
        \/ to = freeze \/ to = ExecuteState(q.row.type)
    BY <2>1, <1>2, <1>3, <1>21, GateAssumption
  <2>3. q.row.cur \in AfterFreeze => q.row.frozen
    BY <2>1, <1>4, <1>21, GateParts
  <2> QED BY <2>2, <2>3, <1>4, <1>7, Zenon
<1>12. new.lifecycle = "CLOSED" => new.cur \in FinalStates /\ new.approved
  <2>1. LifecycleAfter(q) = "CLOSED" =>
          to \in FinalStates /\ (q.row.approved \/ IsApproval(q))
    BY DEF LifecycleAfter
  <2> QED BY <2>1, <1>4, <1>7, <1>15, <1>18, Zenon
<1>13. new.lifecycle \in {"ABSENT", "DRAFT"} => new.cur = InitialState
  BY <1>15 DEF LifecycleAfter
<1>14. new.setOk => new.frozen
  BY <1>5, <1>7, <1>15, GateParts, Zenon
<1>19. /\ order.approved => new.approved
       /\ order.frozen => new.frozen
       /\ order.retyped => new.retyped
  BY <1>7, <1>15
<1>20. RowGates(new)
  <2> HIDE DEF new
  <2> QED BY <1>9, <1>10, <1>11, <1>12, <1>13, <1>14, <1>21, Zenon DEF RowGates
<1> QED BY <1>8, <1>19, <1>20, Zenon

LEMMA TransitionKeeps ==
  ASSUME IInv, NEW r \in Requests, CommitTransition(r) PROVE IInv'
<1> DEFINE q == [req[r] EXCEPT !.pc = "derive", !.state = req[r].op.t.to]
<1>1. Step(r, "transition", "ready") /\ order' = Moved(req[r])
      /\ req' = [req EXCEPT ![r] = q] /\ UNCHANGED <<activity, check, roster, seen, cut>>
  BY DEF CommitTransition
<1>2. req[r].op.t.to \in States
  BY <1>1, RequestParts, OpParts, FlowAssumption DEF Step
<1>3. q \in InFlight /\ q.pc = "derive"
  BY <1>1, <1>2, RequestParts DEF Step, InFlight
<1>4. SnapshotTrails(q, order')
  BY <1>3, TrailsNothing
<1>5. /\ order' \in OrderRow /\ RowGates(order')
      /\ order.approved => order'.approved
      /\ order.frozen => order'.frozen
      /\ order.retyped => order'.retyped
  BY <1>1, MovedGates
<1>6. /\ activity' \in [Activities -> ActivityRow] /\ check' \in [Rows -> CheckRow]
      /\ roster' \in SUBSET Workers /\ seen' \in Confirmed
      /\ cut' \in SUBSET {"set", "roster"}
  BY <1>1 DEF IInv, TypeOK
<1> HIDE DEF q
<1> QED BY <1>1, <1>3, <1>4, <1>5, <1>6, StepKeeps

-----------------------------------------------------------------------------
(* The other writes of the order's row                                     *)

LEMMA CreateKeeps ==
  ASSUME IInv, NEW ptw \in BOOLEAN, Create(ptw) PROVE IInv'
<1>1. order \in OrderRow /\ RowGates(order) /\ order.lifecycle = "ABSENT"
  BY DEF IInv, TypeOK, GatesHold, Create
<1>2. order' \in OrderRow /\ RowGates(order')
      /\ order'.approved = order.approved /\ order'.frozen = order.frozen
      /\ order'.retyped = order.retyped
  BY <1>1 DEF Create, OrderRow, RowGates
<1>3. \A r \in Requests : SnapshotTrails(req[r], order')
  BY <1>2 DEF IInv, SnapshotTrails
<1> QED BY <1>2, <1>3 DEF IInv, TypeOK, GatesHold, Create

LEMMA OrderWritesKeep ==
  ASSUME IInv, NEW r \in Requests,
         \/ CommitCancel(r) \/ CommitUpdate(r) \/ CommitRetype(r) \/ CommitConfirmSet(r)
         \/ CommitConfirmRoster(r) \/ ClearSet(r) \/ ClearRoster(r)
  PROVE  IInv'
<1>1. order \in OrderRow /\ RowGates(order) /\ req[r].pc # "idle" /\ seen \in Confirmed
  BY DEF IInv, TypeOK, GatesHold, CommitCancel, CommitUpdate, CommitRetype, CommitConfirmSet,
     CommitConfirmRoster, ClearSet, ClearRoster, Step
<1>2. CommitUpdate(r) => req[r].op.ptw \in BOOLEAN
  BY <1>1, RequestParts, OpParts DEF CommitUpdate, Step
<1>8. CommitRetype(r) => req[r].op.type \in Types
  BY <1>1, RequestParts, OpParts DEF CommitRetype, Step
<1>3. CommitConfirmSet(r) => order.frozen /\ req[r].saw \in Confirmed
  BY <1>1, RequestParts DEF CommitConfirmSet, Step, SnapshotTrails
<1>4. CommitConfirmRoster(r) => req[r].saw \in Confirmed
  BY <1>1, RequestParts DEF CommitConfirmRoster, Step, SnapshotTrails
<1>5. /\ order' \in OrderRow /\ RowGates(order')
      /\ order'.approved = order.approved /\ order'.frozen = order.frozen
      /\ order.retyped => order'.retyped
  <2>1. CASE CommitCancel(r)
    BY <1>1, <2>1 DEF CommitCancel, OrderRow, RowGates
  <2>2. CASE CommitUpdate(r)
    BY <1>1, <1>2, <2>2 DEF CommitUpdate, OrderRow, RowGates
  <2>3. CASE CommitConfirmSet(r)
    BY <1>1, <1>3, <2>3 DEF CommitConfirmSet, OrderRow, RowGates
  <2>4. CASE CommitConfirmRoster(r)
    BY <1>1, <2>4 DEF CommitConfirmRoster, OrderRow, RowGates
  <2>5. CASE ClearSet(r)
    BY <1>1, <2>5 DEF ClearSet, OrderRow, RowGates
  <2>6. CASE ClearRoster(r)
    BY <1>1, <2>6 DEF ClearRoster, OrderRow, RowGates
  <2>7. CASE CommitRetype(r)
    <3> DEFINE type == req[r].op.type
               re == order.retyped \/ type # order.type
    <3>1. /\ order' = [order EXCEPT !.type = type, !.retyped = re]
          /\ type \in Types /\ re \in BOOLEAN
      BY <1>8, <2>7 DEF CommitRetype
    <3>2. (~re => type = order.type /\ ~order.retyped) /\ (order.retyped => re)
      OBVIOUS
    <3> HIDE DEF re, type
    <3>3. /\ order' \in OrderRow /\ order'.retyped = re /\ order'.type = type
          /\ order'.approved = order.approved /\ order'.frozen = order.frozen
          /\ order'.folio = order.folio /\ order'.cur = order.cur
          /\ order'.setOk = order.setOk /\ order'.lifecycle = order.lifecycle
      BY <1>1, <3>1 DEF OrderRow
    <3>4. RowGates(order')
      BY <1>1, <3>2, <3>3 DEF RowGates
    <3> QED BY <3>2, <3>3, <3>4
  <2> QED BY <2>1, <2>2, <2>3, <2>4, <2>5, <2>6, <2>7
<1>6. seen' \in Confirmed /\ cut' \in SUBSET {"set", "roster"}
  BY <1>1, <1>3, <1>4 DEF CommitCancel, CommitUpdate, CommitRetype, CommitConfirmSet,
     CommitConfirmRoster, ClearSet, ClearRoster, Confirmed, IInv, TypeOK
<1>7. req' = [req EXCEPT ![r] = Idle] /\ UNCHANGED <<activity, check, roster>>
  BY DEF CommitCancel, CommitUpdate, CommitRetype, CommitConfirmSet,
     CommitConfirmRoster, ClearSet, ClearRoster, Finish
<1> QED BY <1>5, <1>6, <1>7, IdleTrails, StepKeeps DEF IInv, TypeOK

-----------------------------------------------------------------------------
(* The plan, the checklists and the roster                                 *)

LEMMA ActivityKeeps ==
  ASSUME IInv, NEW r \in Requests, CommitActivity(r) PROVE IInv'
<1> DEFINE op == req[r].op
<1>1. op \in Op /\ op.kind \in {"addActivity", "editActivity", "removeActivity", "progress"}
  BY RequestParts DEF CommitActivity
<1>2. op.a \in Activities /\ activity[op.a] \in ActivityRow
  BY <1>1, OpParts DEF IInv, TypeOK
<1>3. Planned(op) \in ActivityRow
  <2>1. CASE op.kind = "addActivity"
    BY <2>1, <1>1, OpParts DEF Planned, ActivityRow
  <2>2. CASE op.kind = "editActivity"
    BY <2>2, <1>1, OpParts DEF Planned, ActivityRow
  <2>3. CASE op.kind = "removeActivity"
    BY <2>3 DEF Planned, ActivityRow
  <2>4. CASE op.kind = "progress"
    BY <2>4, <1>1, <1>2, OpParts DEF Planned, ActivityRow
  <2> QED BY <1>1, <2>1, <2>2, <2>3, <2>4
<1>4. activity' \in [Activities -> ActivityRow]
  BY <1>3 DEF CommitActivity, IInv, TypeOK
<1> QED BY <1>4, FinishKeeps DEF CommitActivity, IInv, TypeOK

LEMMA CheckWritesKeep ==
  ASSUME IInv, NEW r \in Requests,
         CommitCheck(r) \/ CommitAddManual(r) \/ CommitRemoveCheck(r)
  PROVE  IInv'
<1> DEFINE op == req[r].op
<1>1. op \in Op /\ req[r].pc = "ready" /\ check \in [Rows -> CheckRow]
  BY RequestParts DEF CommitCheck, CommitAddManual, CommitRemoveCheck, Step, IInv, TypeOK
<1>2. CASE CommitCheck(r)
  <2>1. op.kind \in {"instantiate", "review"} /\ op.c \in Rows
    BY <1>1, <1>2, OpParts DEF CommitCheck
  <2>2. NextStatus(op) \in {"IN_PROGRESS", "APPROVED", "PENDING"}
    BY <2>1 DEF NextStatus
  <2>3. check' \in [Rows -> CheckRow]
    BY <1>1, <1>2, <2>1, <2>2 DEF CommitCheck, CheckRow
  <2> QED BY <1>2, <2>3, FinishKeeps DEF CommitCheck, IInv, TypeOK
<1>3. CASE CommitAddManual(r) \/ CommitRemoveCheck(r)
  <2>1. NoCheck \in CheckRow
    BY DEF NoCheck, CheckRow, Moments
  <2>2. check' \in [Rows -> CheckRow]
    <3>1. op.kind \in {"addManual", "removeCheck"} =>
            op.c \in Rows /\ (op.kind = "addManual" => op.moment \in Moments)
      BY <1>1, OpParts, RuleAssumption
    <3>2. CASE CommitAddManual(r)
      <4> DEFINE c == [status |-> "PENDING", moment |-> op.moment, mandatory |-> FALSE]
      <4>1. op.kind = "addManual" /\ check' = [check EXCEPT ![op.c] = c]
        BY <3>2 DEF CommitAddManual, Step
      <4>2. c \in CheckRow
        BY <3>1, <4>1 DEF CheckRow
      <4> QED BY <1>1, <4>1, <4>2
    <3>3. CASE CommitRemoveCheck(r)
      BY <1>1, <2>1, <3>3 DEF CommitRemoveCheck
    <3> QED BY <1>3, <3>2, <3>3
  <2>3. UNCHANGED <<order, activity, roster, seen, cut>> /\ (Goto(r, "clearSet") \/ Finish(r))
    BY <1>3 DEF CommitAddManual, CommitRemoveCheck, AfterCurating
  <2>4. CASE Goto(r, "clearSet")
    BY <1>1, <2>2, <2>3, <2>4, FollowUpKeeps DEF IInv, TypeOK
  <2>5. CASE Finish(r)
    BY <2>2, <2>3, <2>5, FinishKeeps DEF IInv, TypeOK
  <2> QED BY <2>3, <2>4, <2>5
<1> QED BY <1>2, <1>3

LEMMA WorkerKeeps ==
  ASSUME IInv, NEW r \in Requests, CommitWorker(r) PROVE IInv'
<1>1. req[r].pc # "idle" /\ req[r].op.w \in Workers
  BY RequestParts, OpParts DEF CommitWorker
<1>2. roster' \in SUBSET Workers
  BY <1>1 DEF CommitWorker, IInv, TypeOK
<1> QED BY <1>1, <1>2, FollowUpKeeps DEF CommitWorker, IInv, TypeOK

(* What the rules ask for has a template and an activity, or the order.    *)
LEMMA WantedRows ==
  ASSUME NEW state, NEW w \in Wanted(state)
  PROVE  w.c \in Rows /\ w.rule.moment \in Moments /\ w.rule.mandatory \in BOOLEAN
<1>1. \A moment : \A rule \in Applicable(moment) :
        rule.t \in Templates /\ rule.moment \in Moments /\ rule.mandatory \in BOOLEAN
  BY RuleAssumption DEF Applicable
<1>2. \A moment : \A x \in OrderRows(moment) :
        x.c \in Rows /\ x.rule.moment \in Moments /\ x.rule.mandatory \in BOOLEAN
  BY <1>1 DEF OrderRows, Rows
<1>3. \A x \in ExecutionRows :
        x.c \in Rows /\ x.rule.moment \in Moments /\ x.rule.mandatory \in BOOLEAN
  BY <1>1 DEF ExecutionRows, Rows
<1> QED BY <1>2, <1>3 DEF Wanted

LEMMA DeriveKeeps ==
  ASSUME IInv, NEW r \in Requests, NEW state, NEW w \in Missing(state), DeriveOne(r, w)
  PROVE  IInv'
<1> DEFINE q == [req[r] EXCEPT !.grown = Grows(req[r], w)]
<1>1. req[r].pc = "derive" /\ req[r] \in InFlight
  BY RequestParts DEF DeriveOne
<1>2. w.c \in Rows /\ w.rule.moment \in Moments /\ w.rule.mandatory \in BOOLEAN
  BY WantedRows DEF Missing
<1>3. Derived(w) \in CheckRow
  BY <1>2 DEF Derived, CheckRow
<1>4. check' \in [Rows -> CheckRow]
  BY <1>3 DEF DeriveOne, IInv, TypeOK
<1>5. Grows(req[r], w) \in BOOLEAN
  BY <1>1 DEF Grows, InFlight
<1>6. q \in InFlight /\ q.pc = "derive"
  BY <1>1, <1>5 DEF InFlight
<1>7. req' = [req EXCEPT ![r] = q] /\ UNCHANGED <<order, activity, roster, seen, cut>>
  BY DEF DeriveOne
<1>8. SnapshotTrails(q, order)
  BY <1>6, TrailsNothing
<1> QED BY <1>4, <1>6, <1>7, <1>8, RowsKeep DEF IInv, TypeOK

LEMMA EndsKeep ==
  ASSUME IInv, NEW r \in Requests,
         Reject(r) \/ Crash(r) \/ BeginSuggest(r) \/ DeriveEnd(r)
  PROVE  IInv'
<1>1. UNCHANGED rows /\ req[r].pc # "idle"
  BY DEF Reject, Crash, BeginSuggest, DeriveEnd, Step
<1>2. seen' \in Confirmed /\ cut' \in SUBSET {"set", "roster"}
  BY DEF Reject, Crash, BeginSuggest, DeriveEnd, Confirmed, ExecutionSet, IInv, TypeOK
<1>3. \/ Finish(r) \/ Goto(r, "derive") \/ Goto(r, "clearSet")
  BY DEF Reject, Crash, BeginSuggest, DeriveEnd
<1>4. CASE Finish(r)
  BY <1>1, <1>2, <1>4, FinishKeeps DEF IInv, TypeOK, rows
<1>5. CASE Goto(r, "derive")
  BY <1>1, <1>2, <1>5, FollowUpKeeps DEF IInv, TypeOK, rows
<1>6. CASE Goto(r, "clearSet")
  BY <1>1, <1>2, <1>6, FollowUpKeeps DEF IInv, TypeOK, rows
<1> QED BY <1>3, <1>4, <1>5, <1>6

-----------------------------------------------------------------------------
(* The request of a new order passes no gate.                              *)
LEMMA InitKeeps == Init => IInv
<1> SUFFICES ASSUME Init PROVE IInv
  OBVIOUS
<1>1. order \in OrderRow /\ RowGates(order)
  BY FlowAssumption, GateAssumption DEF Init, OrderRow, RowGates
<1>2. NoCheck \in CheckRow /\ NoActivity \in ActivityRow
  BY DEF NoCheck, NoActivity, CheckRow, ActivityRow, Moments
<1>3. TypeOK
  BY <1>1, <1>2 DEF Init, TypeOK, Confirmed
<1>4. \A r \in Requests : SnapshotTrails(req[r], order)
  BY IdleTrails DEF Init
<1> QED BY <1>1, <1>3, <1>4 DEF IInv, GatesHold

LEMMA NextKeeps == ASSUME IInv, [Next]_vars PROVE IInv'
<1>1. ASSUME NEW ptw \in BOOLEAN, Create(ptw) PROVE IInv'
  BY <1>1, CreateKeeps
<1>2. ASSUME NEW r \in Requests, NEW op \in Op, Load(r, op) PROVE IInv'
  BY <1>2, LoadKeeps
<1>3. ASSUME NEW r \in Requests, Continue(r) PROVE IInv'
  <2>1. ASSUME NEW state, NEW w \in Missing(state), DeriveOne(r, w) PROVE IInv'
    BY <2>1, DeriveKeeps
  <2> QED
    BY <1>3, <2>1, CheckKeeps, TransitionKeeps, OrderWritesKeep, ActivityKeeps,
       CheckWritesKeep, WorkerKeeps, EndsKeep DEF Continue
<1>4. CASE UNCHANGED vars
  BY <1>4 DEF IInv, TypeOK, GatesHold, vars, rows
<1> QED BY <1>1, <1>2, <1>3, <1>4 DEF Next

(* The gates hold of the order's row and of every copy of it.              *)
THEOREM WorkOrderInvariant == Spec => []IInv
<1>1. IInv /\ [Next]_vars => IInv'
  BY NextKeeps
<1> QED BY InitKeeps, <1>1, PTL DEF Spec

-----------------------------------------------------------------------------
(* Requests that follow one another: a request finds what it checked, and  *)
(* a confirmation stands for what the approver saw, or is being withdrawn. *)
SerialInv ==
  /\ \A r, p \in Requests : req[r] # Idle /\ req[p] # Idle => r = p
  /\ \A r \in Requests : req[r].pc = "ready" => req[r].saw = Current
  /\ AppliedIsAuthorised

(* While a request has no confirmation to withdraw, nobody has.            *)
LEMMA Settled ==
  ASSUME SerialInv, NEW r \in Requests, req[r].pc \in {"loaded", "ready"}
  PROVE  /\ order.setOk => seen.set = ExecutionSet \/ "set" \in cut
         /\ order.rosterOk => seen.roster = roster \/ "roster" \in cut
<1>1. req[r] # Idle /\ ~ClearsSet(req[r]) /\ ~ClearsRoster(req[r])
  BY DEF Idle, ClearsSet, ClearsRoster
<1>2. \A p \in Requests : req[p] # Idle => p = r
  BY <1>1 DEF SerialInv
<1>3. \A p \in Requests : ~ClearsSet(req[p]) /\ ~ClearsRoster(req[p])
  BY <1>1, <1>2 DEF ClearsSet, ClearsRoster, Idle
<1> QED BY <1>3 DEF SerialInv, AppliedIsAuthorised

(* A step of the only request at work keeps the rest idle, and what is left *)
(* to show is what it does to the confirmations.                            *)
LEMMA SerialStep ==
  ASSUME IInv, SerialInv, NEW r \in Requests,
         req[r] # Idle \/ \A p \in Requests : req[p] = Idle,
         \A p \in Requests \ {r} : req'[p] = req[p],
         req'[r].pc = "ready" => req'[r].saw = Current', AppliedIsAuthorised'
  PROVE  SerialInv'
<1>1. \A p \in Requests \ {r} : req'[p] = Idle
  BY DEF SerialInv
<1>2. \A p \in Requests : req'[p].pc = "ready" => p = r
  BY <1>1 DEF Idle
<1> QED BY <1>1, <1>2 DEF SerialInv

(* Steps after which the set, the roster and the confirmations are as they *)
(* were, of a request that has none to withdraw.                           *)
LEMMA QuietStep ==
  ASSUME IInv, SerialInv, NEW r \in Requests, req[r].pc \in {"loaded", "ready"},
         \A p \in Requests \ {r} : req'[p] = req[p],
         req'[r].pc = "ready" => req'[r].saw = Current',
         ExecutionSet' = ExecutionSet, UNCHANGED <<roster, seen, cut>>,
         order'.setOk = order.setOk, order'.rosterOk = order.rosterOk
  PROVE  SerialInv'
<1>1. AppliedIsAuthorised'
  BY Settled DEF AppliedIsAuthorised
<1>2. req[r] # Idle
  BY DEF Idle
<1> QED BY <1>1, <1>2, SerialStep

(* The others do not notice a request that ends or moves on.               *)
LEMMA Others ==
  ASSUME IInv, NEW r \in Requests,
         Finish(r) \/ Goto(r, "derive") \/ Goto(r, "clearSet") \/ Goto(r, "clearRoster")
  PROVE  /\ \A p \in Requests \ {r} : req'[p] = req[p]
         /\ Finish(r) => req'[r] = Idle
         /\ Goto(r, "derive") /\ req[r].pc # "idle" => req'[r].pc = "derive"
         /\ Goto(r, "clearSet") /\ req[r].pc # "idle" => req'[r].pc = "clearSet"
         /\ Goto(r, "clearRoster") /\ req[r].pc # "idle" => req'[r].pc = "clearRoster"
         /\ req'[r].pc # "ready" \/ req[r].pc = "idle"
<1>1. req \in [Requests -> InFlight \cup {Idle}]
  BY DEF IInv, TypeOK
<1>2. \A p \in Requests \ {r} : req'[p] = req[p]
  BY <1>1 DEF Finish, Goto
<1>3. Finish(r) => req'[r] = Idle
  BY <1>1 DEF Finish
<1>4. ASSUME NEW pc, Goto(r, pc), req[r].pc # "idle" PROVE req'[r].pc = pc
  <2>1. req[r] \in InFlight /\ req'[r] = [req[r] EXCEPT !.pc = pc]
    BY <1>1, <1>4 DEF Goto, Idle
  <2> QED BY <2>1 DEF InFlight
<1>5. Idle.pc = "idle"
  BY DEF Idle
<1> QED BY <1>2, <1>3, <1>4, <1>5

LEMMA SerialLoad ==
  ASSUME IInv, SerialInv, ~MayOverlap, NEW r \in Requests, NEW op \in Op, Load(r, op)
  PROVE  SerialInv'
<1>1. /\ \A p \in Requests : req[p] = Idle
      /\ \A p \in Requests \ {r} : req'[p] = req[p]
      /\ req'[r].pc = "loaded" /\ UNCHANGED <<rows, seen, cut>>
  BY DEF Load, Idle, IInv, TypeOK
<1>2. \A p \in Requests : ~ClearsSet(req[p]) /\ ~ClearsRoster(req[p])
  BY <1>1 DEF ClearsSet, ClearsRoster, Idle
<1>3. AppliedIsAuthorised'
  BY <1>1, <1>2 DEF SerialInv, AppliedIsAuthorised, ExecutionSet, rows
<1> QED BY <1>1, <1>3, SerialStep

LEMMA SerialCheck ==
  ASSUME IInv, SerialInv, NEW r \in Requests, Check(r) PROVE SerialInv'
<1>1. /\ \A p \in Requests \ {r} : req'[p] = req[p]
      /\ req[r].pc = "loaded" /\ UNCHANGED <<rows, seen, cut>>
  BY DEF Check, IInv, TypeOK
<1>2. req'[r].saw = Current
  BY RequestParts DEF Check, InFlight, IInv, TypeOK
<1>3. Current' = Current /\ ExecutionSet' = ExecutionSet
  BY <1>1 DEF Current, ExecutionSet, rows
<1> QED BY <1>1, <1>2, <1>3, QuietStep DEF rows

(* Refusals, the transition and what leaves the set and the roster alone.  *)
LEMMA SerialQuiet ==
  ASSUME IInv, SerialInv, NEW r \in Requests,
         \/ Reject(r) \/ CommitTransition(r) \/ BeginSuggest(r) \/ CommitCancel(r)
         \/ CommitUpdate(r) \/ CommitRetype(r) \/ CommitActivity(r) \/ CommitCheck(r)
  PROVE  SerialInv'
<1>1. req[r].pc \in {"loaded", "ready"} /\ UNCHANGED <<roster, seen, cut>>
  BY DEF Reject, CommitTransition, BeginSuggest, CommitCancel, CommitUpdate, CommitRetype,
     CommitActivity, CommitCheck, Step, rows
<1>2. order'.setOk = order.setOk /\ order'.rosterOk = order.rosterOk
  <2>1. order \in OrderRow
    BY DEF IInv, TypeOK
  <2>2. CASE CommitTransition(r)
    BY <2>1, <2>2 DEF CommitTransition, Moved, OrderRow
  <2>3. CASE CommitCancel(r) \/ CommitUpdate(r) \/ CommitRetype(r)
    BY <2>1, <2>3 DEF CommitCancel, CommitUpdate, CommitRetype, OrderRow
  <2>4. CASE Reject(r) \/ BeginSuggest(r) \/ CommitActivity(r) \/ CommitCheck(r)
    BY <2>4 DEF Reject, BeginSuggest, CommitActivity, CommitCheck, rows
  <2> QED BY <2>2, <2>3, <2>4
<1>3. ExecutionSet' = ExecutionSet
  <2>1. CASE CommitCheck(r)
    <3>1. /\ check' = [check EXCEPT ![req[r].op.c].status = NextStatus(req[r].op)]
          /\ check[req[r].op.c].status # "ABSENT" /\ check \in [Rows -> CheckRow]
          /\ NextStatus(req[r].op) # "ABSENT"
      BY <2>1 DEF CommitCheck, Exists, NextStatus, IInv, TypeOK
    <3>2. \A c \in Rows : /\ check'[c].moment = check[c].moment
                          /\ check'[c].status = "ABSENT" <=> check[c].status = "ABSENT"
      BY <3>1 DEF CheckRow
    <3> QED BY <3>2 DEF ExecutionSet
  <2>2. CASE ~CommitCheck(r)
    BY <2>2 DEF Reject, CommitTransition, BeginSuggest, CommitCancel, CommitUpdate, CommitRetype,
       CommitActivity, ExecutionSet, rows
  <2> QED BY <2>1, <2>2
<1>4. /\ \A p \in Requests \ {r} : req'[p] = req[p]
      /\ req'[r].pc # "ready"
  <2>1. CASE CommitTransition(r)
    BY <2>1, <1>1, RequestParts DEF CommitTransition, InFlight, IInv, TypeOK
  <2>2. CASE ~CommitTransition(r)
    BY <2>2, <1>1, Others DEF Reject, BeginSuggest, CommitCancel, CommitUpdate, CommitRetype,
       CommitActivity, CommitCheck
  <2> QED BY <2>1, <2>2
<1> QED BY <1>1, <1>2, <1>3, <1>4, QuietStep

(* Confirming: what was read is what is there.                             *)
LEMMA SerialConfirm ==
  ASSUME IInv, SerialInv, NEW r \in Requests,
         \/ CommitConfirmSet(r) \/ CommitConfirmRoster(r) \/ ClearSet(r) \/ ClearRoster(r)
  PROVE  SerialInv'
<1>1. /\ req[r].pc \in {"ready", "clearSet", "clearRoster"}
      /\ Finish(r) /\ UNCHANGED <<check, roster>>
  BY DEF CommitConfirmSet, CommitConfirmRoster, ClearSet, ClearRoster, Step
<1>2. /\ ExecutionSet' = ExecutionSet /\ seen \in Confirmed
      /\ order \in OrderRow
  BY <1>1 DEF ExecutionSet, IInv, TypeOK
<1>3. AppliedIsAuthorised'
  <2>1. CASE CommitConfirmSet(r) \/ CommitConfirmRoster(r)
    <3>1. req[r].pc = "ready" /\ req[r].saw = Current
      BY <2>1 DEF CommitConfirmSet, CommitConfirmRoster, Step, SerialInv
    <3>2. /\ order.setOk => seen.set = ExecutionSet \/ "set" \in cut
          /\ order.rosterOk => seen.roster = roster \/ "roster" \in cut
      BY <3>1, Settled
    <3> QED BY <1>1, <1>2, <2>1, <3>1, <3>2
            DEF CommitConfirmSet, CommitConfirmRoster, AppliedIsAuthorised, Current,
                OrderRow, Confirmed
  <2>2. CASE ClearSet(r) \/ ClearRoster(r)
    <3>1. \A p \in Requests : req[p] # Idle => p = r
      BY <1>1 DEF SerialInv, Idle
    <3>2. /\ ClearSet(r) /\ order.rosterOk => seen.roster = roster \/ "roster" \in cut
          /\ ClearRoster(r) /\ order.setOk => seen.set = ExecutionSet \/ "set" \in cut
      BY <3>1 DEF SerialInv, AppliedIsAuthorised, ClearsSet, ClearsRoster, Idle,
         ClearSet, ClearRoster
    <3> QED BY <1>1, <1>2, <2>2, <3>2
            DEF ClearSet, ClearRoster, AppliedIsAuthorised, OrderRow, Confirmed
  <2> QED BY <2>1, <2>2 DEF CommitConfirmSet, CommitConfirmRoster, ClearSet, ClearRoster
<1>4. req[r] # Idle
  BY <1>1 DEF Idle
<1> QED BY <1>1, <1>3, <1>4, Others, SerialStep DEF Idle

(* Curating the set and changing the roster: the withdrawal is to come.    *)
LEMMA SerialCurate ==
  ASSUME IInv, SerialInv, NEW r \in Requests,
         CommitAddManual(r) \/ CommitRemoveCheck(r) \/ CommitWorker(r)
  PROVE  SerialInv'
<1> DEFINE c == req[r].op.c
<1>1. /\ req[r].pc = "ready" /\ req[r] # Idle /\ UNCHANGED <<order, seen, cut>>
      /\ Finish(r) \/ Goto(r, "clearSet") \/ Goto(r, "clearRoster")
  BY DEF CommitAddManual, CommitRemoveCheck, CommitWorker, AfterCurating, Step, Idle
<1>2. /\ order.setOk => seen.set = ExecutionSet \/ "set" \in cut
      /\ order.rosterOk => seen.roster = roster \/ "roster" \in cut
  BY <1>1, Settled
<1>3. check \in [Rows -> CheckRow]
  BY DEF IInv, TypeOK
<1>4. CASE CommitWorker(r)
  <2>1. ExecutionSet' = ExecutionSet /\ req'[r].pc = "clearRoster"
    BY <1>1, <1>4, Others DEF CommitWorker, ExecutionSet
  <2>2. AppliedIsAuthorised'
    BY <1>1, <1>2, <2>1 DEF AppliedIsAuthorised, ClearsRoster
  <2> QED BY <1>1, <2>1, <2>2, Others, SerialStep
<1>5. CASE CommitAddManual(r) \/ CommitRemoveCheck(r)
  <2>1. UNCHANGED roster /\ (Finish(r) \/ Goto(r, "clearSet"))
    BY <1>5 DEF CommitAddManual, CommitRemoveCheck, AfterCurating
  <2>2. Finish(r) => ExecutionSet' = ExecutionSet
    <3> SUFFICES ASSUME Finish(r) PROVE ExecutionSet' = ExecutionSet
      OBVIOUS
    <3>1. ~Goto(r, "clearSet")
      BY <1>1, Others DEF Idle
    <3>2. CASE CommitAddManual(r)
      <4>1. /\ req[r].op.moment # "EXECUTION" /\ check[c].status = "ABSENT"
            /\ check' = [check EXCEPT ![c] = [status |-> "PENDING",
                           moment |-> req[r].op.moment, mandatory |-> FALSE]]
        BY <3>1, <3>2 DEF CommitAddManual, AfterCurating, Exists
      <4> QED BY <1>3, <4>1 DEF ExecutionSet
    <3>3. CASE CommitRemoveCheck(r)
      <4>1. check[c].moment # "EXECUTION" /\ check' = [check EXCEPT ![c] = NoCheck]
        BY <3>1, <3>3 DEF CommitRemoveCheck, AfterCurating
      <4> QED BY <1>3, <4>1 DEF ExecutionSet, NoCheck
    <3> QED BY <1>5, <3>2, <3>3
  <2>3. AppliedIsAuthorised'
    <3>1. CASE Finish(r)
      BY <1>1, <1>2, <2>1, <2>2, <3>1 DEF AppliedIsAuthorised
    <3>2. CASE Goto(r, "clearSet")
      <4>1. req'[r].pc = "clearSet"
        BY <1>1, <3>2, Others
      <4> QED BY <1>1, <1>2, <2>1, <4>1 DEF AppliedIsAuthorised, ClearsSet
    <3> QED BY <2>1, <3>1, <3>2
  <2>4. req'[r].pc # "ready"
    BY <1>1, Others
  <2> QED BY <1>1, <2>3, <2>4, Others, SerialStep
<1> QED BY <1>4, <1>5

(* Deriving checklists: a row of the execution set commits the request to  *)
(* the withdrawal.                                                         *)
LEMMA SerialDerive ==
  ASSUME IInv, SerialInv, NEW r \in Requests, NEW state, NEW w \in Missing(state),
         DeriveOne(r, w)
  PROVE  SerialInv'
<1>1. /\ req[r].pc = "derive" /\ req[r] \in InFlight /\ req[r] # Idle
      /\ UNCHANGED <<order, roster, seen, cut>> /\ check \in [Rows -> CheckRow]
  BY RequestParts DEF DeriveOne, Idle, IInv, TypeOK
<1>2. /\ check' = [check EXCEPT ![w.c] = Derived(w)] /\ check[w.c].status = "ABSENT"
      /\ w.c \in Rows
  BY WantedRows DEF DeriveOne, Missing, Exists
<1>3. /\ \A p \in Requests \ {r} : req'[p] = req[p]
      /\ req'[r].pc = "derive" /\ req'[r].grown = Grows(req[r], w)
  BY <1>1 DEF DeriveOne, InFlight, IInv, TypeOK
<1>4. \A p \in Requests : req[p] # Idle => p = r
  BY <1>1 DEF SerialInv
<1>5. order.rosterOk => seen.roster = roster \/ "roster" \in cut
  BY <1>1, <1>4 DEF SerialInv, AppliedIsAuthorised, ClearsRoster, Idle
<1>6. CASE w.rule.moment = "EXECUTION" \/ req[r].grown
  <2>1. ClearsSet(req'[r])
    BY <1>3, <1>6 DEF Grows, ClearsSet
  <2> QED BY <1>1, <1>3, <1>5, <2>1, SerialStep DEF AppliedIsAuthorised
<1>7. CASE w.rule.moment # "EXECUTION" /\ ~req[r].grown
  <2>1. ExecutionSet' = ExecutionSet
    BY <1>1, <1>2, <1>7 DEF ExecutionSet, Derived
  <2>2. order.setOk => seen.set = ExecutionSet \/ "set" \in cut
    BY <1>1, <1>4, <1>7 DEF SerialInv, AppliedIsAuthorised, ClearsSet, Idle
  <2>3. AppliedIsAuthorised'
    BY <1>1, <1>5, <2>1, <2>2 DEF AppliedIsAuthorised
  <2> QED BY <1>1, <1>3, <2>3, SerialStep
<1> QED BY <1>6, <1>7

(* The end of the derivation, and a stop, after which what the request did *)
(* not withdraw is among what stops have cut.                              *)
LEMMA SerialEnd ==
  ASSUME IInv, SerialInv, NEW r \in Requests, DeriveEnd(r) \/ Crash(r)
  PROVE  SerialInv'
<1>1. /\ req[r].pc \in {"derive", "clearSet", "clearRoster"} /\ req[r] # Idle
      /\ UNCHANGED rows /\ (Finish(r) \/ Goto(r, "clearSet"))
  BY DEF DeriveEnd, Crash, Idle
<1>2. ExecutionSet' = ExecutionSet
  BY <1>1 DEF ExecutionSet, rows
<1>3. \A p \in Requests : req[p] # Idle => p = r
  BY <1>1 DEF SerialInv
<1>4. \A p \in Requests : (ClearsSet(req[p]) \/ ClearsRoster(req[p])) => p = r
  BY <1>3 DEF ClearsSet, ClearsRoster, Idle
<1>5. AppliedIsAuthorised'
  <2>1. CASE Crash(r)
    <3>1. /\ UNCHANGED seen /\ cut \subseteq cut'
          /\ order.setOk /\ ClearsSet(req[r]) => "set" \in cut'
          /\ order.rosterOk /\ ClearsRoster(req[r]) => "roster" \in cut'
      BY <2>1 DEF Crash
    <3> QED BY <1>1, <1>2, <1>4, <3>1 DEF SerialInv, AppliedIsAuthorised, rows
  <2>2. CASE DeriveEnd(r)
    <3>1. CASE req[r].grown
      <4>1. req'[r].pc = "clearSet" /\ UNCHANGED <<seen, cut>> /\ ~ClearsRoster(req[r])
        BY <1>1, <2>2, <3>1, Others DEF DeriveEnd, ClearsRoster
      <4> QED BY <1>1, <1>2, <1>4, <4>1
              DEF SerialInv, AppliedIsAuthorised, ClearsSet, rows
    <3>2. CASE ~req[r].grown
      <4>1. UNCHANGED <<seen, cut>> /\ ~ClearsRoster(req[r]) /\ ~ClearsSet(req[r])
        BY <2>2, <3>2 DEF DeriveEnd, ClearsRoster, ClearsSet
      <4> QED BY <1>1, <1>2, <1>4, <4>1 DEF SerialInv, AppliedIsAuthorised, rows
    <3> QED BY <3>1, <3>2
  <2> QED BY <2>1, <2>2 DEF DeriveEnd, Crash
<1>6. req'[r].pc # "ready"
  BY <1>1, Others
<1> QED BY <1>1, <1>5, <1>6, Others, SerialStep

LEMMA SerialCreate ==
  ASSUME IInv, SerialInv, NEW ptw \in BOOLEAN, Create(ptw) PROVE SerialInv'
<1>1. /\ UNCHANGED <<activity, check, roster, req, seen, cut>>
      /\ order'.setOk = order.setOk /\ order'.rosterOk = order.rosterOk
  BY DEF Create, IInv, TypeOK, OrderRow
<1>2. ExecutionSet' = ExecutionSet /\ Current' = Current
  BY <1>1 DEF ExecutionSet, Current
<1> QED BY <1>1, <1>2 DEF SerialInv, AppliedIsAuthorised

LEMMA SerialNext ==
  ASSUME IInv, SerialInv, ~MayOverlap, [Next]_vars PROVE SerialInv'
<1>1. ASSUME NEW ptw \in BOOLEAN, Create(ptw) PROVE SerialInv'
  BY <1>1, SerialCreate
<1>2. ASSUME NEW r \in Requests, NEW op \in Op, Load(r, op) PROVE SerialInv'
  BY <1>2, SerialLoad
<1>3. ASSUME NEW r \in Requests, Continue(r) PROVE SerialInv'
  <2>1. ASSUME NEW state, NEW w \in Missing(state), DeriveOne(r, w) PROVE SerialInv'
    BY <2>1, SerialDerive
  <2> QED
    BY <1>3, <2>1, SerialCheck, SerialQuiet, SerialConfirm, SerialCurate, SerialEnd
    DEF Continue
<1>4. CASE UNCHANGED vars
  BY <1>4 DEF SerialInv, AppliedIsAuthorised, ExecutionSet, Current, vars, rows
<1> QED BY <1>1, <1>2, <1>3, <1>4 DEF Next

(* When requests follow one another, and although each of them may stop    *)
(* between two writes, no confirmation stands for a set of checklists or a *)
(* roster its approver did not see, but one that such a stop left standing *)
(* and nobody has renewed or withdrawn since.                              *)
THEOREM AuthorisedWhenSerial == ~MayOverlap => (Spec => []AppliedIsAuthorised)
<1> SUFFICES ASSUME ~MayOverlap PROVE Spec => []AppliedIsAuthorised
  OBVIOUS
<1>1. Init => SerialInv
  BY DEF Init, SerialInv, AppliedIsAuthorised, Idle
<1>2. IInv /\ SerialInv /\ [Next]_vars => SerialInv'
  BY SerialNext
<1>3. SerialInv => AppliedIsAuthorised
  BY DEF SerialInv
<1> QED BY WorkOrderInvariant, <1>1, <1>2, <1>3, PTL DEF Spec

(* While no request stops, no stop leaves a confirmation standing.         *)
LEMMA NothingCut == ASSUME cut = {}, ~MayCrash, [Next]_vars PROVE cut' = {}
<1>1. ASSUME NEW r \in Requests, Continue(r) PROVE cut' = {}
  BY <1>1 DEF Continue, Check, Reject, Crash, CommitTransition, BeginSuggest, DeriveEnd,
     DeriveOne, CommitCancel, CommitUpdate, CommitRetype, CommitConfirmSet,
     CommitConfirmRoster, ClearSet, ClearRoster, CommitActivity, CommitCheck,
     CommitAddManual, CommitRemoveCheck, CommitWorker
<1> QED BY <1>1 DEF Next, Create, Load, vars

(* When requests follow one another and none stops, a confirmation stands  *)
(* for nothing but what its approver saw.                                  *)
THEOREM ConfirmedWhenWhole == ~MayOverlap /\ ~MayCrash => (Spec => []ConfirmedIsApplied)
<1> SUFFICES ASSUME ~MayOverlap, ~MayCrash PROVE Spec => []ConfirmedIsApplied
  OBVIOUS
<1>1. Init => cut = {}
  BY DEF Init
<1>2. cut = {} /\ [Next]_vars => (cut = {})'
  BY NothingCut
<1>3. AppliedIsAuthorised /\ cut = {} => ConfirmedIsApplied
  BY DEF AppliedIsAuthorised, ConfirmedIsApplied
<1>4. Spec => []AppliedIsAuthorised
  BY AuthorisedWhenSerial
<1> QED BY <1>1, <1>2, <1>3, <1>4, PTL DEF Spec

-----------------------------------------------------------------------------
(* What a request passed is still so when it commits, as no other is at     *)
(* work: it read the row that is stored, in the stage it knows of, and the *)
(* gates it passed stand.                                                  *)
Sound(r) ==
  req[r] # Idle =>
    /\ order.lifecycle # "ABSENT"
    /\ req[r].pc \in {"loaded", "ready"} => req[r].row = order /\ Allows(order, req[r].op)
    /\ req[r].pc \in {"ready", "derive"} => req[r].state = order.cur
    /\ Step(r, "transition", "ready") =>
         /\ req[r].op.t.to = GateState(order.type) => ChecklistsComplete("AUTHORIZATION")
         /\ req[r].op.t.to \in FinalStates /\ order.approved => CloseGate
    /\ req[r].pc = "ready" /\ req[r].op.kind \in {"instantiate", "review"} =>
         check[req[r].op.c].status # "APPROVED"

(* The strengthening of what gates 2 and 4 promise: with the requests       *)
(* sound, no plan is frozen short of gate 3 while the type stays.          *)
FrozenBeyond == ~order.retyped /\ order.frozen => order.cur \in AfterFreeze

Gated ==
  /\ FrozenBeyond /\ ClosedComplete /\ PermitDocumented
  /\ \A r \in Requests : Sound(r)

(* Rows change so that nothing new blocks: a checklist that blocks did so   *)
(* before, or is of a moment that no gate behind the order has tested.      *)
Mild ==
  /\ order'.cur = order.cur /\ order'.frozen = order.frozen
  /\ order.retyped => order'.retyped
  /\ order'.lifecycle = "CLOSED" => order.lifecycle = "CLOSED"
  /\ UNCHANGED activity \/ order.lifecycle # "CLOSED"
  /\ \A c \in Rows : Blocking(c)' =>
       \/ Blocking(c) /\ check'[c].moment = check[c].moment
       \/ /\ check'[c].moment = "AUTHORIZATION"
          /\ order.retyped \/ order.cur \notin Permitted
       \/ check'[c].moment \in {"EXECUTION", "CLOSURE"} /\ order.lifecycle # "CLOSED"

LEMMA MildKeeps ==
  ASSUME Gated, Mild PROVE FrozenBeyond' /\ ClosedComplete' /\ PermitDocumented'
<1>1. FrozenBeyond'
  BY DEF Gated, Mild, FrozenBeyond
<1>2. ClosedComplete'
  <2> SUFFICES ASSUME order'.lifecycle = "CLOSED"
               PROVE  /\ ActivitiesComplete'
                      /\ ChecklistsComplete("EXECUTION")' /\ ChecklistsComplete("CLOSURE")'
    BY DEF ClosedComplete
  <2>1. /\ order.lifecycle = "CLOSED" /\ UNCHANGED activity
        /\ ActivitiesComplete /\ ChecklistsComplete("EXECUTION") /\ ChecklistsComplete("CLOSURE")
    BY DEF Gated, Mild, ClosedComplete
  <2>2. ActivitiesComplete'
    BY <2>1 DEF ActivitiesComplete, InPlan
  <2>3. \A c \in Rows : check'[c].moment \in {"EXECUTION", "CLOSURE"} => ~Blocking(c)'
    BY <2>1 DEF Mild, ChecklistsComplete
  <2> QED BY <2>2, <2>3 DEF ChecklistsComplete
<1>3. PermitDocumented'
  BY DEF Gated, Mild, PermitDocumented, ChecklistsComplete
<1> QED BY <1>1, <1>2, <1>3

(* Rows that stay as they are, but for the order's other fields.           *)
LEMMA OrderOnly ==
  ASSUME order'.cur = order.cur, order'.frozen = order.frozen,
         order.retyped => order'.retyped,
         order'.lifecycle = "CLOSED" => order.lifecycle = "CLOSED",
         UNCHANGED <<activity, check>>
  PROVE  Mild
<1>1. \A c \in Rows : Blocking(c)' <=> Blocking(c)
  BY DEF Blocking, Exists
<1> QED BY <1>1 DEF Mild

(* After a step of the only request at work the others have nothing to      *)
(* remember.                                                               *)
LEMMA SoundStep ==
  ASSUME SerialInv, NEW r \in Requests,
         req[r] # Idle \/ \A p \in Requests : req[p] = Idle,
         \A p \in Requests \ {r} : req'[p] = req[p], Sound(r)'
  PROVE  \A p \in Requests : Sound(p)'
<1>1. \A p \in Requests \ {r} : req'[p] = Idle
  BY DEF SerialInv
<1> QED BY <1>1 DEF Sound

(* Nor does a request that ends, or that goes to withdraw a confirmation.   *)
LEMMA SoundEnds ==
  ASSUME IInv, NEW r \in Requests, req[r] # Idle, Sound(r),
         order'.lifecycle # "ABSENT",
         Finish(r) \/ Goto(r, "clearSet") \/ Goto(r, "clearRoster")
  PROVE  Sound(r)'
<1>1. req[r].pc # "idle"
  BY DEF IInv, TypeOK, Idle, InFlight
<1>2. req'[r] = Idle \/ req'[r].pc \in {"clearSet", "clearRoster"}
  BY <1>1, Others
<1> QED BY <1>2 DEF Sound, Step

(* A request about to commit, as no other has written since it checked.     *)
LEMMA ReadySound ==
  ASSUME IInv, Gated, NEW r \in Requests, req[r].pc \in {"loaded", "ready", "derive"}
  PROVE  /\ req[r] # Idle /\ Sound(r) /\ req[r].op \in Op
         /\ order \in OrderRow /\ order.lifecycle # "ABSENT"
         /\ req[r].pc \in {"loaded", "ready"} => req[r].row = order /\ Allows(order, req[r].op)
         /\ req[r].pc \in {"ready", "derive"} => req[r].state = order.cur
<1>1. req[r] # Idle
  BY DEF Idle
<1> QED BY <1>1, RequestParts DEF Gated, Sound, IInv, TypeOK

(* A step of one request whose rows change mildly.                         *)
LEMMA GatedStep ==
  ASSUME SerialInv, Gated, NEW r \in Requests, Mild,
         req[r] # Idle \/ \A p \in Requests : req[p] = Idle,
         \A p \in Requests \ {r} : req'[p] = req[p], Sound(r)'
  PROVE  Gated'
  BY MildKeeps, SoundStep DEF Gated

LEMMA GatedLoad ==
  ASSUME IInv, SerialInv, Gated, ~MayOverlap, NEW r \in Requests, NEW op \in Op, Load(r, op)
  PROVE  Gated'
<1>1. /\ \A p \in Requests : req[p] = Idle
      /\ \A p \in Requests \ {r} : req'[p] = req[p]
      /\ req'[r].pc = "loaded" /\ req'[r].op = op /\ req'[r].row = order
      /\ order.lifecycle # "ABSENT" /\ Allows(order, op) /\ UNCHANGED rows
  BY DEF Load, Idle, IInv, TypeOK
<1>2. Mild
  BY <1>1, OrderOnly DEF rows
<1>3. Sound(r)'
  BY <1>1 DEF Sound, Step, rows
<1> QED BY <1>1, <1>2, <1>3, GatedStep

LEMMA GatedCheck ==
  ASSUME IInv, SerialInv, Gated, NEW r \in Requests, Check(r) PROVE Gated'
<1> DEFINE q == req[r]
<1>1. /\ q.pc = "loaded" /\ q \in InFlight /\ Passes(q) /\ UNCHANGED rows
      /\ \A p \in Requests \ {r} : req'[p] = req[p]
      /\ req' = [req EXCEPT ![r] = [q EXCEPT !.pc = "ready", !.saw = Current,
                                             !.state = order.cur]]
  BY RequestParts DEF Check, IInv, TypeOK
<1>2. /\ req'[r].pc = "ready" /\ req'[r].op = q.op /\ req'[r].row = q.row
      /\ req'[r].state = order.cur
  BY <1>1 DEF InFlight, IInv, TypeOK
<1>3. /\ q # Idle /\ order.lifecycle # "ABSENT" /\ q.row = order /\ Allows(order, q.op)
  BY <1>1, ReadySound
<1>4. q.op.kind = "transition" =>
        /\ q.op.t.to = GateState(order.type) => ChecklistsComplete("AUTHORIZATION")
        /\ q.op.t.to \in FinalStates /\ order.approved => CloseGate
  BY <1>1, <1>3 DEF Passes, Gates, PermitGate
<1>5. q.op.kind \in {"instantiate", "review"} => check[q.op.c].status # "APPROVED"
  BY <1>1 DEF Passes
<1>6. /\ order' = order /\ check' = check
      /\ ChecklistsComplete("AUTHORIZATION")' = ChecklistsComplete("AUTHORIZATION")
      /\ CloseGate' = CloseGate
  BY <1>1 DEF rows, ChecklistsComplete, CloseGate, ActivitiesComplete, InPlan, Blocking,
     Exists
<1>7. Sound(r)'
  BY <1>2, <1>3, <1>4, <1>5, <1>6 DEF Sound, Step
<1>8. Mild
  BY <1>1, OrderOnly DEF rows
<1> QED BY <1>1, <1>3, <1>7, <1>8, GatedStep

(* Refusals, stops, and the writes of the order's own fields.               *)
LEMMA GatedQuiet ==
  ASSUME IInv, SerialInv, Gated, NEW r \in Requests,
         \/ Reject(r) \/ Crash(r) \/ DeriveEnd(r) \/ CommitCancel(r)
         \/ CommitUpdate(r) \/ CommitRetype(r) \/ CommitConfirmSet(r) \/ CommitConfirmRoster(r) \/ ClearSet(r) \/ ClearRoster(r)
         \/ CommitWorker(r)
  PROVE  Gated'
<1>1. /\ req[r] # Idle /\ Sound(r) /\ order \in OrderRow /\ order.lifecycle # "ABSENT"
      /\ Finish(r) \/ Goto(r, "clearSet") \/ Goto(r, "clearRoster")
  <2>1. /\ req[r] # Idle
        /\ Finish(r) \/ Goto(r, "clearSet") \/ Goto(r, "clearRoster")
    BY DEF Reject, Crash, DeriveEnd, CommitCancel, CommitUpdate, CommitRetype, CommitConfirmSet,
       CommitConfirmRoster, ClearSet, ClearRoster, CommitWorker, Step, Idle
  <2> QED BY <2>1 DEF Gated, Sound, IInv, TypeOK
<1>2. /\ order'.cur = order.cur /\ order'.frozen = order.frozen
      /\ order.retyped => order'.retyped
      /\ order'.lifecycle \in {order.lifecycle, "CANCELED"}
      /\ UNCHANGED <<activity, check>>
  <2>1. CASE Reject(r) \/ Crash(r) \/ DeriveEnd(r) \/ CommitWorker(r)
    BY <2>1 DEF Reject, Crash, DeriveEnd, CommitWorker, rows
  <2>2. CASE CommitCancel(r) \/ CommitUpdate(r) \/ CommitRetype(r)
    BY <1>1, <2>2 DEF CommitCancel, CommitUpdate, CommitRetype, OrderRow
  <2>3. CASE \/ CommitConfirmSet(r) \/ CommitConfirmRoster(r) \/ ClearSet(r) \/ ClearRoster(r)
    BY <1>1, <2>3 DEF CommitConfirmSet, CommitConfirmRoster, ClearSet, ClearRoster, OrderRow
  <2> QED BY <2>1, <2>2, <2>3
<1>3. Mild
  BY <1>2, OrderOnly
<1>4. Sound(r)'
  BY <1>1, <1>2, SoundEnds
<1>5. \A p \in Requests \ {r} : req'[p] = req[p]
  BY <1>1, Others
<1> QED BY <1>1, <1>3, <1>4, <1>5, GatedStep

LEMMA GatedSuggest ==
  ASSUME IInv, SerialInv, Gated, NEW r \in Requests, BeginSuggest(r) PROVE Gated'
<1>1. /\ req[r].pc = "ready" /\ Goto(r, "derive") /\ UNCHANGED rows
      /\ req[r] # Idle /\ order.lifecycle # "ABSENT" /\ req[r].state = order.cur
      /\ req[r] \in InFlight
  BY ReadySound, RequestParts DEF BeginSuggest, Step
<1>2. req'[r].pc = "derive" /\ req'[r].state = order.cur
  BY <1>1 DEF Goto, InFlight, IInv, TypeOK
<1>3. Sound(r)' /\ Mild
  BY <1>1, <1>2, OrderOnly DEF Sound, Step, rows
<1>4. \A p \in Requests \ {r} : req'[p] = req[p]
  BY <1>1, Others
<1> QED BY <1>1, <1>3, <1>4, GatedStep

(* The plan is curated and progressed while the order is active.           *)
LEMMA GatedActivity ==
  ASSUME IInv, SerialInv, Gated, NEW r \in Requests, CommitActivity(r) PROVE Gated'
<1>1. /\ req[r].pc = "ready" /\ Finish(r) /\ UNCHANGED <<order, check>>
      /\ req[r].op.kind \in {"addActivity", "editActivity", "removeActivity", "progress"}
  BY DEF CommitActivity
<1>2. /\ req[r] # Idle /\ Sound(r) /\ order.lifecycle # "ABSENT"
      /\ Allows(order, req[r].op)
  BY <1>1, ReadySound
<1>3. order.lifecycle # "CLOSED"
  BY <1>1, <1>2 DEF Allows, Editable, Progressable, Active
<1>4. \A c \in Rows : Blocking(c)' <=> Blocking(c)
  BY <1>1 DEF Blocking, Exists
<1>5. Mild
  BY <1>1, <1>3, <1>4 DEF Mild
<1>6. Sound(r)' /\ \A p \in Requests \ {r} : req'[p] = req[p]
  BY <1>1, <1>2, SoundEnds, Others
<1> QED BY <1>2, <1>5, <1>6, GatedStep

(* A checklist that is started or reviewed was not approved: if it blocks   *)
(* now it blocked before, and no gate behind the order let it through.      *)
LEMMA GatedReview ==
  ASSUME IInv, SerialInv, Gated, NEW r \in Requests, CommitCheck(r) PROVE Gated'
<1> DEFINE c == req[r].op.c
<1>1. /\ req[r].pc = "ready" /\ Finish(r) /\ UNCHANGED <<order, activity>>
      /\ req[r].op.kind \in {"instantiate", "review"} /\ Exists(c)
      /\ check' = [check EXCEPT ![c].status = NextStatus(req[r].op)]
      /\ check \in [Rows -> CheckRow]
  BY DEF CommitCheck, IInv, TypeOK
<1>2. /\ req[r] # Idle /\ Sound(r) /\ order.lifecycle # "ABSENT" /\ req[r].op \in Op
  BY <1>1, ReadySound
<1>3. c \in Rows /\ check[c].status # "APPROVED"
  BY <1>1, <1>2, OpParts DEF Sound
<1>4. \A d \in Rows : Blocking(d)' =>
        Blocking(d) /\ check'[d].moment = check[d].moment
  <2> SUFFICES ASSUME NEW d \in Rows, Blocking(d)'
               PROVE  Blocking(d) /\ check'[d].moment = check[d].moment
    OBVIOUS
  <2>1. CASE d = c
    <3>1. check'[d].moment = check[d].moment /\ check'[d].mandatory = check[d].mandatory
      BY <1>1, <2>1 DEF CheckRow
    <3> QED BY <1>1, <1>3, <2>1, <3>1 DEF Blocking
  <2>2. CASE d # c
    BY <1>1, <2>2 DEF Blocking, Exists
  <2> QED BY <2>1, <2>2
<1>5. Mild
  BY <1>1, <1>4 DEF Mild
<1>6. Sound(r)' /\ \A p \in Requests \ {r} : req'[p] = req[p]
  BY <1>1, <1>2, SoundEnds, Others
<1> QED BY <1>2, <1>5, <1>6, GatedStep

(* What is added by hand is not mandatory, and what is removed is gone.    *)
LEMMA GatedCurate ==
  ASSUME IInv, SerialInv, Gated, NEW r \in Requests,
         CommitAddManual(r) \/ CommitRemoveCheck(r)
  PROVE  Gated'
<1>1. /\ req[r].pc = "ready" /\ UNCHANGED <<order, activity>> /\ check \in [Rows -> CheckRow]
      /\ Finish(r) \/ Goto(r, "clearSet") \/ Goto(r, "clearRoster")
  BY DEF CommitAddManual, CommitRemoveCheck, AfterCurating, Step, IInv, TypeOK
<1>2. /\ req[r] # Idle /\ Sound(r) /\ order.lifecycle # "ABSENT" /\ req[r].op \in Op
  BY <1>1, ReadySound
<1>3. PICK c \in Rows : c = req[r].op.c
  BY <1>2, OpParts, RuleAssumption DEF CommitAddManual, CommitRemoveCheck, Step
<1>4. ~Blocking(c)' /\ \A d \in Rows \ {c} : check'[d] = check[d]
  <2>1. CASE CommitAddManual(r)
    BY <1>1, <1>3, <2>1 DEF CommitAddManual, Blocking
  <2>2. CASE CommitRemoveCheck(r)
    BY <1>1, <1>3, <2>2 DEF CommitRemoveCheck, Blocking, Exists, NoCheck
  <2> QED BY <2>1, <2>2
<1>5. \A d \in Rows : Blocking(d)' =>
        Blocking(d) /\ check'[d].moment = check[d].moment
  BY <1>4 DEF Blocking, Exists
<1>6. Mild
  BY <1>1, <1>5 DEF Mild
<1>7. Sound(r)' /\ \A p \in Requests \ {r} : req'[p] = req[p]
  BY <1>1, <1>2, SoundEnds, Others
<1> QED BY <1>2, <1>6, <1>7, GatedStep

(* Checklists are derived for the stage the order is in: nothing in a final *)
(* one, and none of authorisation once the permit stands.                   *)
LEMMA WantedMoments ==
  ASSUME IInv, NEW state \in States, NEW w \in Wanted(state)
  PROVE  /\ ~order.retyped /\ state \in Permitted => w.rule.moment # "AUTHORIZATION"
         /\ state \notin FinalStates
<1>1. \A moment : \A x \in OrderRows(moment) : x.rule.moment = moment
  BY DEF OrderRows, Applicable
<1>2. \A x \in ExecutionRows : x.rule.moment = "EXECUTION"
  BY DEF ExecutionRows, Applicable
<1>3. state \in {ClosureState(order.type), SuggestState(order.type), ExecuteState(order.type)}
  BY DEF Wanted
<1>4. state \notin FinalStates
  BY <1>3, ClosingAssumption DEF IInv, TypeOK, OrderRow
<1>5. ASSUME ~order.retyped, state \in Permitted PROVE w.rule.moment # "AUTHORIZATION"
  <2>1. state # SuggestState(order.type)
    BY <1>5, PermitAssumption DEF IInv, GatesHold, RowGates
  <2>2. w.rule.moment \in {"CLOSURE", "EXECUTION"}
    BY <1>1, <1>2, <2>1 DEF Wanted
  <2> QED BY <2>2
<1> QED BY <1>4, <1>5

LEMMA GatedDerive ==
  ASSUME IInv, SerialInv, Gated, NEW r \in Requests, NEW state, NEW w \in Missing(state),
         DeriveOne(r, w)
  PROVE  Gated'
<1>1. /\ req[r].pc = "derive" /\ req[r] \in InFlight /\ UNCHANGED <<order, activity>>
      /\ check' = [check EXCEPT ![w.c] = Derived(w)] /\ check \in [Rows -> CheckRow]
      /\ w \in Wanted(req[r].state)
      /\ req' = [req EXCEPT ![r].grown = Grows(req[r], w)]
  BY RequestParts DEF DeriveOne, Missing, IInv, TypeOK
<1>2. /\ req[r] # Idle /\ order.lifecycle # "ABSENT" /\ req[r].state = order.cur
  BY <1>1, ReadySound
<1>3. /\ ~order.retyped /\ order.cur \in Permitted => w.rule.moment # "AUTHORIZATION"
      /\ order.cur \notin FinalStates /\ w.c \in Rows /\ w.rule.moment \in Moments
  BY <1>1, <1>2, WantedMoments, WantedRows DEF IInv, TypeOK, OrderRow
<1>4. order.lifecycle # "CLOSED"
  BY <1>3 DEF IInv, GatesHold, RowGates
<1>5. check'[w.c].moment = w.rule.moment /\ \A d \in Rows \ {w.c} : check'[d] = check[d]
  BY <1>1, <1>3 DEF Derived
<1>6. \A d \in Rows \ {w.c} : Blocking(d)' => Blocking(d)
  BY <1>5 DEF Blocking, Exists
<1>7. Mild
  BY <1>1, <1>3, <1>4, <1>5, <1>6 DEF Mild, Moments
<1>8. /\ req'[r].pc = "derive" /\ req'[r].state = req[r].state
      /\ \A p \in Requests \ {r} : req'[p] = req[p]
  BY <1>1 DEF InFlight, IInv, TypeOK
<1>9. Sound(r)'
  BY <1>1, <1>2, <1>8 DEF Sound, Step
<1> QED BY <1>2, <1>7, <1>8, <1>9, GatedStep

(* The transition moves the order as the gates that it passed allow.       *)
LEMMA GatedTransition ==
  ASSUME IInv, SerialInv, Gated, NEW r \in Requests, CommitTransition(r) PROVE Gated'
<1> DEFINE q == req[r]
           to == q.op.t.to
<1>1. /\ Step(r, "transition", "ready") /\ order' = Moved(q)
      /\ UNCHANGED <<activity, check>> /\ q.pc = "ready" /\ q \in InFlight
      /\ req' = [req EXCEPT ![r] = [q EXCEPT !.pc = "derive", !.state = to]]
  BY RequestParts DEF CommitTransition, Step
<1>2. /\ q # Idle /\ Sound(r) /\ q.op \in Op /\ order \in OrderRow
      /\ q.row = order /\ Allows(order, q.op)
  BY <1>1, ReadySound
<1>3. /\ q.op.kind = "transition" /\ q.op.t \in Transitions /\ q.op.t.from = order.cur
      /\ order.lifecycle \in {"DRAFT", "OPEN"}
  BY <1>1, <1>2, OpParts DEF Step, Allows, Active
<1>4. /\ order'.cur = to /\ order'.lifecycle = LifecycleAfter(q)
      /\ order'.frozen = (order.frozen \/ to = FreezeState(order.type))
      /\ order'.retyped = order.retyped
  BY <1>1, <1>2 DEF Moved, OrderRow
<1>5. /\ to = GateState(order.type) => ChecklistsComplete("AUTHORIZATION")
      /\ to \in FinalStates /\ order.approved => CloseGate
  BY <1>1, <1>2 DEF Sound
<1>6. to = ExecuteState(order.type) => order.frozen
  BY <1>1, <1>2, <1>3, RequestParts DEF SnapshotTrails, Executable
<1>7. /\ ChecklistsComplete("AUTHORIZATION")' = ChecklistsComplete("AUTHORIZATION")
      /\ ChecklistsComplete("EXECUTION")' = ChecklistsComplete("EXECUTION")
      /\ ChecklistsComplete("CLOSURE")' = ChecklistsComplete("CLOSURE")
      /\ ActivitiesComplete' = ActivitiesComplete
  BY <1>1 DEF ChecklistsComplete, ActivitiesComplete, InPlan, Blocking, Exists
<1>14. to \in States /\ to # None
  BY <1>3, FlowAssumption, NoneAssumption
<1>15. ~order.retyped => order.type = NewType
  BY DEF IInv, GatesHold, RowGates
<1>8. FrozenBeyond'
  BY <1>3, <1>4, <1>14, <1>15, PermitAssumption DEF Gated, FrozenBeyond
<1>9. ClosedComplete'
  <2> SUFFICES ASSUME order'.lifecycle = "CLOSED" PROVE CloseGate
    BY <1>7 DEF ClosedComplete, CloseGate
  <2>1. to \in FinalStates /\ (order.approved \/ IsApproval(q))
    BY <1>2, <1>4 DEF LifecycleAfter
  <2>2. ~IsApproval(q)
    BY <2>1, <1>2, ClosingAssumption DEF IsApproval, OrderRow
  <2> QED BY <1>5, <2>1, <2>2
<1>10. PermitDocumented'
  <2> SUFFICES ASSUME ~order.retyped, to \in Permitted PROVE ChecklistsComplete("AUTHORIZATION")
    BY <1>4, <1>7 DEF PermitDocumented
  <2>1. \/ order.cur \in Permitted \/ to = GateState(order.type)
        \/ to = ExecuteState(order.type) /\ order.cur \notin AfterFreeze
    BY <1>3, <1>15, PermitAssumption
  <2>2. ~(to = ExecuteState(order.type) /\ order.cur \notin AfterFreeze)
    BY <1>6 DEF Gated, FrozenBeyond
  <2> QED BY <1>5, <2>1, <2>2 DEF Gated, PermitDocumented
<1>11. /\ req'[r].pc = "derive" /\ req'[r].state = to
       /\ \A p \in Requests \ {r} : req'[p] = req[p]
  BY <1>1 DEF InFlight, IInv, TypeOK
<1>12. order'.lifecycle # "ABSENT"
  BY <1>4 DEF LifecycleAfter
<1>13. Sound(r)'
  BY <1>4, <1>11, <1>12 DEF Sound, Step
<1> QED BY <1>2, <1>8, <1>9, <1>10, <1>11, <1>13, SoundStep DEF Gated

LEMMA GatedCreate ==
  ASSUME IInv, Gated, NEW ptw \in BOOLEAN, Create(ptw) PROVE Gated'
<1>1. /\ order \in OrderRow /\ order.lifecycle = "ABSENT"
      /\ UNCHANGED <<activity, check, roster, req, seen, cut>>
      /\ order' = [order EXCEPT !.lifecycle = "DRAFT", !.ptw = ptw]
  BY DEF Create, IInv, TypeOK
<1>2. Mild
  BY <1>1, OrderOnly DEF OrderRow
<1>3. \A r \in Requests : Sound(r)'
  BY <1>1 DEF Gated, Sound
<1> QED BY <1>2, <1>3, MildKeeps DEF Gated

LEMMA GatedNext ==
  ASSUME IInv, SerialInv, Gated, ~MayOverlap, [Next]_vars PROVE Gated'
<1>1. ASSUME NEW ptw \in BOOLEAN, Create(ptw) PROVE Gated'
  BY <1>1, GatedCreate
<1>2. ASSUME NEW r \in Requests, NEW op \in Op, Load(r, op) PROVE Gated'
  BY <1>2, GatedLoad
<1>3. ASSUME NEW r \in Requests, Continue(r) PROVE Gated'
  <2>1. ASSUME NEW state, NEW w \in Missing(state), DeriveOne(r, w) PROVE Gated'
    BY <2>1, GatedDerive
  <2> QED
    BY <1>3, <2>1, GatedCheck, GatedQuiet, GatedSuggest, GatedActivity, GatedReview,
       GatedCurate, GatedTransition DEF Continue
<1>4. CASE UNCHANGED vars
  <2>1. Mild
    BY <1>4, OrderOnly DEF vars, rows
  <2>2. \A r \in Requests : Sound(r)'
    <3>1. /\ UNCHANGED <<order, activity, check, req>>
          /\ ChecklistsComplete("AUTHORIZATION")' = ChecklistsComplete("AUTHORIZATION")
          /\ CloseGate' = CloseGate
      BY <1>4 DEF vars, rows, ChecklistsComplete, CloseGate, ActivitiesComplete, InPlan,
         Blocking, Exists
    <3> QED BY <3>1 DEF Gated, Sound, Step
  <2> QED BY <2>1, <2>2, MildKeeps DEF Gated
<1> QED BY <1>1, <1>2, <1>3, <1>4 DEF Next

LEMMA GatedHolds == ~MayOverlap => (Spec => []Gated)
<1> SUFFICES ASSUME ~MayOverlap PROVE Spec => []Gated
  OBVIOUS
<1>1. Init => SerialInv
  BY DEF Init, SerialInv, AppliedIsAuthorised, Idle
<1>2. IInv /\ SerialInv /\ [Next]_vars => SerialInv'
  BY SerialNext
<1>3. Init => Gated
  BY DEF Init, Gated, FrozenBeyond, ClosedComplete, PermitDocumented, Sound,
     ChecklistsComplete, Blocking, Exists, NoCheck
<1>4. IInv /\ SerialInv /\ Gated /\ [Next]_vars => Gated'
  BY GatedNext
<1> QED BY WorkOrderInvariant, <1>1, <1>2, <1>3, <1>4, PTL DEF Spec

(* When requests follow one another, and although each may stop between two *)
(* writes, gate 4 stays shut behind a closed order: no mandatory activity   *)
(* is open in it, and no mandatory checklist of execution or closure is     *)
(* short of approval.                                                      *)
THEOREM ClosedIsComplete == ~MayOverlap => (Spec => []ClosedComplete)
<1>1. Gated => ClosedComplete
  BY DEF Gated
<1> QED BY <1>1, GatedHolds, PTL

(* Under the same conditions every mandatory checklist of authorisation of  *)
(* an order that keeps its type is approved, from the permit on.           *)
THEOREM PermitStaysDocumented == ~MayOverlap => (Spec => []PermitDocumented)
<1>1. Gated => PermitDocumented
  BY DEF Gated
<1> QED BY <1>1, GatedHolds, PTL
=============================================================================
