-------------------------- MODULE ExceptionsProofs --------------------------
(***************************************************************************)
(* Proofs about Exceptions: for any number of exceptions, orders, requests *)
(* and incidents, any batch size and any number of attempts and stops, a   *)
(* CONVERTED exception has an incident, an order that is DONE left one,    *)
(* and an exception keeps the one it has, but in a purge that a late       *)
(* triage misleads.  IInv is inductive: the steps of the users, those of   *)
(* the worker and the rest are taken in turn.                              *)
(***************************************************************************)
EXTENDS Exceptions, TLAPS

(* A fresh id is an id of an incident that does not exist yet.             *)
LEMMA Fresh ==
  ASSUME Unused # {}
  PROVE  FreshIncident \in Incidents /\ incident[FreshIncident].lifecycle = "ABSENT"
  BY DEF FreshIncident, Unused

(* Opening an incident makes one more exist; those there were still do.    *)
LEMMA Opening ==
  ASSUME TypeOK, Unused # {}, NEW x \in RuleExcs \cup {None}, incident' = Opened(x)
  PROVE  /\ incident' \in [Incidents -> IncidentRow]
         /\ \A i : Opens(i) \/ i = FreshIncident => Opens(i)'
<1> DEFINE f == FreshIncident
<1>1. f \in Incidents /\ incident[f].lifecycle = "ABSENT"
  BY Fresh
<1>2. incident' = [incident EXCEPT ![f] = [lifecycle |-> "OPEN", rule |-> x]]
  BY DEF Opened
<1> HIDE DEF f
<1>3. incident' \in [Incidents -> IncidentRow]
  BY <1>1, <1>2 DEF TypeOK, IncidentRow
<1>4. \A i : Opens(i) \/ i = f => Opens(i)'
  BY <1>1, <1>2 DEF TypeOK, Opens
<1> QED BY <1>3, <1>4 DEF f

(* The program starts without exceptions, orders, incidents or requests.   *)
LEMMA InitInv == Init => IInv
  BY IdAssumption, WorkerAssumption
  DEF Init, IInv, TypeOK, LinkInv, WorkerInv, RequestInv, DoneHasIncident, NoRow,
      ExcRow, IncidentRow, OrderRow, WorkerRow, Resting, Request, Idle, Pending, Opens

(* The database and the users' requests as they are seen from the worker:  *)
(* nothing it relies on is disturbed by a step that keeps orders and       *)
(* incidents and only ever adds links.                                     *)
LEMMA WorkerUndisturbed ==
  ASSUME IInv, UNCHANGED <<order, worker>>,
         \A i : Opens(i) => Opens(i)',
         \A x \in RuleExcs : exc[x].inc # None => exc'[x].inc # None
  PROVE  WorkerInv' /\ DoneHasIncident'
  BY DEF IInv, TypeOK, WorkerInv, DoneHasIncident, Pending

(* A user's request that starts holds what its guards saw.                 *)
LEMMA LoadInv ==
  ASSUME IInv, NEW r \in Requests, NEW xs \in SUBSET Excs,
         NEW i \in Incidents \cup {None},
         NEW kind \in {"acknowledge", "dismiss", "correct", "convert", "associate"},
         NEW pc \in {"write", "open"}, Load(r, kind, xs, i, pc),
         pc = "open" => kind = "convert",
         pc = "write" /\ kind \in {"convert", "associate"} => Opens(i)
  PROVE  IInv'
<1>1. req[r]' \in Request /\ req' \in [Requests -> Request]
  BY DEF IInv, TypeOK, Load, Request
<1>2. RequestInv'
  BY <1>1 DEF IInv, TypeOK, Load, RequestInv, Opens
<1>3. TypeOK' /\ LinkInv'
  BY <1>1 DEF IInv, TypeOK, Load, LinkInv, Opens
<1>4. WorkerInv' /\ DoneHasIncident'
  BY WorkerUndisturbed DEF Load, Opens
<1> QED BY <1>2, <1>3, <1>4 DEF IInv

(* Opening the incident of a conversion.                                   *)
LEMMA ConvertOpenInv ==
  ASSUME IInv, NEW r \in Requests, ConvertOpen(r)
  PROVE  IInv'
<1>1. /\ incident' \in [Incidents -> IncidentRow]
      /\ \A i : Opens(i) \/ i = FreshIncident => Opens(i)'
  BY Opening DEF IInv, ConvertOpen
<1>2. FreshIncident \in Incidents
  BY Fresh DEF ConvertOpen
<1>3. req' \in [Requests -> Request]
  <2> DEFINE n == [req[r] EXCEPT !.pc = "write", !.inc = FreshIncident]
  <2>1. req[r] \in Request /\ req \in [Requests -> Request]
    BY DEF IInv, TypeOK
  <2>2. n \in Request
    BY <1>2, <2>1 DEF Request
  <2>3. req' = [req EXCEPT ![r] = n]
    BY DEF ConvertOpen
  <2> QED BY <2>1, <2>2, <2>3
<1>4. TypeOK' /\ LinkInv'
  BY <1>1, <1>3 DEF IInv, TypeOK, LinkInv, ConvertOpen
<1>5. RequestInv'
  BY <1>1 DEF IInv, TypeOK, RequestInv, ConvertOpen
<1>6. WorkerInv' /\ DoneHasIncident'
  BY <1>1, WorkerUndisturbed DEF ConvertOpen
<1> QED BY <1>4, <1>5, <1>6 DEF IInv

(* Linking exceptions to an incident that exists.                          *)
LEMMA Linking ==
  ASSUME IInv, NEW xs \in SUBSET Excs, NEW i, Opens(i),
         exc' = Linked(xs, i), UNCHANGED incident
  PROVE  /\ exc' \in [Excs -> ExcRow] /\ LinkInv'
         /\ \A x \in xs : exc'[x].inc # None
         /\ \A x \in Excs : exc[x].inc # None => exc'[x].inc # None
  BY IdAssumption DEF IInv, TypeOK, LinkInv, Linked, ExcRow, Opens

(* A triage may land late and overwrite a conversion, but leaves the link. *)
LEMMA Triaging ==
  ASSUME IInv, NEW r \in Requests, Write(r),
         ~(req[r].kind \in {"convert", "associate"})
  PROVE  /\ exc' \in [Excs -> ExcRow] /\ LinkInv'
         /\ \A x \in Excs : exc[x].inc # None => exc'[x].inc # None
<1> DEFINE st == TriagedStatus(req[r].kind)
<1>1. st \in {"ACKNOWLEDGED", "DISMISSED", "CORRECTED"}
  BY DEF IInv, TypeOK, RequestInv, Request, Write, TriagedStatus
<1>2. exc' = [x \in Excs |-> IF x \in req[r].xs THEN [exc[x] EXCEPT !.status = st]
                             ELSE exc[x]]
  BY DEF Write
<1>3. UNCHANGED incident
  BY DEF Write
<1> HIDE DEF st
<1> QED BY <1>1, <1>2, <1>3 DEF IInv, TypeOK, LinkInv, ExcRow, Opens

(* The write of a user's request.                                          *)
LEMMA WriteInv ==
  ASSUME IInv, NEW r \in Requests, Write(r)
  PROVE  IInv' /\ \A x \in Excs : exc[x].inc # None => exc'[x].inc # None
<1>1. /\ exc' \in [Excs -> ExcRow] /\ LinkInv'
      /\ \A x \in Excs : exc[x].inc # None => exc'[x].inc # None
  <2>1. CASE req[r].kind \in {"convert", "associate"}
    <3>1. Opens(req[r].inc) /\ req[r].xs \in SUBSET Excs
      BY <2>1 DEF IInv, TypeOK, RequestInv, Request, Write
    <3>2. exc' = Linked(req[r].xs, req[r].inc) /\ UNCHANGED incident
      BY <2>1 DEF Write
    <3> QED BY <3>1, <3>2, Linking
  <2>2. CASE ~(req[r].kind \in {"convert", "associate"})
    BY <2>2, Triaging
  <2> QED BY <2>1, <2>2
<1>2. req' \in [Requests -> Request] /\ RequestInv'
  BY DEF IInv, TypeOK, RequestInv, Write, Request, Idle, Opens
<1>3. TypeOK'
  BY <1>1, <1>2 DEF IInv, TypeOK, Write
<1>4. WorkerInv' /\ DoneHasIncident'
  BY <1>1, IdAssumption, WorkerUndisturbed DEF Write, Opens
<1> QED BY <1>1, <1>2, <1>3, <1>4 DEF IInv

(* Every step of a user's request.                                         *)
LEMMA UserInv ==
  ASSUME IInv, NEW r \in Requests, UserStep(r)
  PROVE  IInv' /\ \A x \in Excs : exc[x].inc # None => exc'[x].inc # None
<1>1. ASSUME NEW x \in Excs, NEW kind \in {"acknowledge", "dismiss"},
             LoadTriage(r, kind, x)
      PROVE  IInv' /\ UNCHANGED exc
  BY <1>1, LoadInv DEF LoadTriage, Load
<1>2. ASSUME NEW x \in Excs, LoadCorrect(r, x)
      PROVE  IInv' /\ UNCHANGED exc
  BY <1>2, LoadInv DEF LoadCorrect, Load
<1>3. ASSUME NEW xs \in SUBSET Excs, LoadConvert(r, xs)
      PROVE  IInv' /\ UNCHANGED exc
  BY <1>3, LoadInv DEF LoadConvert, Load
<1>4. ASSUME NEW xs \in SUBSET Excs, NEW i \in Incidents, LoadAssociate(r, xs, i)
      PROVE  IInv' /\ UNCHANGED exc
  BY <1>4, LoadInv DEF LoadAssociate, Load, Opens
<1>5. ASSUME ConvertOpen(r) PROVE IInv' /\ UNCHANGED exc
  BY <1>5, ConvertOpenInv DEF ConvertOpen
<1>6. ASSUME Refuse(r) PROVE IInv' /\ UNCHANGED exc
  <2>1. req' \in [Requests -> Request] /\ RequestInv'
    BY <1>6 DEF IInv, TypeOK, RequestInv, Refuse, Request, Idle, Opens
  <2>2. TypeOK' /\ LinkInv'
    BY <1>6, <2>1 DEF IInv, TypeOK, LinkInv, Refuse, Opens
  <2>3. WorkerInv' /\ DoneHasIncident'
    BY <1>6, WorkerUndisturbed DEF Refuse, Opens
  <2> QED BY <1>6, <2>1, <2>2, <2>3 DEF IInv, Refuse
<1> QED BY <1>1, <1>2, <1>3, <1>4, <1>5, <1>6, WriteInv DEF UserStep

(* A run takes its orders from those that are pending.                     *)
LEMMA TakeUpInv ==
  ASSUME IInv, NEW batch \in SUBSET Pending, NEW x \in batch
  PROVE  /\ TakeUp(x, batch) \in WorkerRow
         /\ TakeUp(x, batch).cur \in Pending
         /\ TakeUp(x, batch).rest \subseteq Pending \ {x}
  BY DEF TakeUp, WorkerRow, Pending

(* An order that is settled, or put back, leaves the rest of its batch     *)
(* pending: the next of them is taken up, or the run ends.                 *)
LEMMA AdvanceInv ==
  ASSUME IInv, worker.pc # "idle", Advance,
         NEW row \in OrderRow, order' = [order EXCEPT ![worker.cur] = row],
         row.status # "NONE", row.status = "PENDING" => row.attempts < MaxAttempts,
         row.status = "DONE" => exc[worker.cur].inc # None,
         UNCHANGED <<exc, incident, licensed, req, stops, entry>>
  PROVE  IInv'
<1>1. worker.cur \in Pending /\ worker.rest \in SUBSET (Pending \ {worker.cur})
  BY DEF IInv, WorkerInv
<1>2. order' \in [RuleExcs -> OrderRow]
  BY <1>1 DEF IInv, TypeOK, Pending
<1>3. Pending \ {worker.cur} \subseteq Pending'
  BY <1>1 DEF IInv, TypeOK, Pending
<1>4. /\ worker' \in WorkerRow
      /\ worker'.pc \in {"idle", "raise"}
      /\ worker'.pc # "idle" => worker'.cur \in worker.rest
                                /\ worker'.rest = worker.rest \ {worker'.cur}
  BY <1>1 DEF IInv, TypeOK, Advance, Oldest, TakeUp, Resting, WorkerRow, Pending
<1>5. \A x \in RuleExcs : order'[x].status \in {"NONE", "PENDING"} =>
        order'[x].attempts < MaxAttempts
  BY <1>1, <1>2 DEF IInv, TypeOK, WorkerInv, Pending
<1>6. WorkerInv'
  BY <1>1, <1>3, <1>4, <1>5 DEF WorkerInv
<1>7. TypeOK' /\ LinkInv' /\ RequestInv'
  BY <1>2, <1>4 DEF IInv, TypeOK, LinkInv, RequestInv, Opens
<1>8. DoneHasIncident'
  BY <1>1, <1>2 DEF IInv, TypeOK, DoneHasIncident, Pending
<1> QED BY <1>6, <1>7, <1>8 DEF IInv

(* A step of the worker within one order, that keeps the other orders.     *)
LEMMA OneOrderInv ==
  ASSUME IInv, worker' \in WorkerRow,
         worker'.cur = worker.cur, worker'.rest = worker.rest,
         worker.pc # "idle",
         (worker.pc = "link" => Opens(worker.inc))',
         worker'.pc = "done" => exc'[worker.cur].inc # None,
         \A i : Opens(i) => Opens(i)',
         \A x \in RuleExcs : exc[x].inc # None => exc'[x].inc # None,
         exc' \in [Excs -> ExcRow], LinkInv', incident' \in [Incidents -> IncidentRow],
         UNCHANGED <<order, licensed, req, stops, entry>>
  PROVE  IInv'
<1>1. TypeOK' /\ RequestInv' /\ DoneHasIncident'
  BY DEF IInv, TypeOK, RequestInv, DoneHasIncident
<1>2. WorkerInv'
  BY DEF IInv, WorkerInv, Pending
<1> QED BY <1>1, <1>2 DEF IInv

(* Every step of the worker.                                               *)
LEMMA WorkerStepInv ==
  ASSUME IInv, WorkerStep
  PROVE  IInv' /\ \A x \in Excs : exc[x].inc # None => exc'[x].inc # None
<1> DEFINE Kept == \A x \in Excs : exc[x].inc # None => exc'[x].inc # None
<1>0. worker \in WorkerRow /\ RuleExcs \subseteq Excs
  BY IdAssumption DEF IInv, TypeOK
<1>1. CASE WorkerStart
  <2>1. PICK x \in Batch : worker' = TakeUp(x, Batch)
    BY <1>1 DEF WorkerStart, Oldest
  <2>2. Batch \subseteq Pending
    BY DEF Batch
  <2>3. worker' \in WorkerRow /\ WorkerInv'
    BY <1>1, <2>1, <2>2, TakeUpInv DEF IInv, WorkerInv, WorkerStart, TakeUp, Pending
  <2>4. TypeOK' /\ LinkInv' /\ RequestInv' /\ DoneHasIncident'
    BY <1>1, <2>3 DEF IInv, TypeOK, LinkInv, RequestInv, DoneHasIncident, WorkerStart,
       Opens
  <2> QED BY <1>1, <2>3, <2>4 DEF IInv, WorkerStart
<1>2. CASE WorkerRaise
  <2>1. worker.cur \in Excs /\ worker' \in WorkerRow
    BY <1>0, <1>2 DEF IInv, WorkerInv, WorkerRaise, Pending, WorkerRow
  <2>2. exc' \in [Excs -> ExcRow] /\ LinkInv' /\ Kept
    BY <1>2, <2>1 DEF IInv, TypeOK, LinkInv, WorkerRaise, ExcRow, Exists, Opens
  <2>3. IInv'
    BY <1>0, <1>2, <2>1, <2>2, OneOrderInv DEF IInv, TypeOK, WorkerRaise, WorkerRow, Opens
  <2> QED BY <2>2, <2>3
<1>3. CASE WorkerCheck
  <2>1. worker' = [worker EXCEPT !.pc = NextAfterCheck(worker.cur)]
    BY <1>3 DEF WorkerCheck
  <2>2. worker' \in WorkerRow
    BY <1>0, <2>1 DEF NextAfterCheck, WorkerRow
  <2>3. LinkInv'
    BY <1>3 DEF IInv, LinkInv, WorkerCheck, Opens
  <2>4. IInv'
    BY <1>0, <1>3, <2>1, <2>2, <2>3, OneOrderInv
    DEF IInv, TypeOK, WorkerCheck, NextAfterCheck, WorkerRow, Opens
  <2> QED BY <1>3, <2>4 DEF WorkerCheck
<1>4. CASE WorkerOpen
  <2>1. /\ incident' \in [Incidents -> IncidentRow]
        /\ \A i : Opens(i) \/ i = FreshIncident => Opens(i)'
    BY <1>4, Opening DEF IInv, WorkerOpen, WorkerInv, Pending
  <2>2. worker' = [worker EXCEPT !.pc = "link", !.inc = FreshIncident]
    BY <1>4 DEF WorkerOpen
  <2>3. FreshIncident \in Incidents
    BY <1>4, Fresh DEF WorkerOpen
  <2>4. worker' \in WorkerRow /\ worker'.inc = FreshIncident /\ worker'.pc = "link"
    BY <1>0, <2>2, <2>3 DEF WorkerRow
  <2>5. Opens(worker.inc)'
    BY <2>1, <2>4 DEF Opens
  <2>6. LinkInv'
    BY <1>4, <2>1 DEF IInv, LinkInv, WorkerOpen
  <2>7. worker'.cur = worker.cur /\ worker'.rest = worker.rest
    BY <1>0, <2>2 DEF WorkerRow
  <2>8. exc' = exc /\ worker.pc # "idle" /\ UNCHANGED <<order, licensed, req, stops, entry>>
    BY <1>4 DEF WorkerOpen
  <2>9. exc \in [Excs -> ExcRow]
    BY DEF IInv, TypeOK
  <2>10. IInv'
    BY <2>1, <2>4, <2>5, <2>6, <2>7, <2>8, <2>9, OneOrderInv
  <2> QED BY <2>8, <2>10
<1>5. CASE WorkerLink
  <2>1. worker.cur \in Excs /\ worker' \in WorkerRow /\ Opens(worker.inc)
    BY <1>0, <1>5 DEF IInv, WorkerInv, WorkerLink, Pending, WorkerRow
  <2>2. exc' = Linked({worker.cur}, worker.inc) /\ UNCHANGED incident
    BY <1>5 DEF WorkerLink, LinkedByRule
  <2>3. /\ exc' \in [Excs -> ExcRow] /\ LinkInv' /\ Kept
        /\ exc'[worker.cur].inc # None
    BY <2>1, <2>2, Linking
  <2>4. IInv'
    BY <1>0, <1>5, <2>1, <2>3, OneOrderInv DEF IInv, TypeOK, WorkerLink, WorkerRow, Opens
  <2> QED BY <2>3, <2>4
<1>6. CASE WorkerDone
  <2> DEFINE row == [order[worker.cur] EXCEPT !.status = "DONE"]
  <2>1. worker.cur \in Pending /\ exc[worker.cur].inc # None
    BY <1>6 DEF IInv, WorkerInv, WorkerDone
  <2>2. row \in OrderRow /\ row.status = "DONE"
    BY <2>1 DEF IInv, TypeOK, OrderRow, Pending
  <2>3. order' = [order EXCEPT ![worker.cur] = row]
    BY <1>6, <2>1 DEF IInv, TypeOK, WorkerDone, Pending
  <2> HIDE DEF row
  <2> QED BY <1>6, <2>1, <2>2, <2>3, AdvanceInv DEF WorkerDone
<1>7. CASE WorkerFail
  <2> DEFINE o == order[worker.cur]
             row == Failed(o)
  <2>1. worker.cur \in Pending /\ o \in OrderRow /\ o.attempts < MaxAttempts
    BY <1>7 DEF IInv, TypeOK, WorkerInv, WorkerFail, Pending
  <2>2. /\ row \in OrderRow /\ row.status \in {"PENDING", "FAILED"}
        /\ row.status = "PENDING" => row.attempts < MaxAttempts
    <3> HIDE DEF o
    <3> DEFINE st == IF o.attempts + 1 >= MaxAttempts THEN "FAILED" ELSE "PENDING"
    <3>1. o.attempts + 1 \in 0 .. MaxAttempts
      BY <2>1, WorkerAssumption DEF OrderRow
    <3>2. st \in {"PENDING", "FAILED"} /\ (st = "PENDING" => o.attempts + 1 < MaxAttempts)
      BY <3>1, WorkerAssumption
    <3>3. row = [o EXCEPT !.status = st, !.attempts = o.attempts + 1]
      BY <2>1 DEF OrderRow, Failed
    <3> HIDE DEF st, row
    <3> QED BY <2>1, <3>1, <3>2, <3>3 DEF OrderRow
  <2>3. order' = [order EXCEPT ![worker.cur] = row]
    BY <1>7 DEF WorkerFail
  <2> HIDE DEF row
  <2> QED BY <1>7, <2>1, <2>2, <2>3, AdvanceInv DEF WorkerFail
<1> QED
  BY <1>1, <1>2, <1>3, <1>4, <1>5, <1>6, <1>7 DEF WorkerStep

(* What a step may do to the links: take that of an exception which a void *)
(* purges after a late triage.                                             *)
Keeps ==
  \A x \in Excs : exc[x].inc # None /\ exc'[x].inc = None =>
    /\ exc[x].status = "ACKNOWLEDGED"
    /\ entry[x] = "void" /\ entry'[x] = "purged"

(* A step of the entry of one exception that is not of a rule: its row is  *)
(* raised or deleted, which nothing else relies on.                        *)
LEMMA EntryStep ==
  ASSUME IInv, NEW x \in Excs \ RuleExcs, NEW row \in ExcRow,
         row.inc # None => Opens(row.inc),
         row.status \in {"NONE", "OPEN"} => row.inc = None,
         row.status = "CONVERTED" => row.inc # None,
         exc' = [exc EXCEPT ![x] = row],
         entry' \in [Excs -> {"live", "void", "purged"}],
         UNCHANGED <<incident, order, worker, licensed, req, stops>>
  PROVE  IInv'
<1>1. exc \in [Excs -> ExcRow] /\ \A y \in RuleExcs : exc'[y] = exc[y]
  BY IdAssumption DEF IInv, TypeOK
<1>2. TypeOK' /\ LinkInv' /\ RequestInv'
  BY <1>1 DEF IInv, TypeOK, LinkInv, RequestInv, Opens
<1>3. WorkerInv' /\ DoneHasIncident'
  BY <1>1, WorkerUndisturbed DEF Opens
<1> QED BY <1>2, <1>3 DEF IInv

(* What entries, incidents, the licence and a stop do.                     *)
LEMMA OtherInv ==
  ASSUME IInv,
         \/ \E x \in Excs : Raise(x) \/ Withdraw(x) \/ Void(x) \/ Purge(x)
         \/ \E x \in RuleExcs : Enqueue(x)
         \/ \E i \in Incidents : CloseIncident(i)
         \/ Stop \/ Relicense
  PROVE  IInv' /\ Keeps
<1>1. ASSUME NEW x \in Excs, Raise(x) \/ Withdraw(x) \/ Void(x) \/ Purge(x)
      PROVE  IInv' /\ Keeps
  <2>1. exc \in [Excs -> ExcRow] /\ exc[x] \in ExcRow
    BY DEF IInv, TypeOK
  <2>2. NoRow \in ExcRow /\ NoRow.inc = None /\ NoRow.status = "NONE"
    BY DEF NoRow, ExcRow
  <2>3. CASE Raise(x)
    <3> DEFINE row == [exc[x] EXCEPT !.status = "OPEN"]
    <3>1. exc[x].inc = None
      BY <2>3 DEF IInv, LinkInv, Raise, Exists
    <3>2. row \in ExcRow /\ row.inc = None /\ row.status = "OPEN"
      BY <2>1, <3>1 DEF ExcRow
    <3>3. exc' = [exc EXCEPT ![x] = row] /\ x \in Excs \ RuleExcs
      BY <2>3 DEF Raise
    <3>4. IInv'
      <4> HIDE DEF row
      <4> QED BY <2>3, <3>2, <3>3, EntryStep DEF Raise, IInv, TypeOK
    <3> QED BY <2>1, <3>1, <3>3, <3>4 DEF Keeps
  <2>4. CASE Withdraw(x)
    <3>1. exc[x].inc = None
      BY <2>4 DEF IInv, LinkInv, Withdraw, Withdrawable
    <3>2. exc' = [exc EXCEPT ![x] = NoRow] /\ x \in Excs \ RuleExcs
      BY <2>4 DEF Withdraw
    <3>3. IInv'
      BY <2>2, <2>4, <3>2, EntryStep DEF Withdraw, IInv, TypeOK
    <3> QED BY <2>1, <3>1, <3>2, <3>3 DEF Keeps
  <2>5. CASE Void(x)
    <3>1. exc' = [exc EXCEPT ![x] = exc[x]] /\ x \in Excs \ RuleExcs
      BY <2>1, <2>5 DEF Void
    <3>2. entry' \in [Excs -> {"live", "void", "purged"}]
      BY <2>5 DEF Void, IInv, TypeOK
    <3>3. /\ exc[x].inc # None => Opens(exc[x].inc)
          /\ exc[x].status \in {"NONE", "OPEN"} => exc[x].inc = None
          /\ exc[x].status = "CONVERTED" => exc[x].inc # None
      BY DEF IInv, LinkInv
    <3>4. IInv'
      BY <2>1, <2>5, <3>1, <3>2, <3>3, EntryStep DEF Void
    <3> QED BY <2>1, <2>5, <3>4 DEF Keeps, Void
  <2>6. CASE Purge(x)
    <3> DEFINE row == IF Triageable(x) THEN NoRow ELSE exc[x]
    <3>1. exc' = [exc EXCEPT ![x] = row] /\ x \in Excs \ RuleExcs
      BY <2>6 DEF Purge
    <3>2. entry' \in [Excs -> {"live", "void", "purged"}]
      BY <2>6 DEF Purge, IInv, TypeOK
    <3>3. /\ row \in ExcRow
          /\ row.inc # None => Opens(row.inc)
          /\ row.status \in {"NONE", "OPEN"} => row.inc = None
          /\ row.status = "CONVERTED" => row.inc # None
      BY <2>1, <2>2 DEF IInv, LinkInv
    <3>4. IInv'
      <4> HIDE DEF row
      <4> QED BY <2>6, <3>1, <3>2, <3>3, EntryStep DEF Purge
    <3>5. Keeps
      <4>1. ASSUME NEW y \in Excs, exc[y].inc # None, exc'[y].inc = None
            PROVE  /\ exc[y].status = "ACKNOWLEDGED"
                   /\ entry[y] = "void" /\ entry'[y] = "purged"
        <5>1. y = x /\ Triageable(x)
          BY <2>1, <3>1, <4>1
        <5>2. exc[x].status = "ACKNOWLEDGED"
          BY <4>1, <5>1 DEF Triageable, IInv, LinkInv
        <5> QED BY <2>6, <5>1, <5>2 DEF Purge, IInv, TypeOK
      <4> QED BY <4>1 DEF Keeps
    <3> QED BY <3>4, <3>5
  <2> QED BY <1>1, <2>3, <2>4, <2>5, <2>6
<1>2. ASSUME NEW x \in RuleExcs, Enqueue(x) PROVE IInv' /\ Keeps
  <2>1. /\ NewOrder \in OrderRow /\ NewOrder.attempts < MaxAttempts
        /\ NewOrder.status = "PENDING"
    BY WorkerAssumption DEF NewOrder, OrderRow
  <2>2. /\ order[x].status = "NONE" /\ order' = [order EXCEPT ![x] = NewOrder]
        /\ UNCHANGED <<exc, incident, worker, licensed, req, stops, entry>>
    BY <1>2 DEF Enqueue
  <2>3. order \in [RuleExcs -> OrderRow]
    BY DEF IInv, TypeOK
  <2>4. \A y \in RuleExcs : order'[y] = IF y = x THEN NewOrder ELSE order[y]
    BY <2>2, <2>3
  <2>5. Pending' = Pending \cup {x} /\ x \notin Pending
    BY <2>1, <2>2, <2>4 DEF Pending
  <2>6. TypeOK'
    BY <2>1, <2>2, <2>3 DEF IInv, TypeOK
  <2>7. LinkInv' /\ RequestInv'
    BY <2>2 DEF IInv, LinkInv, RequestInv, Opens
  <2>8. WorkerInv' /\ DoneHasIncident'
    BY <2>1, <2>2, <2>4, <2>5 DEF IInv, WorkerInv, DoneHasIncident, Opens
  <2> QED BY <2>2, <2>6, <2>7, <2>8 DEF IInv, Keeps
<1>3. ASSUME NEW i \in Incidents, CloseIncident(i) PROVE IInv' /\ Keeps
  <2>1. incident' \in [Incidents -> IncidentRow] /\ \A j : Opens(j) => Opens(j)'
    BY <1>3 DEF IInv, TypeOK, CloseIncident, IncidentRow, Opens
  <2>4. UNCHANGED <<exc, order, worker, licensed, req, stops, entry>>
    BY <1>3 DEF CloseIncident
  <2>5. TypeOK'
    BY <2>1, <2>4 DEF IInv, TypeOK
  <2>2. LinkInv' /\ RequestInv'
    BY <2>1, <2>4 DEF IInv, LinkInv, RequestInv
  <2>3. WorkerInv' /\ DoneHasIncident'
    BY <1>3, <2>1, WorkerUndisturbed DEF CloseIncident
  <2> QED BY <2>2, <2>3, <2>4, <2>5 DEF IInv, Keeps
<1>4. CASE Stop
  <2>1. TypeOK'
    BY <1>4, WorkerAssumption DEF IInv, TypeOK, Stop, WorkerRow, Resting, Request, Idle
  <2>2. LinkInv' /\ WorkerInv' /\ RequestInv' /\ DoneHasIncident'
    BY <1>4 DEF IInv, LinkInv, WorkerInv, RequestInv, DoneHasIncident, Stop, Resting,
       Idle, Opens
  <2> QED BY <1>4, <2>1, <2>2 DEF IInv, Stop, Keeps
<1>5. CASE Relicense
  BY <1>5 DEF IInv, TypeOK, LinkInv, WorkerInv, RequestInv, DoneHasIncident, Relicense,
     Pending, Opens, Keeps
<1> QED BY <1>1, <1>2, <1>3, <1>4, <1>5

(* IInv is inductive, and no step of any party but that purge takes a link *)
(* away.                                                                   *)
LEMMA StepInv ==
  ASSUME IInv, [Next]_vars
  PROVE  IInv' /\ Keeps
<1>1. ASSUME NEW r \in Requests, UserStep(r) PROVE IInv' /\ Keeps
  BY <1>1, UserInv DEF Keeps
<1>2. CASE WorkerStep
  BY <1>2, WorkerStepInv DEF Keeps
<1>3. CASE UNCHANGED vars
  BY <1>3 DEF vars, IInv, TypeOK, LinkInv, WorkerInv, RequestInv, DoneHasIncident,
     Pending, Opens, Keeps
<1> QED BY <1>1, <1>2, <1>3, OtherInv DEF Next

-----------------------------------------------------------------------------
(* The inductive invariant holds of every behaviour, whoever's requests    *)
(* and failures it interleaves.                                            *)
THEOREM Inductive == Spec => []IInv
<1>1. IInv /\ [Next]_vars => IInv'
  BY StepInv
<1> QED BY InitInv, <1>1, PTL DEF Spec

(* A CONVERTED or linked exception has an incident that exists, although   *)
(* stale triage and late links may land in any order.                      *)
THEOREM ConvertedAreLinked == Spec => []ConvertedLinked
<1>1. IInv => ConvertedLinked
  BY DEF IInv, LinkInv, ConvertedLinked, Opens
<1> QED BY Inductive, <1>1, PTL

(* An order that is DONE left its exception with an incident, through any  *)
(* mix of failures, retries and stops.                                     *)
THEOREM DoneOrdersOpened == Spec => []DoneHasIncident
<1>1. IInv => DoneHasIncident
  BY DEF IInv
<1> QED BY Inductive, <1>1, PTL

(* No step of a user, the worker or an entry takes the incident of an      *)
(* exception away, but the purge of a void entry whose exception was put   *)
(* back to ACKNOWLEDGED by a triage that landed after the conversion.      *)
THEOREM LinksAreKept == Spec => LinkKept
<1>1. IInv /\ [Next]_vars =>
        [\A x \in Excs : exc[x].inc # None /\ exc'[x].inc = None =>
           /\ exc[x].status = "ACKNOWLEDGED"
           /\ entry[x] = "void" /\ entry'[x] = "purged"]_vars
  BY StepInv DEF Keeps
<1> QED BY Inductive, <1>1, PTL DEF Spec, LinkKept
=============================================================================
