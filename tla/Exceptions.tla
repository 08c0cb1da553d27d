----------------------------- MODULE Exceptions -----------------------------
(***************************************************************************)
(* Operational exceptions and how they become incidents.  Two parties work *)
(* on the same rows: users, through ExceptionsService (acknowledge,        *)
(* dismiss, correct, convert, associate), and the worker of rule actions,  *)
(* which every 30 seconds takes the PENDING orders that sealing an entry   *)
(* queued, raises the exception of the rule and opens an incident for it.  *)
(*                                                                         *)
(* A user's request loads the rows and checks them, and writes later by    *)
(* id; the worker's run is a sequence of writes, each its own transaction, *)
(* of which any may fail.  The exceptions of rules are raised by orders    *)
(* only; the others (threshold, manual) by saving an entry, which may be   *)
(* voided.  The entry of an order is sealed (LogEntry!OrderOnlyForSealed)  *)
(* and not voided here (the void that races the seal is in LogEntry), its  *)
(* rule asks for an incident, and an actor sealed it.                      *)
(*                                                                         *)
(* An exception is named by its dedupeKey, which a row that is withdrawn   *)
(* and raised again keeps: a request that still holds the old row may then *)
(* write the new one, where the code, which goes by row id, would fail.    *)
(* The model allows more than the code does.  As in LogEntry, nothing in   *)
(* Next uses the variants that make a plausible mistake.                   *)
(***************************************************************************)
EXTENDS Integers, FiniteSets

CONSTANTS
  Excs,         \* ids of exceptions (LogEntryException.dedupeKey)
  RuleExcs,     \* those of cross rules, one order each
  Incidents,    \* ids of incidents
  Requests,     \* users' requests in flight
  None,         \* null
  MaxAttempts,  \* MAX_ATTEMPTS: failures after which an order is FAILED
  BatchSize,    \* BATCH: orders taken per run
  MaxStops      \* bound: times the process stops

ASSUME IdAssumption ==
  /\ RuleExcs \subseteq Excs /\ None \notin Excs \cup Incidents
ASSUME WorkerAssumption ==
  /\ MaxAttempts \in Nat \ {0} /\ BatchSize \in Nat \ {0} /\ MaxStops \in Nat

VARIABLES
  exc,       \* LogEntryException rows: status and incidentId
  incident,  \* Incident rows: lifecycle, and the order that opened each
  order,     \* RuleActionOutbox rows
  worker,    \* the run of processPending
  licensed,  \* is the module "exceptions" in the licence?
  req,       \* users' requests in flight
  stops,     \* times the process has stopped
  entry      \* the entry of each exception: is it VOID, and purged?

vars == <<exc, incident, order, worker, licensed, req, stops, entry>>

-----------------------------------------------------------------------------
ExcRow == [status : {"NONE", "OPEN", "ACKNOWLEDGED", "DISMISSED", "CORRECTED",
                     "CONVERTED"},
           inc : Incidents \cup {None}]
IncidentRow == [lifecycle : {"ABSENT", "OPEN", "CLOSED"}, rule : RuleExcs \cup {None}]
OrderRow == [status : {"NONE", "PENDING", "DONE", "FAILED"},
             attempts : 0 .. MaxAttempts,
             older : SUBSET RuleExcs]  \* the orders created before this one

(* A run of the worker: its current order, the rest of its batch, the step *)
(* it is at and the incident it opened for the order                       *)
WorkerRow == [pc : {"idle", "raise", "check", "open", "link", "done"},
              cur : RuleExcs \cup {None}, rest : SUBSET RuleExcs,
              inc : Incidents \cup {None}]
Resting == [pc |-> "idle", cur |-> None, rest |-> {}, inc |-> None]

Request == [pc : {"idle", "write", "open"},
            kind : {"acknowledge", "dismiss", "correct", "convert", "associate", "none"},
            xs : SUBSET Excs, inc : Incidents \cup {None}]
Idle == [pc |-> "idle", kind |-> "none", xs |-> {}, inc |-> None]

TypeOK ==
  /\ exc \in [Excs -> ExcRow]
  /\ incident \in [Incidents -> IncidentRow]
  /\ order \in [RuleExcs -> OrderRow]
  /\ worker \in WorkerRow
  /\ licensed \in BOOLEAN
  /\ req \in [Requests -> Request]
  /\ stops \in 0 .. MaxStops
  /\ entry \in [Excs -> {"live", "void", "purged"}]

NoRow == [status |-> "NONE", inc |-> None]

Init ==
  /\ exc = [x \in Excs |-> NoRow]
  /\ incident = [i \in Incidents |->
                   [lifecycle |-> "ABSENT", rule |-> None]]
  /\ order = [x \in RuleExcs |-> [status |-> "NONE", attempts |-> 0, older |-> {}]]
  /\ worker = Resting
  /\ licensed = TRUE
  /\ req = [r \in Requests |-> Idle]
  /\ stops = 0
  /\ entry = [x \in Excs |-> "live"]

-----------------------------------------------------------------------------
(* Rows *)

Triageable(x) == exc[x].status \in {"OPEN", "ACKNOWLEDGED"}

(* isExceptionResolved *)
Resolved(x) == exc[x].status \in {"DISMISSED", "CONVERTED", "CORRECTED"}

Exists(x) == exc[x].status # "NONE"

(* incidents.create, as seen from here: a row with a fresh id, opened by   *)
(* the order of exception x or, if x is None, by a user                    *)
Unused == {i \in Incidents : incident[i].lifecycle = "ABSENT"}
FreshIncident == CHOOSE i \in Unused : TRUE
Opened(x) == [incident EXCEPT ![FreshIncident] = [lifecycle |-> "OPEN", rule |-> x]]

(* The exceptions end CONVERTED and linked to the incident *)
Linked(xs, i) ==
  [x \in Excs |-> IF x \in xs THEN [status |-> "CONVERTED", inc |-> i] ELSE exc[x]]

-----------------------------------------------------------------------------
(* What comes from the entries: an exception is raised by a reading out of *)
(* range, withdrawn while nobody treated it, and an order is queued by the *)
(* seal                                                                    *)

Raise(x) ==
  /\ x \notin RuleExcs /\ ~Exists(x)
  /\ exc' = [exc EXCEPT ![x].status = "OPEN"]
  /\ UNCHANGED <<incident, order, worker, licensed, req, stops, entry>>

WithdrawableAny(x) == Triageable(x)
Withdrawable(x) == exc[x].status = "OPEN"

Withdraw(x) ==
  /\ x \notin RuleExcs /\ Withdrawable(x)
  /\ exc' = [exc EXCEPT ![x] = NoRow]
  /\ UNCHANGED <<incident, order, worker, licensed, req, stops, entry>>

(* voidEntry, in two writes: the entry is VOID; later its exceptions that   *)
(* are OPEN or ACKNOWLEDGED are deleted, and nobody asks for their link    *)
Void(x) ==
  /\ x \notin RuleExcs /\ entry[x] = "live"
  /\ entry' = [entry EXCEPT ![x] = "void"]
  /\ UNCHANGED <<exc, incident, order, worker, licensed, req, stops>>

(* purgeProvisionalForEntry *)
Purge(x) ==
  /\ x \notin RuleExcs /\ entry[x] = "void"
  /\ exc' = [exc EXCEPT ![x] = IF Triageable(x) THEN NoRow ELSE @]
  /\ entry' = [entry EXCEPT ![x] = "purged"]
  /\ UNCHANGED <<incident, order, worker, licensed, req, stops>>

(* RuleActionEmitterService.emit: one order per entry and rule *)
NewOrder ==
  [status |-> "PENDING", attempts |-> 0,
   older |-> {y \in RuleExcs : order[y].status # "NONE"}]

Enqueue(x) ==
  /\ order[x].status = "NONE"
  /\ order' = [order EXCEPT ![x] = NewOrder]
  /\ UNCHANGED <<exc, incident, worker, licensed, req, stops, entry>>

(* IncidentsService closes or cancels an incident *)
CloseIncident(i) ==
  /\ incident[i].lifecycle = "OPEN"
  /\ incident' = [incident EXCEPT ![i].lifecycle = "CLOSED"]
  /\ UNCHANGED <<exc, order, worker, licensed, req, stops, entry>>

-----------------------------------------------------------------------------
(* ExceptionsService: a request loads and checks, then writes               *)

Load(r, kind, xs, i, pc) ==
  /\ req[r] = Idle
  /\ req' = [req EXCEPT ![r] = [pc |-> pc, kind |-> kind, xs |-> xs, inc |-> i]]
  /\ UNCHANGED <<exc, incident, order, worker, licensed, stops, entry>>

LoadTriage(r, kind, x) ==
  /\ kind \in {"acknowledge", "dismiss"}
  /\ Triageable(x) /\ Load(r, kind, {x}, None, "write")

(* Only an exception of a field has a value to correct *)
LoadCorrect(r, x) ==
  /\ Exists(x) /\ ~Resolved(x) /\ x \notin RuleExcs
  /\ Load(r, "correct", {x}, None, "write")

LoadConvert(r, xs) ==
  /\ xs # {} /\ \A x \in xs : Exists(x) /\ ~Resolved(x)
  /\ Load(r, "convert", xs, None, "open")

LoadAssociate(r, xs, i) ==
  /\ xs # {} /\ \A x \in xs : Exists(x) /\ ~Resolved(x)
  /\ incident[i].lifecycle = "OPEN"
  /\ Load(r, "associate", xs, i, "write")

(* convert opens the incident in a write of its own *)
ConvertOpen(r) ==
  /\ req[r].pc = "open" /\ Unused # {}
  /\ incident' = Opened(None)
  /\ req' = [req EXCEPT ![r] = [@ EXCEPT !.pc = "write", !.inc = FreshIncident]]
  /\ UNCHANGED <<exc, order, worker, licensed, stops, entry>>

TriagedStatus(kind) ==
  CASE kind = "acknowledge" -> "ACKNOWLEDGED"
    [] kind = "dismiss"     -> "DISMISSED"
    [] kind = "correct"     -> "CORRECTED"

(* An update by id fails, and rolls back, when a row is gone *)
Write(r) ==
  LET q == req[r] IN
  /\ q.pc = "write" /\ \A x \in q.xs : Exists(x)
  /\ exc' = IF q.kind \in {"convert", "associate"} THEN Linked(q.xs, q.inc)
            ELSE [x \in Excs |-> IF x \in q.xs
                                 THEN [exc[x] EXCEPT !.status = TriagedStatus(q.kind)]
                                 ELSE exc[x]]
  /\ req' = [req EXCEPT ![r] = Idle]
  /\ UNCHANGED <<incident, order, worker, licensed, stops, entry>>

(* Any other guard refuses, or a write fails: nothing more is written *)
Refuse(r) ==
  /\ req[r].pc # "idle"
  /\ req' = [req EXCEPT ![r] = Idle]
  /\ UNCHANGED <<exc, incident, order, worker, licensed, stops, entry>>

-----------------------------------------------------------------------------
(* RuleActionWorkerService.processPending                                   *)

Pending == {x \in RuleExcs : order[x].status = "PENDING"}

(* The batch: the oldest PENDING orders, taken in the order of createdAt   *)
Batch == {x \in Pending : Cardinality(order[x].older \cap Pending) < BatchSize}
Oldest(batch) == {x \in batch : order[x].older \cap batch = {}}

TakeUp(x, batch) == [pc |-> "raise", cur |-> x, rest |-> batch \ {x}, inc |-> None]

(* The licence gate and the in-memory lock are tested as a run starts *)
WorkerStart ==
  /\ licensed /\ worker.pc = "idle"
  /\ \E x \in Oldest(Batch) : worker' = TakeUp(x, Batch)
  /\ UNCHANGED <<exc, incident, order, licensed, req, stops, entry>>

(* createRuleException: idempotent by dedupeKey *)
WorkerRaise ==
  /\ worker.pc = "raise"
  /\ exc' = IF Exists(worker.cur) THEN exc ELSE [exc EXCEPT ![worker.cur].status = "OPEN"]
  /\ worker' = [worker EXCEPT !.pc = "check"]
  /\ UNCHANGED <<incident, order, licensed, req, stops, entry>>

(* The exception is read again: linked, the order is done *)
NextAfterCheckResolved(x) == IF Resolved(x) THEN "done" ELSE "open"

NextAfterCheck(x) == IF exc[x].inc # None THEN "done" ELSE "open"

WorkerCheck ==
  /\ worker.pc = "check"
  /\ worker' = [worker EXCEPT !.pc = NextAfterCheck(worker.cur)]
  /\ UNCHANGED <<exc, incident, order, licensed, req, stops, entry>>

WorkerOpen ==
  /\ worker.pc = "open" /\ Unused # {}
  /\ incident' = Opened(worker.cur)
  /\ worker' = [worker EXCEPT !.pc = "link", !.inc = FreshIncident]
  /\ UNCHANGED <<exc, order, licensed, req, stops, entry>>

(* One transaction links and converts the exception, whatever its status *)
LinkedByRule(x, i) == Linked({x}, i)

WorkerLink ==
  /\ worker.pc = "link"
  /\ exc' = LinkedByRule(worker.cur, worker.inc)
  /\ worker' = [worker EXCEPT !.pc = "done"]
  /\ UNCHANGED <<incident, order, licensed, req, stops, entry>>

(* On to the next order of the batch *)
Advance ==
  IF worker.rest = {} THEN worker' = Resting
  ELSE \E x \in Oldest(worker.rest) : worker' = TakeUp(x, worker.rest)

WorkerDone ==
  /\ worker.pc = "done"
  /\ order' = [order EXCEPT ![worker.cur].status = "DONE"]
  /\ Advance
  /\ UNCHANGED <<exc, incident, licensed, req, stops, entry>>

(* A failed order goes back to PENDING until it has failed MaxAttempts     *)
(* times                                                                   *)
FailedUncounted(o) == o

FailedPastLimit(o) ==
  [o EXCEPT !.status = IF o.attempts + 1 > MaxAttempts THEN "FAILED" ELSE "PENDING",
            !.attempts = @ + 1]

Failed(o) ==
  [o EXCEPT !.status = IF o.attempts + 1 >= MaxAttempts THEN "FAILED" ELSE "PENDING",
            !.attempts = @ + 1]

WorkerFail ==
  /\ worker.pc # "idle"
  /\ order' = [order EXCEPT ![worker.cur] = Failed(@)]
  /\ Advance
  /\ UNCHANGED <<exc, incident, licensed, req, stops, entry>>

(* The process stops, or the database goes away and not even the failure   *)
(* can be recorded: the run and the requests in flight are lost; what they *)
(* committed stays                                                         *)
Stop ==
  /\ stops < MaxStops /\ stops' = stops + 1
  /\ worker' = Resting /\ req' = [r \in Requests |-> Idle]
  /\ UNCHANGED <<exc, incident, order, licensed, entry>>

(* A licence is loaded, with or without the module *)
Relicense ==
  /\ licensed' = ~licensed
  /\ UNCHANGED <<exc, incident, order, worker, req, stops, entry>>

-----------------------------------------------------------------------------
UserStep(r) ==
  \/ \E x \in Excs, kind \in {"acknowledge", "dismiss"} : LoadTriage(r, kind, x)
  \/ \E x \in Excs : LoadCorrect(r, x)
  \/ \E xs \in SUBSET Excs : LoadConvert(r, xs)
  \/ \E xs \in SUBSET Excs, i \in Incidents : LoadAssociate(r, xs, i)
  \/ ConvertOpen(r) \/ Write(r) \/ Refuse(r)

WorkerStep ==
  \/ WorkerStart \/ WorkerRaise \/ WorkerCheck
  \/ WorkerOpen \/ WorkerLink \/ WorkerDone \/ WorkerFail

Next ==
  \/ \E x \in Excs : Raise(x) \/ Withdraw(x) \/ Void(x) \/ Purge(x)
  \/ \E x \in RuleExcs : Enqueue(x)
  \/ \E i \in Incidents : CloseIncident(i)
  \/ \E r \in Requests : UserStep(r)
  \/ WorkerStep \/ Stop \/ Relicense

(* @Cron runs the worker for ever, and each of its awaits settles *)
Spec == Init /\ [][Next]_vars /\ WF_vars(WorkerStep)

-----------------------------------------------------------------------------
(* An exception that is CONVERTED has an incident, and it really exists.   *)
(* convert and the worker open the incident before they link it, and a     *)
(* stale triage that lands later does not bring the exception back to      *)
(* CONVERTED without one.                                                  *)
ConvertedLinked ==
  \A x \in Excs : exc[x].inc # None \/ exc[x].status = "CONVERTED" =>
    exc[x].inc # None /\ incident[exc[x].inc].lifecycle # "ABSENT"

(* An order that is DONE left its exception with an incident, through any  *)
(* mix of failures, retries, stops and users working on the exception.     *)
DoneHasIncident ==
  \A x \in RuleExcs : order[x].status = "DONE" => exc[x].inc # None

(* Their inductive strengthening: what is untreated is not linked; what    *)
(* the worker holds is still pending, under the limit of failures; and     *)
(* whoever is about to link an exception has an incident to link it to.    *)
Opens(i) == i \in Incidents /\ incident[i].lifecycle # "ABSENT"

LinkInv ==
  \A x \in Excs :
    /\ exc[x].inc # None => Opens(exc[x].inc)
    /\ exc[x].status \in {"NONE", "OPEN"} => exc[x].inc = None
    /\ exc[x].status = "CONVERTED" => exc[x].inc # None

WorkerInv ==
  /\ \A x \in RuleExcs : order[x].status \in {"NONE", "PENDING"} =>
       order[x].attempts < MaxAttempts
  /\ worker.pc # "idle" =>
       /\ worker.cur \in Pending /\ worker.rest \subseteq Pending \ {worker.cur}
       /\ worker.pc = "link" => Opens(worker.inc)
       /\ worker.pc = "done" => exc[worker.cur].inc # None

RequestInv ==
  \A r \in Requests :
    /\ req[r].pc # "idle" => req[r].kind # "none"
    /\ req[r].pc = "open" => req[r].kind = "convert"
    /\ req[r].pc = "write" /\ req[r].kind \in {"convert", "associate"} =>
         Opens(req[r].inc)

IInv == TypeOK /\ LinkInv /\ WorkerInv /\ RequestInv /\ DoneHasIncident

(* A linked exception keeps an incident: neither a triage that was checked *)
(* before the conversion nor the withdrawal of a value that is back in     *)
(* range loses it.  One step can: the purge of a void entry, of an         *)
(* exception that such a triage put back to ACKNOWLEDGED.                  *)
LinkKept ==
  [][\A x \in Excs : exc[x].inc # None /\ exc'[x].inc = None =>
       /\ exc[x].status = "ACKNOWLEDGED"
       /\ entry[x] = "void" /\ entry'[x] = "purged"]_vars

(* "PROVISIONALES (OPEN/ACKNOWLEDGED, sin artefacto aguas abajo)": what a  *)
(* void purges has no incident, so no step takes one away.                 *)
PurgeKeepsLinks ==
  [][\A x \in Excs : exc[x].inc # None => exc'[x].inc # None]_vars

(* Orders are never forgotten: once the licence stays, each is DONE or     *)
(* FAILED in the end, and a failing order does not starve those behind it. *)
OrderSettled ==
  (<>[]licensed) =>
    \A x \in RuleExcs : order[x].status = "PENDING" ~> order[x].status \in {"DONE", "FAILED"}

(* "UNA materialización por (entrada, regla)": however often an order is   *)
(* retried, the worker opens one incident for its exception.               *)
RuleOpensOnce ==
  \A x \in RuleExcs :
    Cardinality({i \in Incidents : incident[i].rule = x}) <= 1

=============================================================================
