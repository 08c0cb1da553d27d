# Lyra WatchLog: formal specification

TLA+ models of the core of the Lyra WatchLog API (`src/apps/watchlog-api`), model-checked with TLC and, for
the properties that matter most, proved with TLAPS. Line numbers are those of the repository; service files are
named without their path when there is only one of that name.

1. [The system](#1-the-system)
2. [The modules](#2-the-modules)
3. [The runs](#3-the-runs)
4. [Fairness](#4-fairness)
5. [The proofs](#5-the-proofs)
6. [Where code and documentation disagree](#6-where-code-and-documentation-disagree)
7. [What is not modelled](#7-what-is-not-modelled)
8. [Plan](#8-plan)

## 1. The system

WatchLog replaces paper logbooks in industrial plants. It is a NestJS API over PostgreSQL (Prisma, READ
COMMITTED), a React client, and shared packages (contracts, permissions, licensing, llm, ui). One process per
installation answers HTTP requests and runs the `@Cron` workers; requests and workers interleave at every `await`.

### Components

| Component | State | Operations | Interacts with |
|---|---|---|---|
| Log entries (`log-entries.service.ts`) | `LogEntry` (status, sealedAt, folio, currentStateKey, effectiveAt, declaredEffectiveAt), `LogEntrySection` (state, version), `LogEntryValue`, `LogEntrySignature` | create, saveSection, setDeferral, submit, executeTransition, voidEntry | folio, exceptions, rounds, rule actions and notifications inside its transaction; periods and scope as guards |
| Folio (`folio.service.ts`) | `FolioCounter.lastValue` per series | `next(tx)` | entries, work orders |
| Exceptions (`exceptions/`) | `LogEntryException` (status, incidentId) | reconcileField on each save, createRuleException, acknowledge, dismiss, correct, convert, associate | entries, incidents, rule worker |
| Rule actions (`rule-actions/`) | `RuleActionOutbox` (status, attempts) | emit in the transaction of the seal; worker every 30 s | entries, exceptions, incidents |
| Incidents (`incidents/`) | `Incident`, CAPA actions, investigation, reports | create, assign, transition through gates, reopen | exceptions, work orders |
| Schedules and rounds (`schedules.service.ts`) | `LogSchedule.lastGeneratedThrough`, `RoundOccurrence` (status, logEntryId) | generate, start, skip, sweep | entries |
| Notifications (`notifications/`) | `NotificationEvent`, `NotificationOutbox` (status, attempts, nextAttemptAt) | emit, sweep, dispatch, send, purge, retryOutbox | all emitters, licence |
| Operational periods (`operational-periods.service.ts`) | `OperationalPeriod.status` | generate, close, lock, unlock, reopen in sequence | guard on entries |
| Work orders (`work-orders/`) | `WorkOrder` (lifecycle, state, folio, frozen plan, confirmations), activities, checklists, roster | create, update, transition through four gates, cancel; edit plan, checklists and roster, confirm | incidents, folio, entries |
| Shift handover (`shift-handover/`) | `ShiftHandover` (status, signatures, snapshot), items (the baton) | compile, addItem, updateItem, signOut, acknowledge, cancel | incidents, actions and reports it reads |
| Sessions (`auth/`) | `RefreshToken` families, failed-login counters, MFA, resets | login, refresh, logout | authorization |
| Licensing | licence snapshot | load, evaluate | workers, guards |
| Templates, workflows, rules, lists, structure, equipment | versioned definitions, catalogues | edit draft, publish | frozen by each entry at creation |
| Calendars (`shift-resolver.ts`, `fiscal-resolver.ts`) | none (pure) | instant to shift, day, period | entries, rounds |
| Setup, audit, email, storage, AI, settings, web client, command-line tools | configuration, logs, I/O | — | — |

`PROJECT.json` lists every component with its sources and its status.

### What is hard in it

* **Read, then write by id.** A handler loads a row, tests it, awaits other reads (scope, permissions, period,
  template version), and then opens a transaction whose updates name rows by id only. At READ COMMITTED nothing
  tests the row again. Two requests on one entry, a triage against a conversion, a retry against the sender: each
  may act on a row that has changed. This is the shape every module here gives to a handler: *load*, *check*, *commit*.
* **Several writes without a transaction.** `voidEntry`, `startOccurrence`, `convert` and the rule worker write two to
  five times; the process may stop, or a write may fail, between two of them.
* **Outboxes.** Seals queue rule orders and notification events in their own transaction; workers take them up
  later, retry them a bounded number of times, and must neither forget an order nor let one block the others.
* **Two workflows in one row.** Sections are locked and reopened as the entry moves between stages; the seal is at
  the *first* transition, while sections go on being filled in later stages.
* **The licence.** A restricted licence stops the workers, except for the notices of the licence itself.

### What makes each component correct

* Entries: a sealed record does not move (folio, effective date, origin); nothing gets past the first stage unsealed;
  section locks agree with the stage; a signature covers the values it was stored with, the computed ones too until the seal; exceptions follow the values that people enter.
* Folio: unique, without gap.
* Rounds: an occurrence is COMPLETED exactly by a sealed entry, and released by a void.
* Exceptions, rule actions: a converted exception has an incident and keeps it, unless its entry is voided; an order that is DONE has its
  incident; every order is settled; one incident per entry and rule.
* Notifications: an event that is DISPATCHED has a message for each recipient; everything pending is settled;
  what was sent is queued again by nothing but an administrator; licence notices always flow.
* Periods: a period is open before a shut one only if somebody confirmed it or it was generated late; the books of a
  locked period stand.
* Incidents: a closed incident stays resolved; an authority is told once.
* Work orders: no execution without approval, frozen plan and documented permit, while the order keeps its type; what is
  applied is what was authorised; nothing mandatory is pending at the closing.
* Schedules: every slot gets its occurrence once; none is skipped, none is lost once due.
* Handover: one per node and shift, signed by two persons; pending notes roll; an acknowledged one is final.
* Sessions: one successor per refresh token.

## 2. The modules

| Module | What it is |
|---|---|
| `LogEntry` | entries, sections, values, exceptions of fields, signatures, folio series, rounds, and requests in flight |
| `Exceptions` | triage and conversion of exceptions by users, and the worker of rule actions |
| `Notifications` | emitter, dispatcher, sender, retry and purge |
| `WorkOrders` | an order with its plan of activities, checklists and roster, and the gates of its workflow |
| `Schedules` | the rounds of a schedule, their generation and its watermark |
| `Incidents` | an incident with its corrective actions, investigation and reports, and the gates of its closing |
| `ShiftHandover` | the handovers of an area and the items that roll from one to the next |
| `OperationalPeriods` | the accounting periods of a calendar and their guard on the records |
| `GxpRecord` | what a logbook entry promises as a regulated record; `LogEntry` implements it |
| `MC...` | values of the constants for TLC, one module for each of the first eight |
| `...Proofs` | theorems and proofs, likewise |

`LogEntry` and `Exceptions` meet at two points. `LogEntry` queues an order when an entry is sealed
(`orders`, `SealedOrders`), and `Exceptions` starts from such an order (`Enqueue`): what it relies on, that the
entry of an order is sealed, is `LogEntry!OrderOnlyForSealed`, proved (`OrdersAreSealed`). And both hold the status of an exception:
`LogEntry` relates it to values (there a triage is one step), `Exceptions` relates it to incidents (there it is a
read and a later write).

The other modules meet these at a few rows, each modelled in full on one side and as a free choice on the other:
`Exceptions` opens incidents (`Incidents!Create`) and sees them closed (`CloseIncident`); `LogEntry` has the entry of an
occurrence that `Schedules` generated (there, `TAKEN`); `ShiftHandover!Domain` lets incidents, actions and reports open and
close at any time; `OperationalPeriods` keeps, of a record, only what its guard reads. All eight have the same shape: a
request loads, checks and commits by id, `MayOverlap` says whether two may be in flight, and `MayCrash` whether the
process may stop between two writes.

### LogEntry

| State | Rows |
|---|---|
| `entry[e]` | `LogEntry`: status, `sealed` (sealedAt), folio (0 for null), `cur` (currentStateKey), `declared` (declaredEffectiveAt), `eff` (effectiveAt; `None` is the capture instant) |
| `section[e][s]`, `value[e][s]` | `LogEntrySection` (state, version) and the values of its fields |
| `exc[e][s]` | the threshold exception of the section's field: status, and whether it carries the seal |
| `computed[e]` | the computed field: its stored value, and its exception |
| `signature[e]` | the values the last signature covers, entered and computed |
| `orders`, `events` | `RuleActionOutbox` and `NotificationEvent` rows the entries queued |
| `round[o]`, `counter` | `RoundOccurrence` rows, `FolioCounter.lastValue` |
| `req[r]` | a request: its step, target and what it read |

| Handler | Actions | Lines |
|---|---|---|
| `create` | `Create` | 255-379 |
| `saveSection` | `LoadSave`, `CheckSave`, `CommitSave` | 681-1016 |
| `submit` | `LoadSubmit`, `CheckSubmit`, `CommitSubmit` | 1020-1116 |
| `setDeferral` | `LoadDefer`, `CheckDefer`, `CommitDefer` | 1130-1210 |
| `voidEntry` | `LoadVoid`, `VoidRow`, `VoidUnlink`, `VoidPurge` | 1227-1283 |
| `executeTransition` | `LoadTransition`, `CheckTransition`, `CommitTransition` | 1633-1860 |
| `startOccurrence`, `skipOccurrence` | `LoadRound`, `StartCreate`, `StartLink`, `CommitSkip` | `schedules.service.ts` 312-350 |
| `acknowledge`, `dismiss`, `correct` | `Triage`, `Correct`; `TriageComputed`, `CorrectComputed` | `exceptions.service.ts` 91-209 |

Abstractions:

* A `$transaction` is one atomic step. It reads nothing that its writes depend on except where the code does
  (`writeEffectiveDateValue`, `reconcileField`, the counter), and those reads are taken inside the step.
* `Check...` takes the reads of sections and values as one; in the code they are consecutive awaits.
* Guards that can only refuse (permissions, node and template scope, equipment, period, edit window, field
  validation, re-authentication) are one action, `Reject`: any request may end before its first write. In
  particular the client's version in `saveSection` is the one just read, or the request is rejected.
* A section has one field, one section may hold the effective date, and the template has one cross rule, which
  fires when a measurement alarms. Attachments, comments and audit rows are left out; no property reads them.
* One computed field stands for all, in the section `CalcSection`, with any `Formula` over the others. Each handler computes it
  anew from what it read and its input (`Computed`: 765, 1036, 1667), stamps it into the row until the seal (`Stamped`:
  914, 1072, 1737), signs what it computed (`Snapshot`: 921, 1742), and a save reconciles its exception when its section is
  the saved one, by what was computed, stored or not (`SavedComputed`: 973).
* A correction takes any value, none included: `correct` validates it (`exceptions.service.ts` 158-174) but does not ask whether
  the field is required, and it computes nothing anew.
* One template version is a constant: versions are frozen per entry. Some entries (`FlowEntries`) have a workflow,
  some (`FolioEntries`) a folio scheme, and all folios come from one series.
* `MayOverlap` lets two requests be in flight on one row, and `MayCrash` lets the process stop between two writes.
  Both are possible in the program. Properties stated with both off are those that hold of requests that follow
  one another: they say that each handler is right by itself, and section 3 says which of them do not survive a race.

### Exceptions

`exc`, `incident` and `order` are the rows; `worker` is the run of `processPending` (its batch, current order and the
step of `execute` it is at); `req` are the users' requests. `order[x].older` stands for `createdAt`.
`Raise`, `Withdraw`, `Void` with `Purge`, and `Enqueue` are what entries do to these rows, and `CloseIncident` what incidents do. `entry[x]`
says whether the entry of an exception is VOID, and purged.

| Code | Actions |
|---|---|
| `ExceptionsService.acknowledge`, `dismiss`, `correct`, `convert`, `associate` | `LoadTriage`, `LoadCorrect`, `LoadConvert`, `LoadAssociate`, then `ConvertOpen` and `Write` |
| `RuleActionWorkerService.processPending` (54-94) | `WorkerStart`, `WorkerDone`, `WorkerFail` |
| `execute` (157-211), `createRuleException` | `WorkerRaise`, `WorkerCheck`, `WorkerOpen`, `WorkerLink` |

* Any step of the worker may fail (`WorkerFail`), also the one that marks the order DONE; `Stop` is a process that
  stops, or a failure that cannot be recorded. Any request of a user may be refused or fail (`Refuse`).
* `incidents.create` is one step. It is itself more than one write, and a failure after its first leaves an incident as well.
* An exception is named by its dedupeKey, not by its row id; a row withdrawn and raised again keeps its name, which
  allows the model a late write that the code would refuse.
* `Purge` goes by status alone (`exception-generator.service.ts` 101-105): it deletes what is OPEN or ACKNOWLEDGED, incident or not.
* Orders that only raise an exception, and orders closed as DONE because their rule or entry is gone, end after
  `WorkerRaise` or before; they open no incident and are left out.

### Notifications

`event` and `row` are the statuses of `NotificationEvent` and `NotificationOutbox`; a message is an event with an
address (a recipient on a channel), which is what its dedupeKey says. `backoff` holds the messages whose
nextAttemptAt is still to come. `dispatch` and `sender` are the runs of the two loops, which go on side by side.

| Code | Actions |
|---|---|
| `emit` | `Emit` |
| `dispatchPending` (182-243), `resolve` | `DispatchStart`, `DispatchResolve`, `DispatchInsert`, `DispatchMark`, `DispatchFail` |
| `sendPending` (247-335) | `SendStart`, `SendMail`, `SendDeliver`, `SendMark`, `SendFail`, `Elapse` |
| `retryOutbox` (`notifications.service.ts` 435-452) | `RetryCheck`, `RetryWrite` |
| `purgeReadInApp` | `Purge` |

* The resolver is a free choice among the addresses an event can reach: subscriptions, preferences and scope may
  have changed between two runs. Whether mail is enabled is a free choice of each run of the sender.
* A run takes all that is pending: the backlog fits in a batch of 100.
* The licence is read together with the batch.

### GxpRecord, and the refinement

`GxpRecord` says what an entry promises, in seven actions over whole records: open, amended at will, sealed once (which gives
the next number of the series and fixes the dates and what is derived from the content), filled further until closed, void only before the seal, and a
flagged field settled, with or without correcting it. `LogEntry!Record` is its instance under the mapping

| `GxpRecord` | `LogEntry` |
|---|---|
| `state` | `RecordState(e)`: none, open (DRAFT), sealed (DRAFT with sealedAt), closed (SUBMITTED), void |
| `number`, `issued` | folio, counter |
| `date` | effective and declared date |
| `content`, `flagged` | values, the computed one too (`Derived`), and the fields whose exception nobody treated yet (`Flags`) |

`RecordKept` (`Record!Spec`) is a property of `entry_flow`, and a theorem for requests that follow one another. It subsumes the
frozen dates and computed value of a sealed entry, the frozen values of a submitted one, the series without gap and that a void entry was never
sealed, each of which a race can break (section 3).

### WorkOrders

`order` is the row, with `cur` for the stage and the flags for approvedAt, folio, planFrozenAt, executionSetConfirmedAt and
rosterConfirmedAt; `activity`, `check` and `roster` are its other tables. A checklist is named by its template and activity.
`seen` and `cut` are history: what the approver found when confirming (`saw`), and the confirmations that a request left standing
when it stopped just short of withdrawing them.

| Code | Actions |
|---|---|
| `WorkOrdersService.create`, `update`, `cancel` | `Create`, `CommitUpdate` and `CommitRetype`, `CommitCancel` |
| `transition` (350-567) | `Load`, `Check` (gates 1 to 4), `CommitTransition`, then `DeriveOne`, `DeriveEnd`, `ClearSet` |
| `WorkActivitiesService` | `CommitActivity` |
| `WorkOrderChecklistsService`: `suggest`, `addManual`, `remove`, `instantiate`, `submit`, `review`, `confirmExecutionSet` | `BeginSuggest`, `CommitAddManual`, `CommitRemoveCheck`, `CommitCheck`, `CommitConfirmSet`, `ClearSet` |
| `WorkOrderRosterService`: `addWorker`, `removeWorker`, `confirmRoster` | `CommitWorker`, `CommitConfirmRoster`, `ClearRoster` |

* The stages of the gates are fields of the type of order (`Stages`), read anew at each transition (389-396), and `update` may change
  the type (604) while the workflow stays. `retyped` remembers that it did: gates 1 and 3 and the permit are then promised no
  more, approval, folio, closing and confirmations still are. `Retypes` bounds where TLC tries it. `GateAssumption` says that the workflow has, for
  the type an order starts with, no other way past gates 1 and 3, except the shortcut to execution that the code itself guards against (416-421). `ClosingAssumption`:
  the stages that approve, derive checklists or execute are not final, so that closing derives nothing. `PermitAssumption`: the stages where the permit stands
  (`Permitted`) are entered by gate 2 or by that shortcut, and nothing leads back from beyond gate 3. The workflow that
  the repository seeds (`prisma/work-orders-seed-data.ts`) satisfies all three; an edited one may not, and then only what is
  proved without them is promised.
* Deriving checklists and withdrawing a confirmation are separate writes after the transition commits, in any order the
  rules come in; `Crash` leaves what was written.
* Competencies, signatures, the segregation of reviewer and responsible, and the sealed entry behind a checklist can
  only refuse (`Reject`).

### Schedules

Time is in units, `DayLength` a day. `schedule` is the row with its watermark `mark` (lastGeneratedThrough), `occ[s]` the occurrence
scheduled for `s` (the unique key is schedule and instant). `base` and `stale` are history: where generation began since
the watermark was reset, or the horizon of the last run that met the cap; and what an update that stopped left undeleted.

| Code | Actions |
|---|---|
| `generateForSchedule` (229-270), `enumerateOccurrences` | `Generate`, `Mark`; `Enumerate` |
| `generateAllActive`, the worklist | `LoadGenerate` |
| `create`, `update`, `remove` | `Create`; `LoadUpdate`, `UpdateRow`, `Purge`; `LoadRemove`, `Remove` |
| `startOccurrence`, `skipOccurrence` | `LoadOccurrence`, `CommitOccurrence` |

* SHIFT and CALENDAR are times of the day (`DAILY`); INTERVAL keeps the arithmetic of the code, which lays its grid from the anchor of
  the day before `from`, and the cap of slots a run (`Enumerate`, `MaxSlots`). Time zones are left out: every day has the same
  length. `Steady` recurrences are those whose grid does not depend on the day it is laid from.
* `now` moves at any point (`Tick`), also inside a run of the generator, which reads the clock for each of its tests.

### Incidents

`incident` is the row with its stage, type and whether it is severe; `action`, `investigation` and `report` its tables.

| Code | Actions |
|---|---|
| `IncidentsService.create`, `update`, `transition`, `cancel` | `Create`, `CommitIncident` |
| `IncidentActionsService`, `IncidentInvestigationService`, `IncidentReportsService` | `CommitAction`, `CommitInvestigation`, `CommitReport` |
| `materializeForIncident` | `BeginDerive`, `Derive`, `DeriveOne` (one write for each report) |

`Begin` is the load with its checks (`Allows`), `Abandon` a refusal or a stop. A report created when the incident is no longer
open is marked `late`, which is history: the code derives again on closed incidents too.

### ShiftHandover

`handover[h]`, numbered in the order of creation, has status, the two signatures and the frozen cockpit (`snapshot`); `item[h][l]` is the
status of its item for a note a person wrote or for an object of the domain. `open` is what is open in the whole organisation,
`Area` what is of the area, `Sees[u]` what is in the scope of `u`. `acked` stands for what the timestamps tell.

| Code | Actions |
|---|---|
| `compile` (80-129), `rollBatonFromPrevious`, `syncBaton` | `BeginCompile`, `Create`, `Roll`, `Cockpit`, `AddMissing`, `CloseStale` |
| `addItem`, `updateItem` | `CommitItem` |
| `signOut`, `acknowledge`, `cancel` | `Begin`, `Cockpit`, `CommitHandover` |

* A compile takes the area's subtree in the user's scope; `signOut` passes no path (432, 682), with which the filter of the compiler
  (54-56) lets everything in the user's scope through (`Scope`).
* Each list of the cockpit holds at most `MaxRows` rows (200; compiler 204, 238, 244); which ones, when there are more, is a free
  choice (`Page`).

### OperationalPeriods

`period[p]` is a row with the status, in the order of periodStart; `record[e]` is a log entry as the guard sees it: the period its date
falls in, whether it is sealed, its content. `out` is history: why a period is open before a shut one.

| Code | Actions |
|---|---|
| `generate`, `close`, `lock`, `unlock`, `reopen` | `CommitGenerate`, `CommitGovern` |
| `assertWritable` (67-112) and its callers in entries: create, save, defer, submit, transition | `Begin`, `CommitRecord` |
| `voidEntry`, `ExceptionsService.correct`, which do not call it | the same |

Operators such as `SavedRowUnfrozen` or `FailedUncounted` stand before the operator they vary. They repeat it with one
plausible mistake, are used by no action, and serve to confirm that each property does fail on wrong code
(`PROJECT.json`, "mutants").

## 3. The runs

`tlc -config <run>.cfg <module>`; distinct states are of the complete search.

| Run | Instance | States | Shows |
|---|---|---|---|
| `entry_flow` | one entry, draft → review → closed with a way back, two sections (one of draft, one of every stage that holds the effective date and a computed field), no round; one request at a time, two writes per section | 616,666 | `RecordKept` (the refinement); `LockMatchesStage`, `ExceptionsMatchValues`, `EffectiveDateResolved`, `SignatureOverStored` |
| `entry_series` | an entry with a workflow, one without that has a computed field, one series, two rounds, two requests never on one row | 122,648 | `FolioGapless`, `SubmittedComplete`, `RoundFollowsEntry`, `VoidReleasesRound` |
| `entry_overlap` | an entry with a workflow that forks into two signed stages, one without, one round, requests overlapping at will, and stops | 1,116,221 | `IInv`, `FolioUnique`, `SealGate`, `CompletedRoundLinked`, `SignerAlerted` |
| `rule_triage` | a rule's exception and a reading's, whose entry may be voided, two users' requests, the worker, one stop, changing licence | @RT@ | `IInv`, `DoneHasIncident`, `LinkKept` |
| `rule_settles` | two orders in batches of one, two failures allowed, one stop | @RS@ | `OrderSettled` |
| `notices` | a mailed licence notice and an operational one to a mailbox and an inbox, one administrator, one stop, changing licence | @NO@ | `IInv`, `AudienceQueued`, `NotResent`, `LicenseNoticed`, `AllSettled` |
| `work_orders` | the seeded workflow around its four gates with ways back and a shortcut to execution, one activity, a rule of each moment, a manual checklist, one worker, a change of type and back; one request at a time, which may stop | 5,051,113 | `IInv`, `AppliedIsAuthorised`, `ClosedComplete`, `PermitDocumented` |
| `rounds` | days of two units, a horizon of two, a cap of two, a clock that stops at three, an interval that divides the day, one that does not, and a daily recurrence; one request at a time, which may stop | 489,230 | `IInv`, `NoSlotSkipped`, `PendingMatches`, `RoundsKept`, `RoundsAppear` |
| `incidents` | a workflow with a stage that repeats, a type that asks for everything and one for nothing, one action, a mandatory obligation and one for severe incidents, three reports; one request at a time, which may stop | 1,208,866 | `IInv`, `ClosedResolved`, `OneReport` |
| `handover` | two shifts, two handovers, a note, an object of the area, a user who sees it and one who does not; one request at a time, which may stop | 2,643,338 | `IInv`, `NotesRoll`, `AcknowledgedFinal` |
| `periods` | three periods of two years, one record with two values; one request at a time | 49,481 | `IInv`, `LockedBooks` |
| `entry_save_race` | two requests that save one section | – | a counterexample, section 6 |

Bounds and why they are enough:

* *Two requests*: a stale write takes a request that read and another that wrote meanwhile. `entry_overlap` gives
  each the same entry; the third party (the other entry) is there to share series and round. The theorems of section 5
  cover any number.
* *`MaxVersion`*, writes of one section: two let a value alarm and be put right, in one stage or on either side of the seal
  and of a way back to draft. In `entry_overlap` and `entry_series` the workflow entry is not saved (0), as its properties are
  about rows, folios, rounds and events, and the other entry is saved once, enough for a rule to fire and the form to be complete.
  In `entry_overlap` two transitions out of draft, to different stages, can both be in flight, and one of them can go on to close.
* *`MaxAttempts` 2* (5 in the code), *`BatchSize` 1* (20): the first failure is retried, the second is final, and the
  second order always waits behind the first. The proofs hold for any values.
* *`MaxStops` 1*: one stop can fall between any two writes, and the system runs on from there. Two stops in one
  history are left to the theorems, which hold for any number.
* *Incidents*: one in `rule_triage` and `rule_settles` (`LinkKept` asks that some incident stays linked), two in
  `rule_duplicate`. When none is left `WorkerOpen` and `ConvertOpen` cannot run; the worker then fails the order.
* *Notices*: two addresses of one event let a run of the dispatcher fail or stop between its two messages.
* *Orders*: one activity and one checklist of each moment are enough to be pending, added, withdrawn and sent back on both
  sides of each gate; the workflow can be gone round any number of times.
  The type changes once approved, and back before closing. Requests that a guard refuses at the load are not started: they
  change nothing.
* *Rounds*: three ticks let the generator run late, on time and, after the watermark went ahead, from now; a late run of the
  interval of one unit meets the cap of two slots, one in time does not.
* *Reports*: three ids let an obligation be reported, canceled, and reported again besides the other one.
* *Handovers*: two have everything that concerns one and its successor; the theorems cover any number. With one object the cap of
  rows is never met; that an open object is not listed happens by the user who does not see it.
* *Periods*: three are the fewest in which a later period is not the next one.
* Deadlock is not checked: all entries final and all requests answered is a proper end, and so is an empty queue
  whose licence and stops are exhausted.
* Symmetry is on requests only, in runs without liveness properties and whose properties name no request.

Which properties do *not* survive overlapping requests or stops. Of `LogEntry`: `FolioGapless`, `VoidReleasesRound` and
`SaveOnCheckedVersion` (section 6); `RecordKept` (a void that was checked before a seal lands after it: VOID with a folio and
an order; a number that is on no entry); `RoundFollowsEntry`, `SubmittedComplete`, `LockMatchesStage`, `SignatureOverStored`,
`EffectiveDateResolved` and `ExceptionsMatchValues` (a save or a transition that was checked on a row another request has
since moved). Those that do survive are the ones of `entry_overlap`. In `Exceptions` and `Notifications` requests and workers
always overlap; with two administrators retrying one message it can be sent twice (`notice_resent`, section 6).

Of the other modules only `WorkOrders!IInv`, the gates of the stored row, survives every race (the run has one request
at a time, the theorem any number). The others need requests that follow one another, for the reasons that section 1
gives; what two at once can do there:

* `WorkOrders`: a confirmation of the set as it was read, after a checklist was added; two `suggest` that add the same
  checklist of the order; a checklist that becomes pending between the gate's reads and the commit.
* `Schedules`: the sweeper holds the row of before an update, and generates the old recurrence.
* `Incidents`: an action added between the gates of closing (423) and the write; two derivations of one
  obligation (no unique key); a transition that writes OPEN over CANCELED.
* `ShiftHandover`: two compiles that both find nothing (86) create two handovers; a sign-out that was checked before
  an acknowledgement overwrites it (443).
* `OperationalPeriods`: a close that races a reopen (216, 284); a record sealed into a period that was locked after
  its guard was asked.

## 4. Fairness

`LogEntry` has none: users may walk away, and no property needs them to come back.

`Exceptions` has weak fairness of the worker as a whole (`WF_vars(WorkerStep)`): `@Cron` starts `processPending` every
30 seconds for as long as the process lives, the loop tests and resets its lock in a `finally`, and each await of a run
settles, with an answer or an error. Nothing forces success: a run in which every step fails is fair. Users,
the licence and stops have no fairness. `OrderSettled` assumes that the licence holds the module from some point on, as
the run asks for it before it starts.

`Notifications` has weak fairness of the dispatcher, of the sender (both `@Cron`, same argument), and of `Elapse`: the
time a message waits for comes. `AllSettled` assumes a licence in force from some point on; `LicenseNoticed` assumes
nothing of the licence.

`Schedules` has strong fairness of starting a generation: the sweeper does it every minute, whatever requests there are
(`notification-worker.service.ts` 58-61, 107); strong, because in the model it takes a free request, and another request may
take it first each time, while in the code it needs none. And weak fairness of each request's own next write, or its
refusal. A stop has none, and the clock may halt. `RoundsAppear` promises nothing of a schedule that is edited, paused or removed.

The other modules have only safety properties, and no fairness: nothing in their code goes on without a user.

## 5. The proofs

All are for any value of the constants that the named assumptions allow: any template, workflow, number of entries,
requests, rounds, exceptions, orders, events and addresses. `MayCrash` is either way throughout, `MayOverlap` where a theorem
does not have `~MayOverlap` as its hypothesis. Else nothing is assumed but the ASSUMEs of the modules (None is not an id;
transitions, thresholds, signed sections and formula belong to the template; bounds are naturals).

**`LogEntryProofs`.**

* `TypeCorrect`: `Spec => []TypeOK`. `TypeOK` alone is not inductive: that a commit writes a well-typed row needs to know
  that a request at step "ready" did read sections and values, and that a transition's source stage is the stage read
  (`StepMatchesOp`). `TypeInv` adds it. One lemma per action.
* `FoliosAreUnique`, `NoBypassOfTheSeal`, `OrdersAreSealed`: `FolioUnique`, `SealGate`, `OrderOnlyForSealed`. A commit trusts the row
  its request read. What saves these three is that the row can only be stale in one direction (`SnapshotTrails`): the entry
  may have been sealed and numbered since, never unsealed; and an unsealed row read is still at the initial stage. So a
  commit that did read a sealed row writes to a sealed entry, and one that did not seals it itself. With that and
  `AbsentIsBlank` (an unused id has no trace) the conjunction `SealInv` is inductive (`Inductive`). Two lemmas carry the proof:
  `QuietRows` for steps that leave seal, folio and stage alone, `SealedChange` for steps that leave the entry sealed; `SealNumbers`
  says what sealing does to folio and counter.
* `CompletedRoundsAreLinked`: fulfilling and releasing both go by the link (`RoundChanges`), so no order of the two
  leaves a COMPLETED occurrence without an entry.
* `SignersAreAlerted`: `SignerAlerted`, with races. A transition that commits writes the stage its own row names and queues the
  event of that stage in one transaction, and events are never taken back (`EventsGrow`); that submits are only of
  entries without a workflow (`FormOnly`) leaves no other way to change the stage.
* `ReadsAreCurrent`: `~MayOverlap => (Spec => []Serially)`. `Serially` is what one request at a time may rely on: it is the only one on
  its entry and its occurrence (`OneEach`, `TargetInv`), what it read of entry, sections and values is what is stored until
  it commits (`UpToDate`, `ReadsInv`), and an entry that does not exist has no traces (`RowsInv`). `SerialCases` lists the ways such
  a step can change an entry. From it, each with the process free to stop between writes:
  `SubmittedFormsAreComplete` (a field is emptied by a correction only, and the computed value is, until then, what the
  others give: `SettlesQuiet` separates what triage writes from the rest), `LocksFollowTheStage`, `DatesAreResolved`,
  `SignaturesCoverWhatIsStored` (the computed value as the same commit stamps it, for an entry read unsealed, which by `UpToDate`
  is unsealed), `ValuesHaveExceptions` (all of `ExceptionsMatchValues` but what it says of VOID entries), `RoundsFollowEntries` (an entry is sealed by the step that
  fulfils its occurrence, `SealedTogether`) and `SavesAreOnCheckedVersion` (the property that `entry_save_race` refutes with overlap).
* `SeriesHasNoGap`: `FolioGapless` counts, so the invariant proved is that each number up to the counter is on an entry
  (`FoliosGiven`); as folios are unique this is a bijection, and the count follows. That a step gives at most one number, the
  next one, is taken from the refinement.
* `ExceptionsFollowValues` and `VoidsReleaseRounds` also need `~MayCrash`: a void writes three times, and the invariants say what
  the request that voids has still to do (`VoidsFirst`; `Releasing`, `LeftClean`). After a stop nobody does it: see `entry_void_crash`.

**`ExceptionsProofs`.** `IInv` joins what is needed: untreated exceptions are not linked (`LinkInv`); the orders the worker
holds are still PENDING and under the limit of failures, and an order about to be marked DONE has a linked exception
(`WorkerInv`); whoever is about to link holds an incident that exists (`RequestInv`). `Linking` and `Triaging` are the two ways a
request writes, `AdvanceInv` the end of an order. `StepInv` shows in the same pass that no step takes a link away:
hence `Inductive`, `ConvertedAreLinked`, `DoneOrdersOpened` and `LinksAreKept`. The step it excepts is `Purge`, of an
exception that a triage checked before the conversion put back to ACKNOWLEDGED: all that is OPEN is without a link.

**`NotificationsProofs`.** `IInv` says that what a run of the dispatcher has inserted stays inserted (`DispatchInv`), whatever sender,
administrators and purge do to the rows. Hence `Inductive` and `AudienceIsQueued`. `SentStaysSent` (`NotResent`): a message the sender has in hand
is PENDING or was settled by somebody else, and the dispatcher inserts only what is not there; what is left is the write of an
administrator. It is for any number of them, and does not say that they never do it: two who checked the same FAILED message can
(`notice_resent`).

**The refinement.** `EntryIsARecord`: `~MayOverlap => (Spec => RecordKept)`. On top of `IInv` it needs `SerialInv`: requests have an entry
each, what they read of it is what it is until they write (`UpToDate`), and a form without a workflow is SUBMITTED as it is
sealed (`FormsClosed`). One lemma per action of `LogEntry` names the action of `GxpRecord` it maps to, or a stutter; `OnlyOne`
says that it is of one record. That the computed value is fixed by the seal is `Stamped` and, for what is read, `UpToDate`.

**`WorkOrdersProofs`.** `WorkOrderInvariant`: `Spec => []IInv`, with races. As in `LogEntry`, the row a request holds can be behind the stored one only by
being less advanced (`SnapshotTrails`): approval and freeze are never undone. So a transition that was allowed from a
stage beyond a gate finds the gate passed. `retyped` is never undone either, and RowGates asks for gates 1 and 3 of orders that
kept their type; the others are promised for any. `AuthorisedWhenSerial` adds that a single request about to withdraw a
confirmation is the only reason for set and roster to differ from those confirmed (`SerialInv`),
but for a confirmation that such a request left standing when it stopped (`cut`); `ConfirmedWhenWhole` is the same without stops and
without that exception. `ClosedIsComplete` and
`PermitStaysDocumented` need that what a request was checked against still stands when it writes (`Sound`), also the requests
that have yet to derive checklists, and that no plan is frozen short of gate 3 (`FrozenBeyond`); together `Gated`, an invariant
under `~MayOverlap`. Most writes are `Mild`: nothing they leave blocks a gate that is behind the order.

**`SchedulesProofs`.** `RoundInvariant` and `NothingSkipped` assume `~MayOverlap` only. The invariant is `Covered`: from `base` to the
watermark, and to where a request is about to move it, every slot has its occurrence. A run that meets the cap moves `base` to the
horizon it marks, so that nothing is claimed of what it left out; and slots are those of `Steady` recurrences, an interval
that divides the day or times of the day, whose grid laid from any day is the same (`GridFixed`). The other intervals are in the
specification, and nothing is claimed of their slots: see `round_drift` and `round_cap` below. `PendingIsPlanned` (`PendingMatches`): what
is ahead is on the grid in force, with the same two exceptions, but while an update has still to delete what its old
recurrence left (`Planned`). `WhatWasDueStays` (`RoundsKept`) is for any recurrence; it needs the start or the omission of a round
to find it as it was read (`Alone`).

**`IncidentsProofs`.** `IncidentInvariant` (a check made still holds at the write), from which `ReportedOnce`, and `ClosedStaysResolved` with the
observation that each operation that could reopen something asks for an OPEN incident by itself.

**`ShiftHandoverProofs`.** `HandoverInvariant`: handovers exist in the order of their numbers, those acknowledged before one was created precede
it and stay so, and a request's checks still hold. `HandoversKept` and `AcknowledgedIsFinal` follow.

**`OperationalPeriodsProofs`.** `PeriodInvariant` (`SequenceExcused` with what a request checked) and `LockedBooksKept`, by cases on the operation.

Every invariant and action property of the passing runs has its theorem. Only model-checked: the liveness properties
`OrderSettled`, `LicenseNoticed`, `AllSettled` and `RoundsAppear` (fairness and ENABLED are outside the prover's reach), and the counterexamples of
section 6.

## 6. Where code and documentation disagree

Each of these checks what a comment or a guide says of the code and has a counterexample. The first is a run of the
project; the others are kept as configurations, `tlc -config <name>.cfg <module>`.

* `entry_save_race`: `SaveOnCheckedVersion`. "Concurrencia optimista por sección (`version` check-and-bump)"
  (`log-entries.service.ts:222`). The check (716) is on a row read before the transaction, which bumps the version by id
  (935-944): two saves checked against one version are both committed.
* `entry_folio_race` (`MCLogEntry`): `FolioGapless`. "una vez, gapless" (1073). `issueFolioWithinTx` tests the folio of the row read before the
  transaction (1883): two requests sealing the same entry take two numbers, and the first is lost. The number is
  still unique (`FolioUnique`, proved).
* `entry_void_crash` (`MCLogEntry`): `VoidReleasesRound`. "La ocurrencia no se pierde" (1258-1259). Void, release and purge are three writes
  (1248, 1260, 1266); after a stop between the first two the occurrence stays linked to a VOID entry, and neither start, skip
  nor a second void can release it.
* `entry_signed_computed` (`MCLogEntry`): `SignedIsStored`. "Va ANTES de la firma para que el snapshot firmado coincida con lo persistido" (911-913, and
  1735-1736). After the seal the computed fields are no longer stamped (914, 1737) but computed anew and signed (765, 921-931):
  a section of a later stage that feeds one is signed over a value that is stored nowhere, and the verification of
  that signature, which hashes what is stored, cannot match. `SignatureOverStored` says that it holds until the seal.
* `entry_computed_exception` (`MCLogEntry`): `ComputedHasException`. "Si el campo es **calculado** [...], el umbral aplica sobre el **valor calculado**"
  (`USER_GUIDE.md:1544`), and what is out of range is registered as an exception (2356-2358). After the seal a save reconciles the
  exception of a computed field by the value computed anew, which it does not store: that in range, the exception of the stored
  value is withdrawn. Before the seal each save stamps the computed fields of all sections and reconciles those of the saved
  one (973), which the seal makes good (`SubmittedComplete` states it of forms).
* `purge_linked` (`MCExceptions`): `PurgeKeepsLinks`. "PROVISIONALES (OPEN/ACKNOWLEDGED, sin artefacto aguas abajo)" (`exception-generator.service.ts:97-98`). The purge
  goes by status (101-105). An acknowledgement that was checked before a conversion and writes after it (`exceptions.service.ts` 95)
  leaves an exception ACKNOWLEDGED with an incident; voiding its entry deletes it, link and all. `LinkKept`, proved, says that nothing
  else loses a link.
* `notice_resent` (`MCNotifications`): `SentIsNotRetried`. "Solo se puede reintentar un envío fallido" (`notifications.service.ts:439`). Two administrators check
  the same FAILED message; one puts it back, it is sent, and the write of the other (440) puts it back again.
* `rule_duplicate` (`MCExceptions`): `RuleOpensOnce`. "garantiza UNA materialización por (entrada, regla)" (`rule-action-emitter.service.ts:38-39`). The incident
  is committed before the transaction that links it (`rule-action-worker.service.ts` 167-203): a failure in between and the
  retry opens a second one.
* `permit_manual` (`MCWorkOrders`): `RulesBindGate`. A mandatory rule "bloquea la Puerta 2" (`USER_GUIDE.md:611-612`). The derivation skips a rule whose template
  the order has already (`work-order-checklists.service.ts` 183-189), also when the one it has was added by hand, which is never
  mandatory (255): the rule then binds nothing.
* `permit_drift` (`MCWorkOrders`): `WorkAsAuthorised`. "lo que se aplica en terreno es exactamente lo que se autorizó" (`USER_GUIDE.md:459-460`, and
  `work-orders.service.ts` 398-408). The confirmations are asked for at gate 2 only; what is added after it withdraws the
  confirmation and is executed without a new one.
* `type_change` (`MCWorkOrders`): `ExecutedPlanFrozen`. "sólo se ENTRA a ejecución con la baseline congelada", also "ante un flujo mal configurado"
  (`work-orders.service.ts` 416-418). The stages of the gates are those of the type (389-396), which `update` may change on the way (604)
  while the workflow stays: by a type without these stages an order passes them, and returns to its own in execution.
* `confirm_crash` (`MCWorkOrders`): `ConfirmedIsApplied`. "lo aplicado en terreno = lo autorizado" (398-401). A checklist is added in one write and the
  confirmation withdrawn in the next (`work-order-checklists.service.ts` 234-238): after a stop in between the grown set passes gate 2
  with its old confirmation. `AppliedIsAuthorised` excepts what such a stop left.
* `round_cap` (`MCSchedules`): `HorizonFilled`. "Materializa las ocurrencias de UN horario en [lastGeneratedThrough || now, now + horizonDays)"
  (`schedules.service.ts` 223-224). A run that meets `MAX_SLOTS` (`contracts/src/schedules/schedules.ts` 274-292) moves the watermark to the horizon all the same,
  and what it left out is never generated.
* `handover_scope` (`MCShiftHandover`): `SnapshotOfArea`. "El alcance efectivo es el SUBÁRBOL del nodo de la entrega ∩ los nodos accesibles del usuario"
  (`shift-handover-compiler.service.ts` 37-38). The cockpit that `signOut` freezes is compiled without the path of the node (432, 682), and is of
  everything in the scope of who signs.
* `handover_cap` (`MCShiftHandover`): `OnlyStaleClosed`. "Cierra los ítems de dominio cuyo objeto ya no está abierto" (`shift-handover.service.ts:601`). A compile closes
  the item of every object it does not list: beyond the first 200 (compiler 204, 238, 244), or out of the scope of who
  compiles.
* `round_drift` (`MCSchedules`): `IntervalKept`. "cada `everyMinutes` de tiempo real desde el ancla de pared" (`contracts/src/schedules/schedules.ts:257`). The grid is laid again
  from the anchor of the day before each run (274-292): every seven hours, say, it shifts from run to run, and occurrences come
  closer than the interval.
* `period_locked` (`MCOperationalPeriods`): `LockedBlocksAll`. "LOCKED (bloquea a TODOS, incl. bypass" (`DECISIONS.md:3934`, `DATA_MODEL.md:376`). `exceptions.service.ts` `correct` rewrites the
  value of a sealed entry without asking for its period. `LockedBooks`, proved, says this is the only way.
* `handover_thaw` (`MCShiftHandover`): `SignedFrozen`. "Al firmar, el contenido queda congelado" (`USER_GUIDE.md:2429`). `updateItem` refuses from the acknowledgement on only
  (`shift-handover.service.ts` 404-406): the items of a signed handover still change.

Smaller ones, met while modelling and left to the reader: `correct` accepts an empty value, so that a required field of a SUBMITTED
form can be emptied (`SubmittedComplete` says by nothing else); a comment of `schedules.service.ts` (151-153) says that reactivating resets
the watermark, which the code does not; raising the severity of an incident derives none of the reports that it brings
(`USER_GUIDE.md` 2181-2187), until somebody asks for it; a CLOSED work order can be canceled (657).

## 7. What is not modelled

* Presigned uploads, attachments and evidence, comments, audit records, templates of messages,
  rendering of folios: data that no property tells apart.
* The expression language of rules, and the editors of templates and workflows: an entry freezes a published version,
  here a constant.
* Catalogues (structure, equipment, lists, users, roles, settings, branding): create, read, update, delete.
* Input and output: email transport, storage, language models, the web client, command-line tools.
* Read-only queries: dashboards, worklists, logbook grid.
* What the plan has left, below.

## 8. Plan

Done: `LogEntry`, `Exceptions` and `Notifications`, the record of the plant being the core of the system and the two
outboxes what acts on it; then the components around it, `OperationalPeriods`, `Incidents`, `WorkOrders`, `ShiftHandover` and `Schedules`,
and `GxpRecord` with its refinement.

Next:

1. Abstract specifications besides `GxpRecord`, with their refinements proved: an outbox whose messages are sent at least once and
   settle once, for `Notifications`; the life of an order and its gates, for `WorkOrders`.
2. `Sessions`: rotation of refresh tokens, families, lockout counter.
3. The sweep of overdue rounds and incidents, which emits once per breach, between `Schedules`, `Incidents` and `Notifications`.
4. `Licensing`, and the resolvers of shift, fiscal period and workflow as functions checked against a reference definition.
