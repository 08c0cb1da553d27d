------------------------------ MODULE LogEntry ------------------------------
(***************************************************************************)
(* The life of logbook entries in the watchlog API: creating an entry      *)
(* (directly or from a scheduled round), saving a section, declaring a     *)
(* deferred date, executing a workflow transition, submitting and voiding. *)
(*                                                                         *)
(* Every HTTP handler of LogEntriesService and of SchedulesService's       *)
(* rounds has the same shape: it LOADS rows, CHECKS its guards against     *)
(* what it loaded, awaits other reads, and then COMMITS one database       *)
(* transaction whose statements name rows by id and never re-test what was *)
(* loaded.  A request in flight is therefore a record with what it read,   *)
(* and the database may move between its steps.                            *)
(*                                                                         *)
(* Guards that can only refuse a request (permissions, node and template   *)
(* scope, period and edit-window guards, field validation, re-auth) are    *)
(* the action Reject: any request may be answered with an error before it  *)
(* writes.  None stands for SQL null throughout; a section stands for its  *)
(* fields and its value for theirs.  One computed field, which nobody      *)
(* enters, is in one of the sections: its value is a formula over the      *)
(* others, stored by the commits of an entry that is not sealed.           *)
(*                                                                         *)
(* A few operators come with a variant that makes a plausible mistake (a   *)
(* guard dropped, a stale value used); nothing in Next uses a variant, they *)
(* serve to confirm that a property does fail when the code is wrong.      *)
(***************************************************************************)
EXTENDS Integers, FiniteSets

CONSTANTS
  Entries,        \* ids of logbook entries
  Requests,       \* HTTP requests that can be in flight at once
  Rounds,         \* scheduled round occurrences
  Sections,       \* sections of the template
  Values,         \* values of a numeric field
  Alarming,       \* those outside the field's thresholds
  Dates,          \* event dates: the date field's values, and declared dates
  States,         \* stages of the template's workflow
  InitialState,   \* its initial stage
  FinalStates,    \* its final stages
  Transitions,    \* its transitions: [from, to, sign]
  EditableIn,     \* section -> stage it is edited in (None: in every stage)
  SignedSections, \* sections whose completion is signed
  DateSection,    \* section with the EFFECTIVE_DATE field, or None
  CalcField,      \* the computed field
  CalcSection,    \* the section it is in, or None
  Formula,        \* its value for each reading of the sections
  FlowEntries,    \* entries whose template has a workflow
  FolioEntries,   \* entries whose template has a folio scheme
  None,           \* null
  MaxVersion,     \* bound: writes of one section, per entry
  MayOverlap,     \* can two requests on one entry be in flight together?
  MayCrash        \* can the process stop between two writes of a request?

ASSUME NoneAssumption ==
  None \notin Entries \cup Rounds \cup Sections \cup Values \cup Dates \cup States
ASSUME FlowAssumption ==
  /\ InitialState \in States /\ FinalStates \subseteq States
  /\ Transitions \subseteq [from : States, to : States, sign : BOOLEAN]
  /\ EditableIn \in [Sections -> States \cup {None}]
ASSUME TemplateAssumption ==
  /\ Alarming \subseteq Values /\ SignedSections \subseteq Sections
  /\ DateSection \in Sections \cup {None}
  /\ CalcSection \in Sections \cup {None} /\ CalcField \notin Sections
  /\ FlowEntries \subseteq Entries /\ FolioEntries \subseteq Entries
ASSUME BoundAssumption ==
  MaxVersion \in [Entries -> Nat] /\ MayOverlap \in BOOLEAN /\ MayCrash \in BOOLEAN

VARIABLES
  entry,      \* LogEntry rows
  section,    \* LogEntrySection rows of each entry
  value,      \* LogEntryValue rows of each entry
  exc,        \* threshold exception of each field (LogEntryException)
  computed,   \* stored value and exception of the computed field
  signature,  \* values covered by the last electronic signature of each entry
  orders,     \* entries with a queued rule action (RuleActionOutbox)
  events,     \* queued notification events (NotificationEvent)
  round,      \* RoundOccurrence rows
  counter,    \* FolioCounter.lastValue of the template's series
  req         \* requests in flight

rows ==
  <<entry, section, value, exc, computed, signature, orders, events, round, counter>>
vars == <<rows, req>>

-----------------------------------------------------------------------------
(* Rows *)

Field == Values \cup Dates \cup {None}
Date  == Dates \cup {None}
Input(s) == {None} \cup IF s = DateSection THEN Dates ELSE Values
Reading == {f \in [Sections -> Field] : \A s \in Sections : f[s] \in Input(s)}

ASSUME FormulaAssumption == Formula \in [Reading -> Values \cup {None}]

EntryRow ==
  [status : {"ABSENT", "DRAFT", "SUBMITTED", "VOID"}, sealed : BOOLEAN,
   folio : Nat, cur : States \cup {None}, declared : Date, eff : Date]
SectionRow ==
  [state : {"PENDING", "IN_PROGRESS", "COMPLETED", "LOCKED"}, version : Nat]
ExcRow ==
  [status : {"NONE", "OPEN", "ACKNOWLEDGED", "DISMISSED", "CORRECTED"},
   stamped : BOOLEAN]
ComputedRow == [value : Values \cup {None}, exc : ExcRow]
Signature == [val : Reading, calc : Values \cup {None}]
RoundRow ==
  [status : {"PENDING", "COMPLETED", "SKIPPED"}, link : Entries \cup {None}]
EventRow ==
  [kind : {"entry.transition", "entry.signature.pending"},
   e : Entries, state : States]

Absent == [status |-> "ABSENT", sealed |-> FALSE, folio |-> 0, cur |-> None,
           declared |-> None, eff |-> None]
NoExc  == [status |-> "NONE", stamped |-> FALSE]

(* What a request asks for *)
Op ==
       {op \in [kind : {"save"}, s : Sections, v : Field, complete : BOOLEAN] :
          op.v \in Input(op.s)}
  \cup [kind : {"submit", "void", "start", "skip"}]
  \cup [kind : {"transition"}, t : Transitions]
  \cup [kind : {"defer"}, d : Date]

(* A request in flight: the step it is at, its target, and what it read *)
Idle == [pc |-> "idle", e |-> None, o |-> None, op |-> None,
         ent |-> None, sec |-> None, val |-> None]
InFlight ==
  [pc  : {"loaded", "ready", "unlink", "purge", "link"},
   e   : Entries \cup {None}, o : Rounds \cup {None}, op : Op,
   ent : EntryRow \cup {None},
   sec : [Sections -> SectionRow] \cup {None},
   val : Reading \cup {None}]

TypeOK ==
  /\ entry \in [Entries -> EntryRow]
  /\ section \in [Entries -> [Sections -> SectionRow]]
  /\ value \in [Entries -> Reading]
  /\ exc \in [Entries -> [Sections -> ExcRow]]
  /\ computed \in [Entries -> ComputedRow]
  /\ signature \in [Entries -> Signature \cup {None}]
  /\ orders \subseteq Entries
  /\ events \subseteq EventRow
  /\ round \in [Rounds -> RoundRow]
  /\ counter \in Nat
  /\ req \in [Requests -> InFlight \cup {Idle}]

Init ==
  /\ entry = [e \in Entries |-> Absent]
  /\ section = [e \in Entries |-> [s \in Sections |->
                  [state |-> "PENDING", version |-> 0]]]
  /\ value = [e \in Entries |-> [s \in Sections |-> None]]
  /\ exc = [e \in Entries |-> [s \in Sections |-> NoExc]]
  /\ computed = [e \in Entries |-> [value |-> None, exc |-> NoExc]]
  /\ signature = [e \in Entries |-> None]
  /\ orders = {} /\ events = {} /\ counter = 0
  /\ round = [o \in Rounds |-> [status |-> "PENDING", link |-> None]]
  /\ req = [r \in Requests |-> Idle]

-----------------------------------------------------------------------------
(* Shared helpers of the service *)

(* isSectionEditableInState: a section without a stage is always editable, *)
(* and a template without workflow (stage None) gives its sections none    *)
Editable(s, cur) == cur = None \/ EditableIn[s] \in {None, cur}

(* resolveEffectiveAt: the date field, else the declared date, else the    *)
(* capture instant (None)                                                  *)
Resolve(val, declared) ==
  IF DateSection # None /\ val[DateSection] # None
  THEN val[DateSection] ELSE declared

(* thresholdExceptionTrigger: only numeric fields have thresholds *)
Alarms(s, v) == s # DateSection /\ v \in Alarming

(* recomputeComputedValues *)
Computed(val) == IF CalcSection = None THEN None ELSE Formula[val]

(* What is signed: the values the request has, and the computed one anew *)
Snapshot(val) == [val |-> val, calc |-> Computed(val)]

(* The template's cross rule with an action fires on an alarming value *)
Fires(val) == \E s \in Sections : Alarms(s, val[s])

NextSectionStateNoReopen(state, editableNow) ==
  IF ~editableNow THEN "LOCKED" ELSE state

(* nextSectionState *)
NextSectionState(state, editableNow) ==
  IF ~editableNow THEN "LOCKED"
  ELSE IF state = "LOCKED" THEN "PENDING" ELSE state

ReconcileNoWithdraw(x, alarms, stamped) ==
  IF alarms /\ x = NoExc THEN [status |-> "OPEN", stamped |-> stamped] ELSE x

(* reconcileField: create, keep or withdraw the provisional exception of a *)
(* field; once triaged it is frozen                                        *)
Reconcile(x, alarms, stamped) ==
  IF alarms
  THEN IF x = NoExc THEN [status |-> "OPEN", stamped |-> stamped] ELSE x
  ELSE IF x.status = "OPEN" THEN NoExc ELSE x

Provisional(x) == x.status \in {"OPEN", "ACKNOWLEDGED"}

Stamp(x) == IF x = NoExc THEN x ELSE [x EXCEPT !.stamped = TRUE]

(* issueFolioWithinTx: the next number, unless the row read had one *)
IssuesFolio(q) == q.ent.folio = 0 /\ q.e \in FolioEntries

(* The stage can only be left by a signed transition *)
NeedsSignature(st) == \E t \in Transitions : t.from = st /\ t.sign

-----------------------------------------------------------------------------
(* Steps common to the handlers *)

(* Requests on one entry or round follow each other, or may overlap *)
Free(x) == MayOverlap \/ \A r \in Requests : x \notin {req[r].e, req[r].o}

(* loadEntry and the guards on the row it returns *)
Load(r, e, op) ==
  /\ req[r] = Idle /\ Free(e)
  /\ req' = [req EXCEPT ![r] =
               [Idle EXCEPT !.pc = "loaded", !.e = e, !.op = op, !.ent = entry[e]]]
  /\ UNCHANGED rows

Step(r, kind, pc) == req[r].pc = pc /\ req[r].op.kind = kind

(* The reads of sections and values that follow loadEntry *)
ReadSections(r) ==
  LET e == req[r].e IN
  req' = [req EXCEPT ![r] = [@ EXCEPT !.pc = "ready", !.sec = section[e],
                                      !.val = value[e]]]

Finish(r) == req' = [req EXCEPT ![r] = Idle]

(* A handler that has written nothing yet ends with an error response *)
Reject(r) ==
  /\ req[r].pc \in {"loaded", "ready"}
  /\ Finish(r) /\ UNCHANGED rows

(* The process stops: what the request had committed stays *)
Crash(r) ==
  /\ MayCrash /\ req[r] # Idle
  /\ Finish(r) /\ UNCHANGED rows

-----------------------------------------------------------------------------
(* Create: a draft at the initial stage, sections pending; a deferred one   *)
(* (d # None) declares its date, and writes it into the date field if the  *)
(* template has one                                                        *)

NewRow(e, d) ==
  [Absent EXCEPT !.status = "DRAFT", !.declared = d, !.eff = d,
                 !.cur = IF e \in FlowEntries THEN InitialState ELSE None]

Create(e, d) ==
  /\ entry[e].status = "ABSENT"
  /\ entry' = [entry EXCEPT ![e] = NewRow(e, d)]
  /\ IF d # None /\ DateSection # None
     THEN /\ Editable(DateSection, NewRow(e, d).cur)
          /\ value' = [value EXCEPT ![e][DateSection] = d]
          /\ section' = [section EXCEPT ![e][DateSection].version = @ + 1]
     ELSE UNCHANGED <<value, section>>
  /\ UNCHANGED <<exc, computed, signature, orders, events, round, counter, req>>

-----------------------------------------------------------------------------
(* saveSection *)

SaveAllowed(e, s) == entry[e].status = "DRAFT" /\ Editable(s, entry[e].cur)

LoadSave(r, e, s, v, complete) ==
  /\ SaveAllowed(e, s)
  /\ complete => v # None
  /\ Load(r, e, [kind |-> "save", s |-> s, v |-> v, complete |-> complete])

(* The section's version is compared here with the client's; a client that *)
(* passes is one that holds the version just read                          *)
CheckSave(r) ==
  /\ Step(r, "save", "loaded")
  /\ section[req[r].e][req[r].op.s].version < MaxVersion[req[r].e]
  /\ ReadSections(r) /\ UNCHANGED rows

(* Values as the request sees them: what it read, with its own input *)
Seen(q) == [q.val EXCEPT ![q.op.s] = q.op.v]

SavedSection(row, q) ==
  [state |-> IF q.op.complete THEN "COMPLETED" ELSE "IN_PROGRESS",
   version |-> row.version + 1]

(* Only inputs that differ from what was read are written *)
SavedValue(stored, q) == IF q.op.v = q.val[q.op.s] THEN stored ELSE q.op.v

SavedRowUnfrozen(row, q) ==
  [row EXCEPT !.eff = Resolve(Seen(q), q.ent.declared)]

SavedRow(row, q) ==
  IF q.ent.sealed THEN row
  ELSE [row EXCEPT !.eff = Resolve(Seen(q), q.ent.declared)]

SavedExc(x, q) == Reconcile(x, Alarms(q.op.s, q.op.v), q.ent.sealed)

StampedAlways(x, q, val) == [x EXCEPT !.value = Computed(val)]

(* stampComputedValues: the fields of every section, until the seal *)
Stamped(x, q, val) == IF q.ent.sealed THEN x ELSE [x EXCEPT !.value = Computed(val)]

(* The exceptions of the saved section follow what was recomputed, whether *)
(* or not it was stored                                                    *)
SavedComputed(x, q) ==
  [Stamped(x, q, Seen(q)) EXCEPT
     !.exc = IF q.op.s = CalcSection
             THEN Reconcile(@, Computed(Seen(q)) \in Alarming, q.ent.sealed) ELSE @]

SaveSignatureStale(q) == Snapshot(q.val)

SaveSignature(q) == Snapshot(Seen(q))

CommitSave(r) ==
  LET q == req[r]  s == req[r].op.s IN
  /\ Step(r, "save", "ready")
  /\ value' = [value EXCEPT ![q.e][s] = SavedValue(@, q)]
  /\ section' = [section EXCEPT ![q.e][s] = SavedSection(@, q)]
  /\ entry' = [entry EXCEPT ![q.e] = SavedRow(@, q)]
  /\ exc' = [exc EXCEPT ![q.e][s] = SavedExc(@, q)]
  /\ computed' = [computed EXCEPT ![q.e] = SavedComputed(@, q)]
  /\ signature' = IF q.op.complete /\ s \in SignedSections
                  THEN [signature EXCEPT ![q.e] = SaveSignature(q)] ELSE signature
  /\ Finish(r) /\ UNCHANGED <<orders, events, round, counter>>

-----------------------------------------------------------------------------
(* Sealing: shared by submit and by the transition that leaves the initial *)
(* stage                                                                   *)

SealedRowUnnumbered(row, q) ==
  [row EXCEPT !.sealed = TRUE, !.eff = Resolve(q.val, q.ent.declared)]

SealedRow(row, q) ==
  [row EXCEPT !.sealed = TRUE, !.eff = Resolve(q.val, q.ent.declared),
              !.folio = IF IssuesFolio(q) THEN counter + 1 ELSE @]

SealedCounterStuck(q) == counter

SealedCounter(q) == IF IssuesFolio(q) THEN counter + 1 ELSE counter

FulfilRoundNever(e) == [o \in Rounds |-> round[o]]

(* The occurrence linked to the entry, if still pending, is fulfilled *)
FulfilRound(e) ==
  [o \in Rounds |->
    IF round[o].link = e /\ round[o].status = "PENDING"
    THEN [round[o] EXCEPT !.status = "COMPLETED"] ELSE round[o]]

SealedExc(q) ==
  [s \in Sections |-> Stamp(Reconcile(exc[q.e][s], Alarms(s, q.val[s]), TRUE))]

SealedComputedUnreconciled(x, q) == [Stamped(x, q, q.val) EXCEPT !.exc = Stamp(@)]

SealedComputed(x, q) ==
  [value |-> Computed(q.val),
   exc |-> Stamp(Reconcile(x.exc, Computed(q.val) \in Alarming, TRUE))]

SealedOrders(q) == IF Fires(q.val) THEN orders \cup {q.e} ELSE orders

SealEffects(q) ==
  /\ counter' = SealedCounter(q)
  /\ round' = FulfilRound(q.e)
  /\ exc' = [exc EXCEPT ![q.e] = SealedExc(q)]
  /\ computed' = [computed EXCEPT ![q.e] = SealedComputed(@, q)]
  /\ orders' = SealedOrders(q)

-----------------------------------------------------------------------------
(* submit: finishes an entry without workflow *)

LoadSubmit(r, e) ==
  /\ entry[e].status = "DRAFT" /\ e \notin FlowEntries
  /\ Load(r, e, [kind |-> "submit"])

SectionsBegun(e, cur) ==
  \A s \in Sections : Editable(s, cur) => section[e][s].state # "PENDING"

(* collectCompletionErrors and the sections' state, for the given stage *)
SectionsDone(e, cur) ==
  \A s \in Sections : Editable(s, cur) =>
    section[e][s].state = "COMPLETED" /\ value[e][s] # None

CheckSubmit(r) ==
  /\ Step(r, "submit", "loaded")
  /\ SectionsDone(req[r].e, req[r].ent.cur)
  /\ ReadSections(r) /\ UNCHANGED rows

CommitSubmit(r) ==
  LET q == req[r] IN
  /\ Step(r, "submit", "ready")
  /\ entry' = [entry EXCEPT ![q.e] =
                 [SealedRow(@, q) EXCEPT !.status = "SUBMITTED"]]
  /\ SealEffects(q)
  /\ Finish(r) /\ UNCHANGED <<section, value, signature, events>>

-----------------------------------------------------------------------------
(* executeTransition *)

LoadTransition(r, e, t) ==
  /\ entry[e].status = "DRAFT" /\ e \in FlowEntries
  /\ t.from = entry[e].cur
  /\ Load(r, e, [kind |-> "transition", t |-> t])

CheckTransition(r) ==
  /\ Step(r, "transition", "loaded")
  /\ SectionsDone(req[r].e, req[r].op.t.from)
  /\ ReadSections(r) /\ UNCHANGED rows

SealsAtEnd(q) == ~q.ent.sealed /\ q.op.t.to \in FinalStates

SealsHere(q) == ~q.ent.sealed /\ q.op.t.from = InitialState

MovedRow(row, q) ==
  [row EXCEPT !.cur = q.op.t.to,
              !.status = IF q.op.t.to \in FinalStates THEN "SUBMITTED" ELSE "DRAFT"]

(* Section states follow the new stage; each is rewritten only when it     *)
(* differs from the state read                                             *)
MovedSections(q) ==
  [s \in Sections |->
    LET next == NextSectionState(q.sec[s].state, Editable(s, q.op.t.to))
    IN  IF next # q.sec[s].state
        THEN [section[q.e][s] EXCEPT !.state = next] ELSE section[q.e][s]]

TransitionEventsOfSource(q) ==
       {[kind |-> "entry.transition", e |-> q.e, state |-> q.op.t.to]}
  \cup {ev \in {[kind |-> "entry.signature.pending", e |-> q.e, state |-> q.op.t.to]} :
          NeedsSignature(q.op.t.from)}

TransitionEvents(q) ==
       {[kind |-> "entry.transition", e |-> q.e, state |-> q.op.t.to]}
  \cup {ev \in {[kind |-> "entry.signature.pending", e |-> q.e, state |-> q.op.t.to]} :
          NeedsSignature(q.op.t.to) /\ q.op.t.to \notin FinalStates}

CommitTransition(r) ==
  LET q == req[r] IN
  /\ Step(r, "transition", "ready")
  /\ IF SealsHere(q)
     THEN /\ entry' = [entry EXCEPT ![q.e] = SealedRow(MovedRow(@, q), q)]
          /\ SealEffects(q)
     ELSE /\ entry' = [entry EXCEPT ![q.e] = MovedRow(@, q)]
          /\ computed' = [computed EXCEPT ![q.e] = Stamped(@, q, q.val)]
          /\ UNCHANGED <<counter, round, exc, orders>>
  /\ section' = [section EXCEPT ![q.e] = MovedSections(q)]
  /\ signature' = IF q.op.t.sign
                  THEN [signature EXCEPT ![q.e] = Snapshot(q.val)] ELSE signature
  /\ events' = events \cup TransitionEvents(q)
  /\ Finish(r) /\ UNCHANGED value

-----------------------------------------------------------------------------
(* setDeferral: declare (d) or clear (None) the deferred date of a draft *)

Unsealed(e) == entry[e].status = "DRAFT" /\ ~entry[e].sealed

LoadDefer(r, e, d) ==
  /\ Unsealed(e)
  /\ d # None /\ DateSection # None => Editable(DateSection, entry[e].cur)
  /\ Load(r, e, [kind |-> "defer", d |-> d])

(* writeEffectiveDateValue: compares with the stored value, bumps version *)
WritesDate(q) ==
  q.op.d # None /\ DateSection # None /\ value[q.e][DateSection] # q.op.d

CheckDefer(r) ==
  /\ Step(r, "defer", "loaded")
  /\ DateSection # None => section[req[r].e][DateSection].version < MaxVersion[req[r].e]
  /\ ReadSections(r) /\ UNCHANGED rows

DeferredEffStored(q) == Resolve(q.val, q.op.d)

(* The declared date overlays the date field before it is resolved *)
DeferredEff(q) ==
  Resolve([s \in Sections |->
             IF s = DateSection /\ q.op.d # None THEN q.op.d ELSE q.val[s]],
          q.op.d)

CommitDefer(r) ==
  LET q == req[r] IN
  /\ Step(r, "defer", "ready")
  /\ entry' = [entry EXCEPT ![q.e] =
                 [@ EXCEPT !.declared = q.op.d, !.eff = DeferredEff(q)]]
  /\ IF WritesDate(q)
     THEN /\ value' = [value EXCEPT ![q.e][DateSection] = q.op.d]
          /\ section' = [section EXCEPT ![q.e][DateSection].version = @ + 1]
     ELSE UNCHANGED <<value, section>>
  /\ Finish(r)
  /\ UNCHANGED <<exc, computed, signature, orders, events, round, counter>>

-----------------------------------------------------------------------------
(* voidEntry: three writes, each its own transaction *)

LoadVoid(r, e) == Unsealed(e) /\ Load(r, e, [kind |-> "void"])

VoidRow(r) ==
  /\ Step(r, "void", "loaded")
  /\ entry' = [entry EXCEPT ![req[r].e].status = "VOID"]
  /\ req' = [req EXCEPT ![r].pc = "unlink"]
  /\ UNCHANGED <<section, value, exc, computed, signature, orders, events, round, counter>>

ReleasedRoundsStatusOnly(e) ==
  [o \in Rounds |-> IF round[o].link = e
                    THEN [round[o] EXCEPT !.status = "PENDING"] ELSE round[o]]

ReleasedRoundsLinkOnly(e) ==
  [o \in Rounds |-> IF round[o].link = e
                    THEN [round[o] EXCEPT !.link = None] ELSE round[o]]

(* Occurrences linked to the entry become pending again, whatever their    *)
(* status                                                                  *)
ReleasedRounds(e) ==
  [o \in Rounds |-> IF round[o].link = e
                    THEN [status |-> "PENDING", link |-> None] ELSE round[o]]

VoidUnlink(r) ==
  /\ Step(r, "void", "unlink")
  /\ round' = ReleasedRounds(req[r].e)
  /\ req' = [req EXCEPT ![r].pc = "purge"]
  /\ UNCHANGED <<entry, section, value, exc, computed, signature, orders, events, counter>>

(* purgeProvisionalForEntry *)
Purged(e) ==
  [s \in Sections |-> IF Provisional(exc[e][s])
                      THEN NoExc ELSE exc[e][s]]

PurgedComputed(x) == IF Provisional(x.exc) THEN [x EXCEPT !.exc = NoExc] ELSE x

VoidPurge(r) ==
  /\ Step(r, "void", "purge")
  /\ exc' = [exc EXCEPT ![req[r].e] = Purged(req[r].e)]
  /\ computed' = [computed EXCEPT ![req[r].e] = PurgedComputed(@)]
  /\ Finish(r)
  /\ UNCHANGED <<entry, section, value, signature, orders, events, round, counter>>

-----------------------------------------------------------------------------
(* SchedulesService: starting and skipping a round occurrence *)

LoadRound(r, o, kind) ==
  /\ req[r] = Idle /\ Free(o)
  /\ round[o].status = "PENDING" /\ round[o].link = None
  /\ req' = [req EXCEPT ![r] =
               [Idle EXCEPT !.pc = "loaded", !.o = o, !.op = [kind |-> kind]]]
  /\ UNCHANGED rows

(* startOccurrence creates the entry in one write and links it in another *)
StartCreate(r, e) ==
  /\ Step(r, "start", "loaded")
  /\ entry[e].status = "ABSENT"
  /\ entry' = [entry EXCEPT ![e] = NewRow(e, None)]
  /\ req' = [req EXCEPT ![r] = [@ EXCEPT !.pc = "link", !.e = e]]
  /\ UNCHANGED <<section, value, exc, computed, signature, orders, events, round, counter>>

StartLink(r) ==
  /\ Step(r, "start", "link")
  /\ round' = [round EXCEPT ![req[r].o].link = req[r].e]
  /\ Finish(r)
  /\ UNCHANGED <<entry, section, value, exc, computed, signature, orders, events, counter>>

CommitSkip(r) ==
  /\ Step(r, "skip", "loaded")
  /\ round' = [round EXCEPT ![req[r].o].status = "SKIPPED"]
  /\ Finish(r)
  /\ UNCHANGED <<entry, section, value, exc, computed, signature, orders, events, counter>>

-----------------------------------------------------------------------------
(* ExceptionsService, as it touches entries: acknowledge and dismiss, and   *)
(* correct, which rewrites the value whatever the entry's status, accepts  *)
(* an empty value of any field, and computes nothing anew.  Each is one    *)
(* step here; module Exceptions opens the gap between read and write.      *)

Triage(e, s, status) ==
  /\ Provisional(exc[e][s])
  /\ exc' = [exc EXCEPT ![e][s].status = status]
  /\ UNCHANGED <<entry, section, value, computed, signature, orders, events, round,
                 counter, req>>

Correct(e, s, v) ==
  /\ Provisional(exc[e][s]) /\ Free(e)
  /\ value' = [value EXCEPT ![e][s] = v]
  /\ exc' = [exc EXCEPT ![e][s].status = "CORRECTED"]
  /\ UNCHANGED <<entry, section, computed, signature, orders, events, round,
                 counter, req>>

TriageComputed(e, status) ==
  /\ Provisional(computed[e].exc)
  /\ computed' = [computed EXCEPT ![e].exc.status = status]
  /\ UNCHANGED <<entry, section, value, exc, signature, orders, events, round,
                 counter, req>>

CorrectComputed(e, v) ==
  /\ Provisional(computed[e].exc) /\ Free(e)
  /\ computed' = [computed EXCEPT ![e] =
                    [value |-> v, exc |-> [@.exc EXCEPT !.status = "CORRECTED"]]]
  /\ UNCHANGED <<entry, section, value, exc, signature, orders, events, round,
                 counter, req>>

SettlesEntered(e) ==
  \E s \in Sections :
    \/ \E status \in {"ACKNOWLEDGED", "DISMISSED"} : Triage(e, s, status)
    \/ s # DateSection /\ \E v \in Values \cup {None} : Correct(e, s, v)

SettlesComputed(e) ==
  \/ \E status \in {"ACKNOWLEDGED", "DISMISSED"} : TriageComputed(e, status)
  \/ \E v \in Values \cup {None} : CorrectComputed(e, v)

Settles(e) == SettlesEntered(e) \/ SettlesComputed(e)

-----------------------------------------------------------------------------
Begin(r) ==
  \/ \E e \in Entries, s \in Sections, complete \in BOOLEAN :
       \E v \in Input(s) : LoadSave(r, e, s, v, complete)
  \/ \E e \in Entries : LoadSubmit(r, e)
  \/ \E e \in Entries, t \in Transitions : LoadTransition(r, e, t)
  \/ \E e \in Entries, d \in Date : LoadDefer(r, e, d)
  \/ \E e \in Entries : LoadVoid(r, e)
  \/ \E o \in Rounds, kind \in {"start", "skip"} : LoadRound(r, o, kind)

Continue(r) ==
  \/ CheckSave(r) \/ CommitSave(r)
  \/ CheckSubmit(r) \/ CommitSubmit(r)
  \/ CheckTransition(r) \/ CommitTransition(r)
  \/ CheckDefer(r) \/ CommitDefer(r)
  \/ VoidRow(r) \/ VoidUnlink(r) \/ VoidPurge(r)
  \/ \E e \in Entries : StartCreate(r, e)
  \/ StartLink(r) \/ CommitSkip(r)
  \/ Reject(r) \/ Crash(r)

Next ==
  \/ \E r \in Requests : Begin(r) \/ Continue(r)
  \/ \E e \in Entries, d \in Date : Create(e, d)
  \/ \E e \in Entries : Settles(e)

Spec == Init /\ [][Next]_vars

-----------------------------------------------------------------------------
(* Properties that hold however the requests interleave                    *)

(* Two entries never share a folio and none is ahead of the counter,       *)
(* although issueFolioWithinTx trusts a row read before its transaction.   *)
FolioUnique ==
  /\ \A e \in Entries : entry[e].folio <= counter
  /\ \A e, f \in Entries : entry[e].folio = entry[f].folio /\ entry[e].folio # 0
                             => e = f

(* No entry gets past its initial stage, or is SUBMITTED, without having   *)
(* been sealed, and the seal and the folio always come together: the       *)
(* transition that finds the entry unsealed can only be one that leaves    *)
(* the initial stage, even if it was checked against a stale row.          *)
SealGate ==
  \A e \in Entries :
    /\ entry[e].cur \notin {None, InitialState} => entry[e].sealed
    /\ entry[e].status = "SUBMITTED" => entry[e].sealed
    /\ entry[e].folio # 0 <=> entry[e].sealed /\ e \in FolioEntries

(* A rule action is only ever queued for an entry that is sealed, also     *)
(* when voiding and sealing race: the worker never reacts to a draft.      *)
OrderOnlyForSealed == \A e \in orders : entry[e].sealed

(* A COMPLETED occurrence always has an entry: completing and releasing an *)
(* occurrence both go by its link, in whatever order they arrive.          *)
CompletedRoundLinked ==
  \A o \in Rounds : round[o].status = "COMPLETED" => round[o].link # None

(* An entry that was moved to a stage that only a signature can leave has  *)
(* its signature.pending event queued, whichever transition won a race.    *)
SignerAlerted ==
  \A e \in Entries :
    /\ e \in FlowEntries /\ entry[e].sealed
    /\ NeedsSignature(entry[e].cur) /\ entry[e].cur \notin FinalStates
    => [kind |-> "entry.signature.pending", e |-> e, state |-> entry[e].cur]
         \in events

(* The inductive strengthening of FolioUnique and SealGate.  First what a  *)
(* request holds, by what it asks for and the step it is at.               *)
OnRound(q) == q.op.kind \in {"start", "skip"}
StepMatchesOp(q) ==
  \/ q = Idle
  \/ /\ q.pc # "idle" /\ OnRound(q) /\ q.o \in Rounds
     /\ q.pc = "link" => q.e \in Entries
  \/ /\ q.pc # "idle" /\ ~OnRound(q) /\ q.e \in Entries /\ q.ent \in EntryRow
     /\ q.pc = "ready" => q.sec \in [Sections -> SectionRow] /\ q.val \in Reading
     /\ q.op.kind = "transition" => q.op.t.from = q.ent.cur

(* What a request remembers of its entry can be stale, but only in one     *)
(* direction: the entry may have been sealed and numbered since.           *)
SnapshotTrails(q) ==
  q.pc # "idle" /\ ~OnRound(q) =>
    /\ entry[q.e].status # "ABSENT"
    /\ q.ent.sealed => entry[q.e].sealed
    /\ ~q.ent.sealed => q.ent.cur \in {None, InitialState}
    /\ q.ent.folio # 0 <=> q.ent.sealed /\ q.e \in FolioEntries

AbsentIsBlank == \A e \in Entries : entry[e].status = "ABSENT" => entry[e] = Absent

TypeInv == TypeOK /\ \A r \in Requests : StepMatchesOp(req[r])

SealInv ==
  /\ AbsentIsBlank /\ FolioUnique /\ SealGate /\ OrderOnlyForSealed
  /\ \A r \in Requests : SnapshotTrails(req[r])

IInv == TypeInv /\ SealInv

-----------------------------------------------------------------------------
(* Properties of requests that follow one another                          *)

(* An entry is the record that GxpRecord promises: sealed once, with the   *)
(* next folio of a series without gaps; its dates frozen from then on,     *)
(* and its computed value frozen from then on, although sections go on     *)
(* being filled in later stages; and, once SUBMITTED, its values change    *)
(* only by correcting an untreated exception.                              *)
RecordState(e) ==
  CASE entry[e].status = "ABSENT"    -> "none"
    [] entry[e].status = "DRAFT"     -> IF entry[e].sealed THEN "sealed" ELSE "open"
    [] entry[e].status = "SUBMITTED" -> "closed"
    [] entry[e].status = "VOID"      -> "void"

Fields == Sections \cup {CalcField}

Content(e) ==
  [f \in Fields |-> IF f = CalcField THEN computed[e].value ELSE value[e][f]]

Flags(e) ==
       {s \in Sections : Provisional(exc[e][s])}
  \cup {f \in {CalcField} : Provisional(computed[e].exc)}

Record ==
  INSTANCE GxpRecord WITH
    Records <- Entries, Numbered <- FolioEntries,
    Fields <- Fields, Derived <- {CalcField},
    state <- [e \in Entries |-> RecordState(e)],
    number <- [e \in Entries |-> entry[e].folio],
    date <- [e \in Entries |-> <<entry[e].eff, entry[e].declared>>],
    content <- [e \in Entries |-> Content(e)],
    flagged <- [e \in Entries |-> Flags(e)],
    issued <- counter

RecordKept == Record!Spec

(* The series has no gap: every number the counter gave is on an entry.    *)
FolioGapless ==
  counter = Cardinality({e \in Entries : entry[e].folio # 0})

(* What is SUBMITTED without a workflow is complete in every section; only *)
(* a correction empties a value again.  An alarming computed value has its *)
(* exception, and without corrections it is what the entered values give.  *)
SubmittedComplete ==
  \A e \in Entries \ FlowEntries : entry[e].status = "SUBMITTED" =>
    /\ \A s \in Sections :
         /\ section[e][s].state = "COMPLETED"
         /\ value[e][s] = None => exc[e][s].status = "CORRECTED"
    /\ computed[e].value \in Alarming => computed[e].exc # NoExc
    /\ (\A s \in Sections : exc[e][s].status # "CORRECTED")
         /\ computed[e].exc.status # "CORRECTED" => computed[e].value = Computed(value[e])

(* After the first transition the stored section states agree with the     *)
(* stage, also after an entry is sent back and forth.                      *)
LockMatchesStage ==
  \A e \in FlowEntries : entry[e].sealed =>
    \A s \in Sections :
      section[e][s].state = "LOCKED" <=> ~Editable(s, entry[e].cur)

(* Exceptions follow the entered values: an out-of-range value has an      *)
(* exception, an untriaged exception has an out-of-range value.  Those of  *)
(* a sealed entry carry the seal, that of the computed value too, and a    *)
(* VOID entry is left with no provisional one.                             *)
ExceptionsMatchValues ==
  \A e \in Entries :
    LET excs == {exc[e][s] : s \in Sections} \cup {computed[e].exc} IN
    /\ entry[e].status \in {"DRAFT", "SUBMITTED"} =>
         /\ \A s \in Sections :
              /\ Alarms(s, value[e][s]) => exc[e][s] # NoExc
              /\ exc[e][s].status = "OPEN" => Alarms(s, value[e][s])
         /\ entry[e].sealed => \A x \in excs : x # NoExc => x.stamped
    /\ entry[e].status = "VOID" /\ (\A r \in Requests : req[r].e # e) =>
         \A x \in excs : ~Provisional(x)

(* The effective date of a draft is the one its date field and its         *)
(* declared date give, in that order.                                      *)
EffectiveDateResolved ==
  \A e \in Entries : entry[e].status = "DRAFT" /\ ~entry[e].sealed =>
    entry[e].eff = Resolve(value[e], entry[e].declared)

(* A signature covers exactly the values stored by the commit it signs,    *)
(* the computed one too unless the entry was sealed already.               *)
SignatureOverStored ==
  [][\A e \in Entries : signature'[e] # signature[e] =>
       /\ signature'[e].val = value'[e]
       /\ ~entry[e].sealed => signature'[e].calc = computed'[e].value]_vars

(* What saveSection says of its order of steps, that the snapshot signed   *)
(* agrees with what is stored: not so after the seal, when a later stage,  *)
(* or an entry sent back, is filled in.                                    *)
SignedIsStored ==
  [][\A e \in Entries : signature'[e] # signature[e] =>
       signature'[e].calc = computed'[e].value]_vars

(* What the user guide says of a computed field out of range, of entries   *)
(* that are sealed: it has an exception.  Not so where a save withdraws it *)
(* for the sake of a value that is no longer stored.                       *)
ComputedHasException ==
  \A e \in Entries : entry[e].sealed /\ computed[e].value \in Alarming =>
    computed[e].exc # NoExc

(* A void releases the occurrence of its entry: none is left pointing at a *)
(* VOID entry once the request that voided it is over.                     *)
VoidReleasesRound ==
  \A o \in Rounds :
    round[o].link # None /\ entry[round[o].link].status = "VOID" =>
      \E r \in Requests : req[r].e = round[o].link

(* A linked occurrence is COMPLETED exactly when its entry is sealed, and  *)
(* a skipped one has no entry.                                             *)
RoundFollowsEntry ==
  \A o \in Rounds :
    /\ round[o].link # None =>
         (round[o].status = "COMPLETED" <=> entry[round[o].link].sealed)
    /\ round[o].status = "SKIPPED" => round[o].link = None

(* Optimistic concurrency per section: a save is applied to the version of *)
(* the section that it checked.                                            *)
SaveOnCheckedVersion ==
  [][\A r \in Requests :
       Step(r, "save", "ready") /\ req'[r] = Idle /\ section' # section =>
         section[req[r].e][req[r].op.s] = req[r].sec[req[r].op.s]]_vars

=============================================================================
