----------------------------- MODULE Schedules ------------------------------
(***************************************************************************)
(* The rounds of a schedule: how its occurrences are generated ahead of    *)
(* time, up to a horizon and without duplicates, and what editing, pausing *)
(* and removing the schedule do to them (SchedulesService, and the pure    *)
(* enumerateOccurrences of the contracts).                                 *)
(*                                                                         *)
(* The rows are those of one schedule: schedules share nothing.  Time is a *)
(* number of units, DayLength of them a day; it passes between any two     *)
(* steps.  Generating is asked for by the sweeper of the notification      *)
(* worker, by every reading of a worklist, and by create and update        *)
(* themselves; each time it is a write of occurrences and, in another, one *)
(* of the watermark.  Starting an occurrence and what follows from its     *)
(* entry are module LogEntry's; here a started one is out of reach.        *)
(*                                                                         *)
(* As in LogEntry, a request LOADS the row and acts on what it read, and   *)
(* nothing in Next uses the variants that make a plausible mistake.        *)
(***************************************************************************)
EXTENDS Integers, FiniteSets

CONSTANTS
  Requests,     \* requests that can be in flight at once
  Recurrences,  \* definitions of recurrence: [kind, every, anchor, times]
  DayLength,    \* units of time in a day
  Horizon,      \* horizonDays: how far ahead occurrences are generated
  MaxSlots,     \* MAX_SLOTS: occurrences per run of the generator
  MaxTime,      \* bound: when the clock stops
  None,         \* null
  MayOverlap,   \* can two requests be in flight together?
  MayCrash      \* can the process stop between two writes of a request?

Slots == 0 .. MaxTime + Horizon - 1

(* INTERVAL: every so many units from the anchor, a time of the day; DAILY *)
(* stands for SHIFT and CALENDAR: the given times of the day               *)
ASSUME RecurrenceAssumption ==
  Recurrences \subseteq
    [kind : {"INTERVAL", "DAILY"}, every : Nat \ {0}, anchor : 0 .. DayLength - 1,
     times : SUBSET (0 .. DayLength - 1)]
ASSUME TimeAssumption ==
  /\ DayLength \in Nat \ {0} /\ Horizon \in Nat \ {0}
  /\ MaxSlots \in Nat \ {0} /\ MaxTime \in Nat
ASSUME BoundAssumption ==
  None \notin Nat /\ MayOverlap \in BOOLEAN /\ MayCrash \in BOOLEAN

VARIABLES
  now,       \* the clock
  schedule,  \* the LogSchedule row
  occ,       \* status of its RoundOccurrence rows, by scheduledFor
  req,       \* requests in flight
  base,      \* history: from where on every run laid out the plan in full
  stale      \* history: occurrences a stopped request left undeleted

vars == <<now, schedule, occ, req, base, stale>>

-----------------------------------------------------------------------------
Time == Nat \cup {None}

ScheduleRow ==
  [status : {"ABSENT", "ACTIVE", "PAUSED", "DELETED"}, rec : Recurrences, mark : Time]

(* TAKEN stands for SKIPPED and for an occurrence with an entry, whatever   *)
(* its status: no query of this module selects either                      *)
OccStatus == {"ABSENT", "PENDING", "TAKEN", "CANCELED"}

Op ==
       [kind : {"generate", "remove"}]
  \cup [kind : {"update"}, rec : Recurrences, active : BOOLEAN]
  \cup [kind : {"take"}, s : Slots]

Idle == [pc |-> "idle", op |-> None, row |-> None, to |-> None]
InFlight ==
  [pc : {"loaded", "purge", "generate", "mark"}, op : Op, row : ScheduleRow, to : Time]

TypeOK ==
  /\ now \in 0 .. MaxTime
  /\ schedule \in ScheduleRow
  /\ occ \in [Slots -> OccStatus]
  /\ req \in [Requests -> InFlight \cup {Idle}]
  /\ base \in Time
  /\ stale \in SUBSET Slots

Init ==
  /\ now = 0
  /\ schedule \in [status : {"ABSENT"}, rec : Recurrences, mark : {None}]
  /\ occ = [s \in Slots |-> "ABSENT"]
  /\ req = [r \in Requests |-> Idle]
  /\ base = None /\ stale = {}

-----------------------------------------------------------------------------
(* enumerateOccurrences: the slots of a recurrence in [from, to)           *)

(* The grid of an INTERVAL starts at the anchor of the day before `from`   *)
GridStart(rec, from) == ((from \div DayLength) - 1) * DayLength + rec.anchor

OnGrid(rec, from, t) ==
  IF rec.kind = "INTERVAL" THEN (t - GridStart(rec, from)) % rec.every = 0
  ELSE t % DayLength \in rec.times

Grid(rec, from, to) == {t \in from .. to - 1 : OnGrid(rec, from, t)}

Enumerate(rec, from, to) ==
  LET all == Grid(rec, from, to)
  IN  {t \in all : Cardinality({u \in all : u < t}) < MaxSlots}

(* Laid from any day the grid is the same: an INTERVAL divides the day *)
Steady(rec) == rec.kind = "INTERVAL" => DayLength % rec.every = 0

(* generateForSchedule: from the watermark or, when it lies ahead, from now *)
FromNow(row) == now

From(row) == IF row.mark = None \/ row.mark > now THEN now ELSE row.mark
To == now + Horizon

-----------------------------------------------------------------------------
(* The shape of a request *)

Step(r, kind, pc) == req[r].pc = pc /\ req[r].op.kind = kind

Finish(r) == req' = [req EXCEPT ![r] = Idle]

Exists == schedule.status \in {"ACTIVE", "PAUSED"}

Load(r, op) ==
  /\ req[r] = Idle
  /\ MayOverlap \/ \A x \in Requests : req[x] = Idle
  /\ req' = [req EXCEPT ![r] = [pc |-> "loaded", op |-> op, row |-> schedule, to |-> None]]
  /\ UNCHANGED <<now, schedule, occ, base, stale>>

Untouched(s) == occ[s] = "PENDING"

(* Refused for want of permission, scope or valid input *)
Reject(r) ==
  /\ req[r].pc = "loaded" /\ req[r].op.kind # "generate"
  /\ Finish(r) /\ UNCHANGED <<now, schedule, occ, base, stale>>

(* A request that stops before it deletes leaves the occurrences there *)
Crash(r) ==
  /\ MayCrash /\ req[r].pc \in {"purge", "generate", "mark"}
  /\ stale' = IF req[r].pc = "purge"
              THEN stale \cup {s \in Slots : s > now /\ Untouched(s)} ELSE stale
  /\ Finish(r) /\ UNCHANGED <<now, schedule, occ, base>>

Tick ==
  /\ now < MaxTime /\ now' = now + 1
  /\ UNCHANGED <<schedule, occ, req, base, stale>>

-----------------------------------------------------------------------------
(* generateForSchedule, with the row the request holds *)

LoadGenerate(r) ==
  /\ schedule.status = "ACTIVE" /\ Load(r, [kind |-> "generate"])

Ready(r) == req[r].pc = "generate" \/ Step(r, "generate", "loaded")

WantsWhenBehind(row) == row.mark = None \/ row.mark <= now

Wants(row) == From(row) < To

(* A run that met the cap lays out the first slots only *)
Full(row) == Enumerate(row.rec, From(row), To) = Grid(row.rec, From(row), To)

(* createMany with skipDuplicates: what exists is left as it is *)
Generated(row) ==
  [s \in Slots |->
     IF occ[s] = "ABSENT" /\ s \in Enumerate(row.rec, From(row), To)
     THEN "PENDING" ELSE occ[s]]

Generate(r) ==
  LET row == req[r].row IN
  /\ Ready(r)
  /\ IF Wants(row)
     THEN /\ occ' = Generated(row)
          /\ base' = IF ~Full(row) THEN To
                     ELSE IF row.mark = None THEN From(row) ELSE base
          /\ req' = [req EXCEPT ![r].pc = "mark", ![r].to = To]
     ELSE Finish(r) /\ UNCHANGED <<occ, base>>
  /\ UNCHANGED <<now, schedule, stale>>

Mark(r) ==
  /\ req[r].pc = "mark"
  /\ schedule' = [schedule EXCEPT !.mark = req[r].to]
  /\ Finish(r) /\ UNCHANGED <<now, occ, base, stale>>

-----------------------------------------------------------------------------
(* create, update, remove *)

Create(r) ==
  /\ schedule.status = "ABSENT" /\ req[r] = Idle
  /\ MayOverlap \/ \A x \in Requests : req[x] = Idle
  /\ schedule' = [schedule EXCEPT !.status = "ACTIVE"]
  /\ req' = [req EXCEPT ![r] = [pc |-> "generate", op |-> [kind |-> "generate"],
                                row |-> schedule', to |-> None]]
  /\ UNCHANGED <<now, occ, base, stale>>

LoadUpdate(r, rec, active) ==
  /\ Exists /\ Load(r, [kind |-> "update", rec |-> rec, active |-> active])

IntervalChanged(q) == q.op.rec.every # q.row.rec.every

RecurrenceChanged(q) == q.op.rec # q.row.rec

Updated(row, q) ==
  [row EXCEPT !.rec = q.op.rec,
              !.status = IF @ = "DELETED" THEN @
                         ELSE IF q.op.active THEN "ACTIVE" ELSE "PAUSED",
              !.mark = IF RecurrenceChanged(q) THEN None ELSE @]

UpdateRow(r) ==
  LET q == req[r] IN
  /\ Step(r, "update", "loaded")
  /\ schedule' = Updated(schedule, q)
  /\ base' = IF RecurrenceChanged(q) THEN None ELSE base
  /\ IF RecurrenceChanged(q)
     THEN req' = [req EXCEPT ![r].pc = "purge", ![r].row = schedule']
     ELSE IF schedule'.status = "ACTIVE"
          THEN req' = [req EXCEPT ![r].pc = "generate", ![r].row = schedule']
          ELSE Finish(r)
  /\ UNCHANGED <<now, occ, stale>>

PurgedAll == [s \in Slots |-> IF Untouched(s) THEN "ABSENT" ELSE occ[s]]

(* The occurrences to come that nobody started are deleted *)
Purged == [s \in Slots |-> IF s > now /\ Untouched(s) THEN "ABSENT" ELSE occ[s]]

Purge(r) ==
  /\ req[r].pc = "purge"
  /\ occ' = Purged
  /\ stale' = {s \in stale : Purged[s] # "ABSENT"}
  /\ IF req[r].row.status = "ACTIVE"
     THEN req' = [req EXCEPT ![r].pc = "generate"] ELSE Finish(r)
  /\ UNCHANGED <<now, schedule, base>>

LoadRemove(r) == Exists /\ Load(r, [kind |-> "remove"])

Canceled == [s \in Slots |-> IF Untouched(s) THEN "CANCELED" ELSE occ[s]]

Remove(r) ==
  /\ Step(r, "remove", "loaded")
  /\ schedule' = [schedule EXCEPT !.status = "DELETED"]
  /\ occ' = Canceled
  /\ Finish(r) /\ UNCHANGED <<now, base, stale>>

-----------------------------------------------------------------------------
(* startOccurrence and skipOccurrence, by id: a row deleted in between     *)
(* makes the write fail                                                    *)

LoadOccurrence(r, s) == Untouched(s) /\ Load(r, [kind |-> "take", s |-> s])

CommitOccurrence(r) ==
  /\ Step(r, "take", "loaded") /\ occ[req[r].op.s] # "ABSENT"
  /\ occ' = [occ EXCEPT ![req[r].op.s] = "TAKEN"]
  /\ Finish(r) /\ UNCHANGED <<now, schedule, base, stale>>

-----------------------------------------------------------------------------
Begin(r) ==
  \/ LoadGenerate(r) \/ LoadRemove(r) \/ Create(r)
  \/ \E rec \in Recurrences, active \in BOOLEAN : LoadUpdate(r, rec, active)
  \/ \E s \in Slots : LoadOccurrence(r, s)

Work(r) ==
  \/ Generate(r) \/ Mark(r)
  \/ UpdateRow(r) \/ Purge(r) \/ Remove(r) \/ CommitOccurrence(r)

Next ==
  \/ Tick
  \/ \E r \in Requests : Begin(r) \/ Work(r) \/ Reject(r) \/ Crash(r)

Spec == Init /\ [][Next]_vars

(* The sweeper of the notification worker generates on a timer, whatever   *)
(* requests there are; a request that began goes on, unless the process    *)
(* stops                                                                   *)
Fairness ==
  /\ SF_vars(\E r \in Requests : LoadGenerate(r))
  /\ \A r \in Requests : WF_vars(Work(r) \/ Reject(r))

FairSpec == Spec /\ Fairness

-----------------------------------------------------------------------------
Serial == \A r \in Requests : req[r] = Idle

(* The watermark hides no hole: as often as the generation runs, is        *)
(* interrupted between its two writes, runs late or is moved back to the   *)
(* present, every slot between where it began and the watermark has its    *)
(* occurrence (generateForSchedule).  It began at the horizon of the last  *)
(* run that met the cap, and an interval that does not divide the day has  *)
(* no slots of its own: HorizonFilled and IntervalKept tell what the two   *)
(* leave behind.                                                           *)
NoSlotSkipped ==
  schedule.mark # None /\ Steady(schedule.rec) =>
    \A s \in Grid(schedule.rec, base, schedule.mark) : occ[s] # "ABSENT"

(* Its inductive strengthening: there is no hole either while a request is *)
(* at work, which holds the row as it is and, about to move the watermark, *)
(* has filled what the move will cover.                                    *)
Covered(to) ==
  /\ base \in 0 .. To /\ to \in 0 .. To
  /\ Steady(schedule.rec) =>
       \A s \in Slots : s \in Grid(schedule.rec, base, to) => occ[s] # "ABSENT"

RequestInv(r) ==
  /\ req[r] # Idle => \A x \in Requests \ {r} : req[x] = Idle
  /\ req[r].pc \in {"loaded", "generate", "mark"} =>
       req[r].row.rec = schedule.rec /\ req[r].row.mark = schedule.mark
  /\ req[r].pc = "purge" =>
       req[r].row.rec = schedule.rec /\ req[r].row.mark = None /\ schedule.mark = None
  /\ req[r].pc = "mark" => Covered(req[r].to)

IInv ==
  /\ TypeOK
  /\ schedule.mark # None => Covered(schedule.mark)
  /\ \A r \in Requests : RequestInv(r)

(* Nobody is asked for a round that the plan no longer has: a removed      *)
(* schedule has nothing pending, and what is pending ahead is of the       *)
(* recurrence in force, except what an update that was cut short left      *)
(* (update, remove); an interval that does not divide the day is on no one *)
(* grid.                                                                   *)
PendingMatches ==
  Serial =>
    \A s \in Slots : occ[s] = "PENDING" =>
      /\ Exists
      /\ s > now /\ s \notin stale /\ Steady(schedule.rec)
           => s \in Grid(schedule.rec, now, s + 1)

(* What was due stays on record: a round whose time came is not deleted,   *)
(* and one that was started, omitted or canceled stays so, whatever is     *)
(* done to the schedule (update, remove, skipDuplicates of the generator). *)
RoundsKept ==
  [][\A s \in Slots :
       /\ occ[s] = "PENDING" /\ s <= now => occ'[s] # "ABSENT"
       /\ occ[s] \in {"TAKEN", "CANCELED"} => occ'[s] = occ[s]]_vars

(* An INTERVAL is every so many minutes of real time from the anchor.      *)
(* VIOLATED when the interval does not divide the day: the grid is laid    *)
(* again from the day before each run of the generator.                    *)
IntervalKept ==
  schedule.rec.kind = "INTERVAL" /\ base # None =>
    \A s, t \in Slots :
      base <= s /\ s < t /\ occ[s] # "ABSENT" /\ occ[t] # "ABSENT"
        => t - s >= schedule.rec.every

(* A schedule's occurrences are there from now to the watermark (the       *)
(* comment at schedules.service.ts:224).  VIOLATED when a run meets the    *)
(* cap: it moves the watermark to the horizon all the same.                *)
HorizonFilled ==
  Serial /\ schedule.mark # None /\ schedule.status = "ACTIVE" =>
    \A s \in Grid(schedule.rec, now, schedule.mark) : occ[s] # "ABSENT"

(* A slot of an active schedule gets its occurrence within the horizon,    *)
(* even when nobody opens a worklist, unless the schedule is edited, paused *)
(* or removed first, or a run meets the cap (generateAllActive, the        *)
(* sweeper's call).                                                        *)
Due(s) ==
  /\ schedule.status = "ACTIVE" /\ schedule.mark # None
  /\ Steady(schedule.rec) /\ s \in Grid(schedule.rec, base, To)

RoundsAppear == \A s \in Slots : Due(s) ~> (occ[s] # "ABSENT" \/ ~Due(s))
=============================================================================
