-------------------------- MODULE SchedulesProofs ---------------------------
(***************************************************************************)
(* Proofs about Schedules, for requests that follow one another, each of   *)
(* which may stop between its writes, and for any recurrences, horizon and *)
(* cap on slots: the watermark never hides a slot without an occurrence,   *)
(* what is pending is of the plan, and what was due stays on record.  What *)
(* the first two say of an interval asks whether it divides the day        *)
(* (Steady), schedule by schedule.                                         *)
(***************************************************************************)
EXTENDS Schedules, TLAPS

LEMMA ModShift ==
  ASSUME NEW x \in Int, NEW k \in Int, NEW e \in Nat \ {0}
  PROVE  (x + k * e) % e = x % e
<1> DEFINE q == x \div e
           r == x % e
<1>1. q \in Int /\ r \in 0 .. e - 1 /\ x = e * q + r
  OBVIOUS
<1>2. x + k * e = e * (q + k) + r
  BY <1>1
<1>3. \A y \in Int, p \in Int, s \in 0 .. e - 1 : y = e * p + s => y % e = s
  OBVIOUS
<1> HIDE DEF q, r
<1>4. x + k * e \in Int /\ q + k \in Int
  BY <1>1
<1>5. (x + k * e) % e = r
  BY <1>1, <1>2, <1>3, <1>4
<1> QED BY <1>5 DEF r

(* Whatever the day the grid is laid from, it has the same slots.          *)
LEMMA GridFixed ==
  ASSUME NEW rec \in Recurrences, Steady(rec), NEW a \in Nat, NEW t \in Nat
  PROVE  OnGrid(rec, a, t) <=> OnGrid(rec, 0, t)
<1>1. CASE rec.kind = "INTERVAL"
  <2>1. /\ rec.every \in Nat \ {0} /\ rec.anchor \in Int /\ DayLength \in Nat \ {0}
    BY RecurrenceAssumption, TimeAssumption
  <2>2. PICK k \in Nat : DayLength = k * rec.every
    <3>1. DayLength % rec.every = 0
      BY <1>1 DEF Steady
    <3>2. DayLength = (DayLength \div rec.every) * rec.every /\ DayLength \div rec.every \in Nat
      BY <2>1, <3>1
    <3> QED BY <3>2
  <2>3. ASSUME NEW b \in Nat
        PROVE  (t - GridStart(rec, b)) % rec.every = (t - rec.anchor) % rec.every
    <3>1. PICK n \in Int : n = b \div DayLength
      BY <2>1
    <3>2. GridStart(rec, b) = (n - 1) * DayLength + rec.anchor
      BY <3>1 DEF GridStart
    <3>3. PICK m \in Int : m = (1 - n) * k
      BY <2>2
    <3>4. \A e, z \in Int : (n - 1) * (k * e) + z = z - ((1 - n) * k) * e
      BY <2>2
    <3>5. rec.every \in Int /\ rec.anchor \in Int
      BY <2>1
    <3>6. GridStart(rec, b) = rec.anchor - m * rec.every
      BY <2>2, <3>2, <3>3, <3>4, <3>5, Zenon
    <3>7. PICK p \in Int : p = m * rec.every
      BY <3>3, <3>5
    <3>8. t - GridStart(rec, b) = (t - rec.anchor) + m * rec.every
      BY <3>5, <3>6, <3>7
    <3>9. t - rec.anchor \in Int
      BY <3>5
    <3>10. ((t - rec.anchor) + m * rec.every) % rec.every = (t - rec.anchor) % rec.every
      BY <2>1, <3>3, <3>9, ModShift
    <3> QED BY <3>8, <3>10, Zenon
  <2> QED BY <1>1, <2>3 DEF OnGrid
<1>2. CASE rec.kind # "INTERVAL"
  BY <1>2 DEF OnGrid
<1> QED BY <1>1, <1>2

LEMMA InGrid ==
  ASSUME NEW rec \in Recurrences, Steady(rec),
         NEW from \in 0 .. MaxTime + Horizon, NEW to \in 0 .. MaxTime + Horizon, NEW s
  PROVE  s \in Grid(rec, from, to) <=> s \in from .. to - 1 /\ OnGrid(rec, 0, s)
<1>1. s \in from .. to - 1 => (OnGrid(rec, from, s) <=> OnGrid(rec, 0, s))
  BY GridFixed, TimeAssumption
<1> QED BY <1>1 DEF Grid

-----------------------------------------------------------------------------
LEMMA RequestParts ==
  ASSUME TypeOK, NEW r \in Requests, req[r].pc # "idle"
  PROVE  /\ req[r] \in InFlight /\ req[r] # Idle /\ req[r].op \in Op
         /\ req[r].row \in ScheduleRow /\ req[r].to \in Time
         /\ req[r].pc \in {"loaded", "purge", "generate", "mark"}
  BY DEF TypeOK, Idle, InFlight

(* A step of the only request at work.                                     *)
LEMMA SoleStep ==
  ASSUME IInv, NEW r \in Requests,
         req[r].pc # "idle" \/ \A x \in Requests : req[x] = Idle,
         NEW q \in InFlight \cup {Idle}, req' = [req EXCEPT ![r] = q],
         TypeOK', schedule'.mark # None => Covered(schedule.mark)',
         q.pc \in {"loaded", "generate", "mark"} =>
           q.row.rec = schedule'.rec /\ q.row.mark = schedule'.mark,
         q.pc = "purge" =>
           q.row.rec = schedule'.rec /\ q.row.mark = None /\ schedule'.mark = None,
         q.pc = "mark" => Covered(req[r].to)'
  PROVE  IInv'
<1>1. \A x \in Requests \ {r} : req'[x] = Idle
  <2>1. req[r].pc # "idle" => req[r] # Idle
    BY DEF Idle
  <2> QED BY <2>1 DEF IInv, TypeOK, RequestInv
<1>2. req'[r] = q
  BY DEF IInv, TypeOK
<1>3. \A x \in Requests : RequestInv(x)'
  <2> SUFFICES ASSUME NEW x \in Requests PROVE RequestInv(x)'
    OBVIOUS
  <2>1. CASE x = r
    BY <1>1, <1>2, <2>1 DEF RequestInv
  <2>2. CASE x # r
    BY <1>1, <2>2 DEF RequestInv, Idle
  <2> QED BY <2>1, <2>2
<1> QED BY <1>3 DEF IInv

(* Loading: the row is the stored one.                                     *)
LEMMA LoadKeeps ==
  ASSUME IInv, NEW r \in Requests, NEW op \in Op, Load(r, op), ~MayOverlap
  PROVE  IInv'
<1> DEFINE q == [pc |-> "loaded", op |-> op, row |-> schedule, to |-> None]
<1>1. /\ req' = [req EXCEPT ![r] = q] /\ UNCHANGED <<now, schedule, occ, base, stale>>
      /\ \A x \in Requests : req[x] = Idle
  BY DEF Load
<1>2. q \in InFlight
  BY DEF InFlight, Time, IInv, TypeOK
<1>3. TypeOK'
  BY <1>1, <1>2 DEF IInv, TypeOK
<1>4. schedule'.mark # None => Covered(schedule.mark)'
  BY <1>1 DEF IInv, Covered, To
<1> HIDE DEF q
<1>5. q.pc = "loaded" /\ q.row = schedule
  BY DEF q
<1> QED BY <1>1, <1>2, <1>3, <1>4, <1>5, SoleStep

(* A request that ends while what is covered stays so.                     *)
LEMMA FinishKeeps ==
  ASSUME IInv, NEW r \in Requests, req[r].pc # "idle", Finish(r), UNCHANGED <<now, base>>,
         schedule' \in ScheduleRow, occ' \in [Slots -> OccStatus], stale' \in SUBSET Slots,
         schedule'.mark # None => Covered(schedule.mark)'
  PROVE  IInv'
<1>1. req' = [req EXCEPT ![r] = Idle] /\ Idle.pc = "idle"
  BY DEF Finish, Idle
<1>2. TypeOK'
  BY <1>1 DEF IInv, TypeOK
<1> QED BY <1>1, <1>2, SoleStep

(* Generating: what was covered stays so, and all up to the new mark is.   *)
LEMMA GenerateKeeps ==
  ASSUME IInv, NEW r \in Requests, Generate(r) PROVE IInv'
<1> DEFINE row == req[r].row
           q == [req[r] EXCEPT !.pc = "mark", !.to = To]
<1>1. /\ req[r].pc \in {"loaded", "generate"} /\ req[r] \in InFlight /\ row \in ScheduleRow
      /\ row.rec = schedule.rec /\ row.mark = schedule.mark
      /\ UNCHANGED <<now, schedule, stale>>
  BY RequestParts DEF Generate, Ready, Step, IInv, RequestInv
<1>2. /\ now \in 0 .. MaxTime /\ MaxTime \in Nat /\ Horizon \in Nat \ {0}
      /\ occ \in [Slots -> OccStatus] /\ schedule.rec \in Recurrences
      /\ schedule.mark \in Time /\ schedule \in ScheduleRow
  BY TimeAssumption DEF IInv, TypeOK, ScheduleRow
<1>3. CASE ~Wants(row)
  BY <1>1, <1>3, FinishKeeps DEF Generate, IInv, TypeOK, Covered, To
<1>4. CASE Wants(row)
  <2>1. /\ occ' = Generated(row)
        /\ base' = IF ~Full(row) THEN To ELSE IF row.mark = None THEN From(row) ELSE base
        /\ req' = [req EXCEPT ![r] = q]
    BY <1>4 DEF Generate
  <2>2. /\ To \in 0 .. MaxTime + Horizon /\ From(row) \in 0 .. MaxTime + Horizon
        /\ row.mark # None => From(row) <= row.mark
        /\ From(row) < To
    BY <1>1, <1>2, <1>4, BoundAssumption DEF To, From, Wants, Time
  <2>3. schedule.mark # None => Covered(schedule.mark)
    BY DEF IInv
  <2>4. base' \in 0 .. To /\ base' \in 0 .. MaxTime + Horizon
    <3>1. row.mark # None => base \in 0 .. To
      BY <1>1, <2>3 DEF Covered
    <3> HIDE DEF To, row
    <3> QED BY <1>2, <2>1, <2>2, <3>1
  <2>5. \A s \in Slots : occ[s] # "ABSENT" => occ'[s] # "ABSENT"
    BY <2>1 DEF Generated
  <2>6. ASSUME Steady(schedule.rec), NEW s \in Slots, s \in Grid(schedule.rec, base', To)
        PROVE  occ'[s] # "ABSENT"
    <3>1. s \in base' .. To - 1 /\ OnGrid(schedule.rec, 0, s)
      BY <1>2, <2>2, <2>4, <2>6, InGrid
    <3>2. Full(row)
      BY <1>2, <2>1, <2>2, <3>1
    <3>3. CASE s >= From(row)
      <4>1. s \in Grid(schedule.rec, From(row), To)
        BY <1>2, <2>2, <2>6, <3>1, <3>3, InGrid
      <4> QED BY <1>1, <2>1, <3>2, <4>1 DEF Generated, Full
    <3>4. CASE s < From(row)
      <4>1. row.mark # None /\ base' = base
        BY <1>2, <2>1, <2>2, <2>4, <3>1, <3>2, <3>4
      <4>2. Covered(schedule.mark) /\ s < schedule.mark
        BY <1>1, <1>2, <2>2, <2>3, <3>1, <3>4, <4>1 DEF Time
      <4>3. s \in Grid(schedule.rec, base, schedule.mark)
        BY <1>2, <2>4, <2>6, <3>1, <4>1, <4>2, InGrid DEF Covered, To
      <4> QED BY <2>5, <2>6, <4>2, <4>3 DEF Covered, To
    <3> QED BY <1>2, <2>2, <3>1, <3>3, <3>4
  <2>7. q \in InFlight /\ q.pc = "mark" /\ q.row = row /\ q.to = To
    <3>1. To \in Time
      BY <1>2, <2>2 DEF Time
    <3> HIDE DEF To
    <3> QED BY <1>1, <3>1 DEF InFlight
  <2>8. req'[r] = q
    BY <2>1 DEF IInv, TypeOK
  <2>9. Covered(req[r].to)'
    <3>1. req'[r].to = To
      BY <2>7, <2>8
    <3>2. schedule'.rec = schedule.rec
      BY <1>1
    <3>3. To' = To /\ To \in 0 .. To /\ Steady(schedule.rec)' = Steady(schedule.rec)
      BY <1>1, <1>2 DEF To, Steady
    <3>4. Grid(schedule.rec, base, req[r].to)' = Grid(schedule.rec, base', To)
      BY <3>1, <3>2 DEF Grid, OnGrid, GridStart
    <3> HIDE DEF To
    <3> QED BY <2>4, <2>6, <3>1, <3>2, <3>3, <3>4 DEF Covered
  <2>10. schedule'.mark # None => Covered(schedule.mark)'
    <3> SUFFICES ASSUME schedule.mark # None PROVE Covered(schedule.mark)'
      BY <1>1
    <3>1. /\ schedule' = schedule /\ To' = To
          /\ base' = base \/ base' = To
      BY <1>1, <2>1 DEF To
    <3>2. Covered(schedule.mark)
      BY <2>3
    <3>3. ASSUME base' = To
          PROVE  Grid(schedule.rec, base', schedule.mark) = {}
      BY <1>2, <2>2, <3>2, <3>3 DEF Covered, Grid
    <3>4. Grid(schedule.rec, base', schedule.mark) \subseteq Grid(schedule.rec, base, schedule.mark)
      BY <3>1, <3>3
    <3>5. Grid(schedule.rec, base, schedule.mark)' = Grid(schedule.rec, base', schedule.mark)
      BY <3>1 DEF Grid, OnGrid, GridStart
    <3>6. Steady(schedule.rec)' = Steady(schedule.rec)
      BY <3>1
    <3> HIDE DEF To
    <3> QED BY <2>4, <2>5, <3>1, <3>2, <3>4, <3>5, <3>6 DEF Covered
  <2>11. TypeOK'
    <3>1. occ' \in [Slots -> OccStatus]
      BY <1>2, <2>1 DEF Generated, OccStatus
    <3>2. base' \in Time
      BY <2>2, <2>4 DEF Time
    <3>3. req' \in [Requests -> InFlight \cup {Idle}]
      BY <2>1, <2>7 DEF IInv, TypeOK
    <3> QED BY <1>1, <3>1, <3>2, <3>3 DEF IInv, TypeOK
  <2> HIDE DEF q
  <2> QED BY <1>1, <2>1, <2>7, <2>9, <2>10, <2>11, SoleStep
<1> QED BY <1>3, <1>4

(* Moving the watermark: what the generation filled is what it covers.     *)
LEMMA MarkKeeps ==
  ASSUME IInv, NEW r \in Requests, Mark(r) PROVE IInv'
<1>1. /\ req[r].pc = "mark" /\ Covered(req[r].to) /\ req[r].to \in Time
      /\ UNCHANGED <<now, occ, base, stale>> /\ Finish(r)
      /\ schedule' = [schedule EXCEPT !.mark = req[r].to]
  BY RequestParts DEF Mark, IInv, RequestInv
<1>2. schedule' \in ScheduleRow /\ schedule'.mark = req[r].to /\ schedule'.rec = schedule.rec
  BY <1>1 DEF ScheduleRow, IInv, TypeOK
<1>3. Covered(schedule.mark)'
  BY <1>1, <1>2 DEF Covered, To
<1> QED BY <1>1, <1>2, <1>3, FinishKeeps DEF IInv, TypeOK

LEMMA CreateKeeps ==
  ASSUME IInv, NEW r \in Requests, Create(r), ~MayOverlap PROVE IInv'
<1> DEFINE q == [pc |-> "generate", op |-> [kind |-> "generate"],
                 row |-> schedule', to |-> None]
<1>1. /\ schedule' = [schedule EXCEPT !.status = "ACTIVE"] /\ req' = [req EXCEPT ![r] = q]
      /\ UNCHANGED <<now, occ, base, stale>> /\ \A x \in Requests : req[x] = Idle
  BY DEF Create
<1>2. schedule' \in ScheduleRow /\ schedule'.mark = schedule.mark
      /\ schedule'.rec = schedule.rec
  BY <1>1 DEF ScheduleRow, IInv, TypeOK
<1>3. q \in InFlight
  BY <1>2 DEF InFlight, Time, Op
<1>4. TypeOK'
  BY <1>1, <1>2, <1>3 DEF IInv, TypeOK
<1>5. schedule'.mark # None => Covered(schedule.mark)'
  BY <1>1, <1>2 DEF IInv, Covered, To
<1>6. q.pc = "generate" /\ q.row = schedule'
  OBVIOUS
<1> HIDE DEF q
<1> QED BY <1>1, <1>3, <1>4, <1>5, <1>6, SoleStep

(* An update of the recurrence resets the watermark before anything is     *)
(* deleted, and any other leaves it with what it covers.                   *)
LEMMA UpdateKeeps ==
  ASSUME IInv, NEW r \in Requests, UpdateRow(r) PROVE IInv'
<1>1. /\ req[r].pc = "loaded" /\ req[r] \in InFlight /\ req[r].op \in Op
      /\ req[r].op.kind = "update" /\ req[r].row.rec = schedule.rec
      /\ schedule \in ScheduleRow
  BY RequestParts DEF UpdateRow, Step, IInv, RequestInv, TypeOK
<1>2. req[r].op.rec \in Recurrences /\ req[r].op.active \in BOOLEAN
  BY <1>1 DEF Op
<1>3. /\ schedule' = Updated(schedule, req[r]) /\ UNCHANGED <<now, occ, stale>>
      /\ base' = IF RecurrenceChanged(req[r]) THEN None ELSE base
  BY DEF UpdateRow
<1>4. schedule' \in ScheduleRow
  BY <1>1, <1>2, <1>3 DEF Updated, ScheduleRow, Time
<1>5. CASE RecurrenceChanged(req[r])
  <2> DEFINE q == [req[r] EXCEPT !.pc = "purge", !.row = schedule']
  <2>1. req' = [req EXCEPT ![r] = q] /\ schedule'.mark = None /\ base' = None
    <3>1. req' = [req EXCEPT ![r] = q] /\ base' = None
      BY <1>3, <1>5 DEF UpdateRow
    <3>2. schedule'.mark = None
      BY <1>1, <1>3, <1>5 DEF Updated, ScheduleRow
    <3> QED BY <3>1, <3>2
  <2>2. q \in InFlight /\ q.pc = "purge" /\ q.row = schedule'
    BY <1>1, <1>4 DEF InFlight
  <2>3. TypeOK'
    BY <1>3, <1>4, <2>1, <2>2 DEF IInv, TypeOK, Time
  <2> HIDE DEF q
  <2> QED BY <1>1, <2>1, <2>2, <2>3, SoleStep
<1>6. CASE ~RecurrenceChanged(req[r])
  <2>1. schedule'.mark = schedule.mark /\ schedule'.rec = schedule.rec /\ base' = base
    BY <1>1, <1>3, <1>6 DEF Updated, ScheduleRow, RecurrenceChanged
  <2>2. schedule'.mark # None => Covered(schedule.mark)'
    BY <1>3, <2>1 DEF IInv, Covered, To
  <2>3. CASE schedule'.status = "ACTIVE"
    <3> DEFINE q == [req[r] EXCEPT !.pc = "generate", !.row = schedule']
    <3>1. req' = [req EXCEPT ![r] = q]
      BY <1>6, <2>3 DEF UpdateRow
    <3>2. q \in InFlight /\ q.pc = "generate" /\ q.row = schedule'
      BY <1>1, <1>4 DEF InFlight
    <3>3. TypeOK'
      BY <1>3, <1>4, <2>1, <3>1, <3>2 DEF IInv, TypeOK
    <3> HIDE DEF q
    <3> QED BY <1>1, <2>2, <3>1, <3>2, <3>3, SoleStep
  <2>4. CASE schedule'.status # "ACTIVE"
    <3>1. Finish(r)
      BY <1>6, <2>4 DEF UpdateRow
    <3> QED BY <1>1, <1>3, <1>4, <2>1, <2>2, <3>1, FinishKeeps DEF IInv, TypeOK
  <2> QED BY <2>3, <2>4
<1> QED BY <1>5, <1>6

(* Deleting what is ahead happens while nothing is covered.                *)
LEMMA PurgeKeeps ==
  ASSUME IInv, NEW r \in Requests, Purge(r) PROVE IInv'
<1>1. /\ req[r].pc = "purge" /\ req[r] \in InFlight /\ req[r].row.rec = schedule.rec
      /\ req[r].row.mark = None /\ schedule.mark = None
      /\ UNCHANGED <<now, schedule, base>> /\ occ' = Purged
      /\ stale' = {s \in stale : Purged[s] # "ABSENT"}
  BY RequestParts DEF Purge, IInv, RequestInv
<1>2. occ' \in [Slots -> OccStatus] /\ stale' \in SUBSET Slots
  BY <1>1 DEF Purged, OccStatus, IInv, TypeOK
<1>3. CASE req[r].row.status = "ACTIVE"
  <2> DEFINE q == [req[r] EXCEPT !.pc = "generate"]
  <2>1. req' = [req EXCEPT ![r] = q]
    BY <1>3 DEF Purge
  <2>2. q \in InFlight /\ q.pc = "generate" /\ q.row = req[r].row
    BY <1>1 DEF InFlight
  <2>3. TypeOK'
    BY <1>1, <1>2, <2>1, <2>2 DEF IInv, TypeOK
  <2> HIDE DEF q
  <2> QED BY <1>1, <2>1, <2>2, <2>3, SoleStep
<1>4. CASE req[r].row.status # "ACTIVE"
  BY <1>1, <1>2, <1>4, FinishKeeps DEF Purge, IInv, TypeOK
<1> QED BY <1>3, <1>4

(* Removing, starting, omitting, refusing and stopping take no occurrence  *)
(* away.                                                                   *)
LEMMA EndsKeep ==
  ASSUME IInv, NEW r \in Requests,
         Remove(r) \/ CommitOccurrence(r) \/ Reject(r) \/ Crash(r)
  PROVE  IInv'
<1>1. /\ req[r].pc # "idle" /\ Finish(r) /\ UNCHANGED <<now, base>>
  BY DEF Remove, CommitOccurrence, Reject, Crash, Step
<1>2. /\ schedule' \in ScheduleRow
      /\ schedule'.mark = schedule.mark /\ schedule'.rec = schedule.rec
  BY DEF Remove, CommitOccurrence, Reject, Crash, ScheduleRow, IInv, TypeOK
<1>3. stale' \in SUBSET Slots
  BY DEF Remove, CommitOccurrence, Reject, Crash, IInv, TypeOK
<1>4. /\ occ' \in [Slots -> OccStatus]
      /\ \A s \in Slots : occ[s] # "ABSENT" => occ'[s] # "ABSENT"
  BY DEF Remove, CommitOccurrence, Reject, Crash, Canceled, OccStatus, IInv, TypeOK
<1>5. schedule'.mark # None => Covered(schedule.mark)'
  BY <1>1, <1>2, <1>4 DEF IInv, Covered, To
<1> QED BY <1>1, <1>2, <1>3, <1>4, <1>5, FinishKeeps

-----------------------------------------------------------------------------
LEMMA NextKeeps ==
  ASSUME IInv, ~MayOverlap, [Next]_vars PROVE IInv'
<1>1. CASE Tick
  <2>1. now' \in 0 .. MaxTime
    BY <1>1, TimeAssumption DEF Tick, IInv, TypeOK
  <2>2. ASSUME NEW to, Covered(to) PROVE Covered(to)'
    BY <1>1, <2>2, <2>1, TimeAssumption DEF Tick, IInv, TypeOK, Covered, To
  <2> QED BY <1>1, <2>1, <2>2 DEF Tick, IInv, TypeOK, RequestInv
<1>2. ASSUME NEW r \in Requests, Begin(r) PROVE IInv'
  <2>1. \A x : x \in [kind : {"generate", "remove"}] => x \in Op
    BY DEF Op
  <2>2. CASE LoadGenerate(r) \/ LoadRemove(r)
    BY <2>2, LoadKeeps DEF LoadGenerate, LoadRemove, Op
  <2>3. ASSUME NEW rec \in Recurrences, NEW active \in BOOLEAN, LoadUpdate(r, rec, active)
        PROVE  IInv'
    <3>1. [kind |-> "update", rec |-> rec, active |-> active] \in Op
      BY DEF Op
    <3> QED BY <2>3, <3>1, LoadKeeps DEF LoadUpdate
  <2>4. ASSUME NEW s \in Slots, LoadOccurrence(r, s) PROVE IInv'
    <3>1. [kind |-> "take", s |-> s] \in Op
      BY DEF Op
    <3> QED BY <2>4, <3>1, LoadKeeps DEF LoadOccurrence
  <2> QED BY <1>2, <2>2, <2>3, <2>4, CreateKeeps DEF Begin
<1>3. ASSUME NEW r \in Requests, Work(r) \/ Reject(r) \/ Crash(r) PROVE IInv'
  BY <1>3, GenerateKeeps, MarkKeeps, UpdateKeeps, PurgeKeeps, EndsKeep DEF Work
<1>4. CASE UNCHANGED vars
  BY <1>4 DEF vars, IInv, TypeOK, RequestInv, Covered, To
<1> QED BY <1>1, <1>2, <1>3, <1>4 DEF Next

LEMMA InitKeeps == Init => IInv
<1> SUFFICES ASSUME Init PROVE IInv
  OBVIOUS
<1>1. TypeOK
  BY TimeAssumption DEF Init, TypeOK, ScheduleRow, OccStatus, Time
<1>2. \A r \in Requests : RequestInv(r)
  BY DEF Init, RequestInv, Idle
<1> QED BY <1>1, <1>2 DEF Init, IInv

(* The invariant of requests that follow one another.                      *)
THEOREM RoundInvariant ==
  ASSUME ~MayOverlap PROVE Spec => []IInv
<1>1. IInv /\ [Next]_vars => IInv'
  BY NextKeeps
<1> QED BY InitKeeps, <1>1, PTL DEF Spec

(* The watermark hides no slot.                                            *)
THEOREM NothingSkipped ==
  ASSUME ~MayOverlap PROVE Spec => []NoSlotSkipped
<1>1. IInv => NoSlotSkipped
  <2> SUFFICES ASSUME IInv, schedule.mark # None, Steady(schedule.rec),
                      NEW s \in Grid(schedule.rec, base, schedule.mark)
               PROVE  occ[s] # "ABSENT"
    BY DEF NoSlotSkipped
  <2>1. Covered(schedule.mark) /\ schedule.rec \in Recurrences
    BY DEF IInv, TypeOK, ScheduleRow
  <2>2. s \in base .. schedule.mark - 1
    BY DEF Grid
  <2>3. s \in Slots
    BY <2>1, <2>2, TimeAssumption DEF Covered, To, Slots, IInv, TypeOK
  <2> QED BY <2>1, <2>3 DEF Covered, To
<1> QED BY RoundInvariant, <1>1, PTL

-----------------------------------------------------------------------------
(* Types, for any recurrences and however the requests interleave.         *)

LEMMA LoadTyped ==
  ASSUME TypeOK, NEW r \in Requests, NEW op \in Op, Load(r, op) PROVE TypeOK'
<1> DEFINE q == [pc |-> "loaded", op |-> op, row |-> schedule, to |-> None]
<1>1. q \in InFlight
  BY DEF InFlight, Time, TypeOK
<1> QED BY <1>1 DEF Load, TypeOK

LEMMA BeginTyped == ASSUME TypeOK, NEW r \in Requests, Begin(r) PROVE TypeOK'
<1>1. CASE LoadGenerate(r) \/ LoadRemove(r)
  BY <1>1, LoadTyped DEF LoadGenerate, LoadRemove, Op
<1>2. ASSUME NEW rec \in Recurrences, NEW active \in BOOLEAN, LoadUpdate(r, rec, active)
      PROVE  TypeOK'
  <2>1. [kind |-> "update", rec |-> rec, active |-> active] \in Op
    BY DEF Op
  <2> QED BY <1>2, <2>1, LoadTyped DEF LoadUpdate
<1>3. ASSUME NEW s \in Slots, LoadOccurrence(r, s) PROVE TypeOK'
  <2>1. [kind |-> "take", s |-> s] \in Op
    BY DEF Op
  <2> QED BY <1>3, <2>1, LoadTyped DEF LoadOccurrence
<1>4. CASE Create(r)
  <2> DEFINE q == [pc |-> "generate", op |-> [kind |-> "generate"],
                   row |-> schedule', to |-> None]
  <2>1. /\ schedule' = [schedule EXCEPT !.status = "ACTIVE"]
        /\ req' = [req EXCEPT ![r] = q] /\ UNCHANGED <<now, occ, base, stale>>
    BY <1>4 DEF Create
  <2>2. schedule' \in ScheduleRow
    BY <2>1 DEF ScheduleRow, TypeOK
  <2>3. q \in InFlight
    BY <2>2 DEF InFlight, Time, Op
  <2> QED BY <2>1, <2>2, <2>3 DEF TypeOK
<1> QED BY <1>1, <1>2, <1>3, <1>4 DEF Begin

LEMMA GenerateTyped == ASSUME TypeOK, NEW r \in Requests, Generate(r) PROVE TypeOK'
<1> DEFINE row == req[r].row
           q == [req[r] EXCEPT !.pc = "mark", !.to = To]
<1>1. req[r].pc # "idle"
  BY DEF Generate, Ready, Step
<1>2. /\ req[r] \in InFlight /\ row \in ScheduleRow
      /\ now \in Nat /\ Horizon \in Nat /\ base \in Time
  BY <1>1, RequestParts, TimeAssumption DEF TypeOK
<1>3. From(row) \in Time /\ To \in Time
  BY <1>2 DEF From, To, Time, ScheduleRow
<1>4. CASE Wants(row)
  <2>1. /\ occ' = Generated(row)
        /\ base' = IF ~Full(row) THEN To ELSE IF row.mark = None THEN From(row) ELSE base
        /\ req' = [req EXCEPT ![r] = q] /\ UNCHANGED <<now, schedule, stale>>
    BY <1>4 DEF Generate
  <2>2. q \in InFlight
    <3> HIDE DEF To
    <3> QED BY <1>2, <1>3 DEF InFlight
  <2>3. occ' \in [Slots -> OccStatus]
    BY <2>1 DEF Generated, OccStatus, TypeOK
  <2>4. base' \in Time
    BY <1>2, <1>3, <2>1
  <2> HIDE DEF q
  <2> QED BY <2>1, <2>2, <2>3, <2>4 DEF TypeOK
<1>5. CASE ~Wants(row)
  BY <1>5 DEF Generate, Finish, TypeOK
<1> QED BY <1>4, <1>5

LEMMA UpdateTyped == ASSUME TypeOK, NEW r \in Requests, UpdateRow(r) PROVE TypeOK'
<1>1. /\ req[r] \in InFlight /\ req[r].op \in Op /\ req[r].op.kind = "update"
      /\ schedule \in ScheduleRow
  BY RequestParts DEF UpdateRow, Step, TypeOK
<1>2. req[r].op.rec \in Recurrences /\ req[r].op.active \in BOOLEAN
  BY <1>1 DEF Op
<1>3. schedule' \in ScheduleRow /\ UNCHANGED <<now, occ, stale>>
  BY <1>1, <1>2 DEF UpdateRow, Updated, ScheduleRow, Time
<1>4. base' \in Time
  BY DEF UpdateRow, Time, TypeOK
<1>5. \A pc \in {"purge", "generate"} :
        [req[r] EXCEPT !.pc = pc, !.row = schedule'] \in InFlight
  BY <1>1, <1>3 DEF InFlight
<1>6. req' \in [Requests -> InFlight \cup {Idle}]
  <2>1. \/ req' = [req EXCEPT ![r] = [req[r] EXCEPT !.pc = "purge", !.row = schedule']]
        \/ req' = [req EXCEPT ![r] = [req[r] EXCEPT !.pc = "generate", !.row = schedule']]
        \/ req' = [req EXCEPT ![r] = Idle]
    BY DEF UpdateRow, Finish
  <2> QED BY <1>5, <2>1 DEF TypeOK
<1> QED BY <1>3, <1>4, <1>6 DEF TypeOK

LEMMA WorkTyped ==
  ASSUME TypeOK, NEW r \in Requests, Work(r) \/ Reject(r) \/ Crash(r) PROVE TypeOK'
<1>1. CASE Mark(r)
  <2>1. req[r].to \in Time
    BY <1>1, RequestParts DEF Mark
  <2> QED BY <1>1, <2>1 DEF Mark, Finish, ScheduleRow, TypeOK
<1>2. CASE Purge(r)
  <2>1. req[r] \in InFlight
    BY <1>2, RequestParts DEF Purge
  <2>2. [req[r] EXCEPT !.pc = "generate"] \in InFlight
    BY <2>1 DEF InFlight
  <2>3. req' \in [Requests -> InFlight \cup {Idle}]
    BY <1>2, <2>2 DEF Purge, Finish, TypeOK
  <2> QED BY <1>2, <2>3 DEF Purge, Purged, OccStatus, TypeOK
<1>3. CASE Remove(r)
  BY <1>3 DEF Remove, Finish, Canceled, OccStatus, ScheduleRow, TypeOK
<1>4. CASE CommitOccurrence(r)
  BY <1>4 DEF CommitOccurrence, Finish, OccStatus, TypeOK
<1>5. CASE Reject(r) \/ Crash(r)
  BY <1>5 DEF Reject, Crash, Finish, TypeOK
<1> QED BY <1>1, <1>2, <1>3, <1>4, <1>5, GenerateTyped, UpdateTyped DEF Work

LEMMA TypeNext == ASSUME TypeOK, [Next]_vars PROVE TypeOK'
<1>1. CASE Tick
  BY <1>1, TimeAssumption DEF Tick, TypeOK
<1>2. CASE UNCHANGED vars
  BY <1>2 DEF vars, TypeOK
<1> QED BY <1>1, <1>2, BeginTyped, WorkTyped DEF Next

LEMMA TypeInit == Init => TypeOK
  BY InitKeeps DEF IInv

-----------------------------------------------------------------------------
(* Requests that follow one another: only a schedule that exists is worked  *)
(* on or has rounds pending, and the round a request is about to start or   *)
(* omit is pending still.                                                  *)
Alone ==
  /\ \A r, x \in Requests : req[r] # Idle /\ req[x] # Idle => r = x
  /\ \A r \in Requests : req[r] # Idle => Exists
  /\ \A r \in Requests : Step(r, "take", "loaded") => occ[req[r].op.s] = "PENDING"
  /\ \A s \in Slots : occ[s] = "PENDING" => Exists

(* After a step of the only request at work the others are still idle.     *)
LEMMA AloneStep ==
  ASSUME Alone, NEW r \in Requests,
         req[r] # Idle \/ \A x \in Requests : req[x] = Idle,
         \A x \in Requests \ {r} : req'[x] = req[x],
         req'[r] # Idle => Exists',
         Step(r, "take", "loaded")' => occ'[req'[r].op.s] = "PENDING",
         \A s \in Slots : occ'[s] = "PENDING" => Exists'
  PROVE  Alone'
<1>1. \A x \in Requests \ {r} : req'[x] = Idle
  BY DEF Alone
<1>2. \A x \in Requests : Step(x, "take", "loaded")' => x = r
  BY <1>1 DEF Step, Idle
<1> QED BY <1>1, <1>2 DEF Alone

LEMMA AloneLoad ==
  ASSUME TypeOK, Alone, ~MayOverlap, NEW r \in Requests, NEW op, Load(r, op), Exists,
         op.kind = "take" => occ[op.s] = "PENDING"
  PROVE  Alone'
<1>1. /\ \A x \in Requests : req[x] = Idle
      /\ \A x \in Requests \ {r} : req'[x] = req[x]
      /\ req'[r].pc = "loaded" /\ req'[r].op = op /\ UNCHANGED <<schedule, occ>>
  BY DEF Load, TypeOK
<1>2. Exists' /\ \A s \in Slots : occ'[s] = "PENDING" => Exists'
  BY <1>1 DEF Exists
<1> QED BY <1>1, <1>2, AloneStep DEF Step

LEMMA AloneBegin ==
  ASSUME TypeOK, Alone, ~MayOverlap, NEW r \in Requests, Begin(r) PROVE Alone'
<1>1. CASE LoadGenerate(r) \/ LoadRemove(r)
  BY <1>1, AloneLoad DEF LoadGenerate, LoadRemove, Exists
<1>2. ASSUME NEW rec \in Recurrences, NEW active \in BOOLEAN, LoadUpdate(r, rec, active)
      PROVE  Alone'
  BY <1>2, AloneLoad DEF LoadUpdate
<1>3. ASSUME NEW s \in Slots, LoadOccurrence(r, s) PROVE Alone'
  BY <1>3, AloneLoad DEF LoadOccurrence, Untouched, Alone
<1>4. CASE Create(r)
  <2>1. /\ \A x \in Requests : req[x] = Idle
        /\ \A x \in Requests \ {r} : req'[x] = req[x]
        /\ req'[r].pc = "generate" /\ UNCHANGED occ
        /\ schedule' = [schedule EXCEPT !.status = "ACTIVE"]
    BY <1>4 DEF Create, TypeOK
  <2>2. Exists'
    BY <2>1 DEF Exists, ScheduleRow, TypeOK
  <2> QED BY <2>1, <2>2, AloneStep DEF Step
<1> QED BY <1>1, <1>2, <1>3, <1>4 DEF Begin

(* The work of the one request: it leaves the schedule there unless it is   *)
(* the one that removes it, which cancels what is pending.                 *)
LEMMA AloneWork ==
  ASSUME TypeOK, Alone, NEW r \in Requests, Work(r) \/ Reject(r) \/ Crash(r) PROVE Alone'
<1>1. req[r].pc # "idle"
  BY DEF Work, Reject, Crash, Generate, Ready, Mark, UpdateRow, Purge, Remove,
     CommitOccurrence, Step
<1>2. /\ req[r] \in InFlight /\ req[r] # Idle /\ req[r].op \in Op /\ Exists
      /\ schedule \in ScheduleRow /\ Idle.pc = "idle"
  BY <1>1, RequestParts DEF Alone, TypeOK, Idle
<1>3. \A x \in Requests \ {r} : req'[x] = req[x]
  BY DEF Work, Reject, Crash, Generate, Mark, UpdateRow, Purge, Remove,
     CommitOccurrence, Finish, TypeOK
<1>4. req'[r] = Idle \/ req'[r].pc \in {"mark", "purge", "generate"}
  BY <1>2 DEF Work, Reject, Crash, Generate, Mark, UpdateRow, Purge, Remove,
     CommitOccurrence, Finish, TypeOK, InFlight
<1>5. CASE ~Remove(r)
  <2>1. Exists'
    <3>1. CASE UpdateRow(r)
      BY <1>2, <3>1 DEF UpdateRow, Updated, Exists, ScheduleRow
    <3>2. CASE Mark(r)
      BY <1>2, <3>2 DEF Mark, Exists, ScheduleRow
    <3>3. CASE ~UpdateRow(r) /\ ~Mark(r)
      BY <1>2, <1>5, <3>3 DEF Work, Reject, Crash, Generate, Purge, CommitOccurrence, Exists
    <3> QED BY <3>1, <3>2, <3>3
  <2> QED BY <1>2, <1>3, <1>4, <2>1, AloneStep DEF Step
<1>6. CASE Remove(r)
  <2>1. /\ req'[r] = Idle
        /\ \A s \in Slots : occ'[s] # "PENDING"
    BY <1>6 DEF Remove, Finish, Canceled, Untouched, TypeOK
  <2> QED BY <1>2, <1>3, <2>1, AloneStep DEF Step
<1> QED BY <1>5, <1>6

LEMMA AloneNext == ASSUME TypeOK, Alone, ~MayOverlap, [Next]_vars PROVE Alone'
<1>1. CASE Tick
  BY <1>1 DEF Tick, Alone, Step, Exists
<1>2. CASE UNCHANGED vars
  BY <1>2 DEF vars, Alone, Step, Exists
<1> QED BY <1>1, <1>2, AloneBegin, AloneWork DEF Next

LEMMA AloneHolds == ~MayOverlap => (Spec => [](TypeOK /\ Alone))
<1> SUFFICES ASSUME ~MayOverlap PROVE Spec => [](TypeOK /\ Alone)
  OBVIOUS
<1>1. Init => Alone
  BY DEF Init, Alone, Step, Idle
<1>2. TypeOK /\ Alone /\ [Next]_vars => TypeOK' /\ Alone'
  BY TypeNext, AloneNext
<1> QED BY TypeInit, <1>1, <1>2, PTL DEF Spec

(* What was due stays on record.  When requests follow one another, and     *)
(* each may stop between its writes, no step deletes an occurrence whose    *)
(* time came, and none touches one that was started, omitted or canceled.   *)
THEOREM WhatWasDueStays == ~MayOverlap => (Spec => RoundsKept)
<1> SUFFICES ASSUME ~MayOverlap PROVE Spec => RoundsKept
  OBVIOUS
<1> DEFINE Kept == \A s \in Slots :
             /\ occ[s] = "PENDING" /\ s <= now => occ'[s] # "ABSENT"
             /\ occ[s] \in {"TAKEN", "CANCELED"} => occ'[s] = occ[s]
<1>1. TypeOK /\ Alone /\ [Next]_vars => [Kept]_vars
  <2> SUFFICES ASSUME TypeOK, Alone, Next, NEW s \in Slots
               PROVE  /\ occ[s] = "PENDING" /\ s <= now => occ'[s] # "ABSENT"
                      /\ occ[s] \in {"TAKEN", "CANCELED"} => occ'[s] = occ[s]
    OBVIOUS
  <2>1. ASSUME NEW r \in Requests, Generate(r)
        PROVE  occ'[s] = occ[s] \/ occ[s] = "ABSENT"
    BY <2>1 DEF Generate, Generated
  <2>2. ASSUME NEW r \in Requests, Purge(r)
        PROVE  occ'[s] = occ[s] \/ (s > now /\ occ[s] = "PENDING")
    BY <2>2 DEF Purge, Purged, Untouched
  <2>3. ASSUME NEW r \in Requests, Remove(r)
        PROVE  occ'[s] = occ[s] \/ (occ[s] = "PENDING" /\ occ'[s] = "CANCELED")
    BY <2>3 DEF Remove, Canceled, Untouched
  <2>4. ASSUME NEW r \in Requests, CommitOccurrence(r)
        PROVE  occ'[s] = occ[s] \/ (occ[s] = "PENDING" /\ occ'[s] = "TAKEN")
    BY <2>4 DEF CommitOccurrence, Alone, TypeOK
  <2>5. CASE UNCHANGED occ
    BY <2>5
  <2>6. s \in Int /\ now \in Int
    BY TimeAssumption DEF Slots, TypeOK
  <2>7. \/ UNCHANGED occ
        \/ \E r \in Requests : Generate(r) \/ Purge(r) \/ Remove(r) \/ CommitOccurrence(r)
    BY DEF Next, Tick, Begin, LoadGenerate, LoadRemove, LoadUpdate, LoadOccurrence, Load,
       Create, Work, Mark, UpdateRow, Reject, Crash
  <2> QED BY <2>1, <2>2, <2>3, <2>4, <2>5, <2>6, <2>7
<1> QED BY AloneHolds, <1>1, PTL DEF Spec, RoundsKept

-----------------------------------------------------------------------------
(* What is pending ahead is on the grid of the recurrence in force, but     *)
(* while an update that replaced it has still to delete the rounds of the   *)
(* one before, and for those that such an update left when it stopped.      *)
Planned ==
  \/ \E r \in Requests : req[r].pc = "purge"
  \/ Steady(schedule.rec) =>
       \A s \in Slots : occ[s] = "PENDING" /\ s > now /\ s \notin stale =>
         OnGrid(schedule.rec, 0, s)

(* A step that adds nothing pending, brings nothing ahead and keeps the     *)
(* recurrence, of a request that has nothing to delete.                     *)
LEMMA PlannedStays ==
  ASSUME IInv, Planned, schedule'.rec = schedule.rec, now' \in Int, now' >= now,
         stale \subseteq stale',
         \A s \in Slots : occ'[s] = "PENDING" => occ[s] = "PENDING",
         \A r \in Requests : req[r].pc # "purge"
  PROVE  Planned'
<1>1. \A s \in Slots : s \in Int
  BY TimeAssumption DEF Slots
<1>2. now \in Int
  BY TimeAssumption DEF IInv, TypeOK
<1>3. \A s \in Slots : s > now' => s > now
  BY <1>1, <1>2
<1> QED BY <1>3 DEF Planned

LEMMA PlannedGenerate ==
  ASSUME IInv, Planned, NEW r \in Requests, Generate(r) PROVE Planned'
<1> DEFINE row == req[r].row
<1>1. /\ req[r].pc \in {"loaded", "generate"} /\ row \in ScheduleRow
      /\ row.rec = schedule.rec /\ UNCHANGED <<now, schedule, stale>>
  BY RequestParts DEF Generate, Ready, Step, IInv, RequestInv
<1>2. /\ now \in 0 .. MaxTime /\ MaxTime \in Nat /\ Horizon \in Nat \ {0}
      /\ schedule.rec \in Recurrences
  BY TimeAssumption DEF IInv, TypeOK, ScheduleRow
<1>3. \A x \in Requests : req[x].pc # "purge"
  BY <1>1 DEF IInv, RequestInv, Idle
<1>4. CASE Wants(row)
  <2>1. /\ To \in 0 .. MaxTime + Horizon /\ From(row) \in 0 .. MaxTime + Horizon
    BY <1>1, <1>2, <1>4, BoundAssumption DEF To, From, Wants, Time, ScheduleRow
  <2>2. \A s \in Slots : occ'[s] = "PENDING" =>
          occ[s] = "PENDING" \/ s \in Enumerate(schedule.rec, From(row), To)
    BY <1>1, <1>4 DEF Generate, Generated
  <2>3. Steady(schedule.rec) =>
          \A s : s \in Enumerate(schedule.rec, From(row), To) => OnGrid(schedule.rec, 0, s)
    BY <1>2, <2>1, InGrid DEF Enumerate
  <2>4. Steady(schedule.rec) => \A s \in Slots : occ[s] = "PENDING" /\ s > now /\ s \notin stale =>
          OnGrid(schedule.rec, 0, s)
    BY <1>3 DEF Planned
  <2> QED BY <1>1, <2>2, <2>3, <2>4 DEF Planned
<1>5. CASE ~Wants(row)
  BY <1>1, <1>3, <1>5 DEF Generate, Planned
<1> QED BY <1>4, <1>5

(* An update that replaces the recurrence goes to delete what the one       *)
(* before had planned.                                                     *)
LEMMA PlannedUpdate ==
  ASSUME IInv, Planned, NEW r \in Requests, UpdateRow(r) PROVE Planned'
<1>1. /\ req[r].pc = "loaded" /\ req[r] \in InFlight /\ req[r].row.rec = schedule.rec
      /\ schedule \in ScheduleRow /\ UNCHANGED <<now, occ, stale>>
      /\ schedule' = Updated(schedule, req[r])
  BY RequestParts DEF UpdateRow, Step, IInv, RequestInv, TypeOK
<1>2. CASE RecurrenceChanged(req[r])
  <2>1. req'[r].pc = "purge"
    BY <1>1, <1>2 DEF UpdateRow, InFlight, IInv, TypeOK
  <2> QED BY <2>1 DEF Planned
<1>3. CASE ~RecurrenceChanged(req[r])
  <2>1. schedule'.rec = schedule.rec
    BY <1>1, <1>3 DEF Updated, RecurrenceChanged, ScheduleRow
  <2>2. \A x \in Requests : req[x].pc # "purge"
    BY <1>1 DEF IInv, RequestInv, Idle
  <2>3. now \in Int /\ now' = now
    BY <1>1, TimeAssumption DEF IInv, TypeOK
  <2> QED BY <1>1, <2>1, <2>2, <2>3, PlannedStays
<1> QED BY <1>2, <1>3

(* Deleting leaves nothing pending ahead; stopping before it puts what is   *)
(* left on record.                                                         *)
LEMMA PlannedPurge ==
  ASSUME IInv, NEW r \in Requests, req[r].pc = "purge", Purge(r) \/ Crash(r)
  PROVE  Planned'
<1>1. CASE Purge(r)
  BY <1>1 DEF Purge, Purged, Untouched, Planned
<1>2. CASE Crash(r)
  BY <1>2 DEF Crash, Untouched, Planned
<1> QED BY <1>1, <1>2

LEMMA PlannedNext ==
  ASSUME IInv, Planned, [Next]_vars PROVE Planned'
<1>1. now \in Int /\ schedule \in ScheduleRow
  BY TimeAssumption DEF IInv, TypeOK
<1>2. CASE Tick \/ UNCHANGED vars
  <2>1. /\ now' \in Int /\ now' >= now /\ UNCHANGED <<schedule, occ, req, stale>>
    BY <1>1, <1>2 DEF Tick, vars
  <2>2. CASE \E r \in Requests : req[r].pc = "purge"
    BY <2>1, <2>2 DEF Planned
  <2>3. CASE \A r \in Requests : req[r].pc # "purge"
    BY <2>1, <2>3, PlannedStays
  <2> QED BY <2>2, <2>3
<1>3. ASSUME NEW r \in Requests, Begin(r) PROVE Planned'
  <2>1. /\ UNCHANGED <<now, occ, stale>> /\ schedule'.rec = schedule.rec
        /\ req[r] = Idle /\ \A x \in Requests \ {r} : req'[x] = req[x]
    BY <1>1, <1>3 DEF Begin, LoadGenerate, LoadRemove, LoadUpdate, LoadOccurrence, Load,
       Create, ScheduleRow, IInv, TypeOK
  <2>2. CASE \E x \in Requests : req[x].pc = "purge"
    BY <2>1, <2>2 DEF Planned, Idle
  <2>3. CASE \A x \in Requests : req[x].pc # "purge"
    BY <1>1, <2>1, <2>3, PlannedStays
  <2> QED BY <2>2, <2>3
<1>4. ASSUME NEW r \in Requests,
             \/ Mark(r) \/ Remove(r) \/ CommitOccurrence(r) \/ Reject(r)
             \/ (Crash(r) /\ req[r].pc # "purge")
      PROVE  Planned'
  <2>1. req[r].pc \notin {"idle", "purge"}
    BY <1>4 DEF Mark, Remove, CommitOccurrence, Reject, Crash, Step
  <2>2. \A x \in Requests : req[x].pc # "purge"
    BY <2>1 DEF IInv, RequestInv, Idle
  <2>3. /\ UNCHANGED <<now, stale>> /\ schedule'.rec = schedule.rec
        /\ \A s \in Slots : occ'[s] = "PENDING" => occ[s] = "PENDING"
    BY <1>1, <1>4 DEF Mark, Remove, Canceled, Untouched, CommitOccurrence, Reject, Crash,
       ScheduleRow, IInv, TypeOK
  <2> QED BY <1>1, <2>2, <2>3, PlannedStays
<1>5. ASSUME NEW r \in Requests, Purge(r) \/ (Crash(r) /\ req[r].pc = "purge")
      PROVE  Planned'
  BY <1>5, PlannedPurge DEF Purge
<1> QED BY <1>2, <1>3, <1>4, <1>5, PlannedGenerate, PlannedUpdate DEF Next, Work

(* Nobody is asked for a round that the plan no longer has: when requests   *)
(* follow one another and each may stop between its writes, what is pending *)
(* is of a schedule that exists and, if it is ahead, of its recurrence.     *)
THEOREM PendingIsPlanned ==
  ASSUME ~MayOverlap PROVE Spec => []PendingMatches
<1>1. Init => Planned
  BY DEF Init, Planned
<1>2. IInv /\ Planned /\ [Next]_vars => Planned'
  BY PlannedNext
<1>3. IInv /\ Alone /\ Planned => PendingMatches
  <2> SUFFICES ASSUME IInv, Alone, Planned, Serial, NEW s \in Slots, occ[s] = "PENDING"
               PROVE  /\ Exists
                      /\ s > now /\ s \notin stale /\ Steady(schedule.rec)
                           => s \in Grid(schedule.rec, now, s + 1)
    BY DEF PendingMatches
  <2>1. /\ Exists /\ now \in 0 .. MaxTime /\ MaxTime \in Nat /\ Horizon \in Nat
        /\ schedule.rec \in Recurrences
    BY TimeAssumption DEF Alone, IInv, TypeOK, ScheduleRow
  <2>2. s > now /\ s \notin stale /\ Steady(schedule.rec) => OnGrid(schedule.rec, 0, s)
    BY DEF Planned, Serial, Idle
  <2>3. /\ s \in Int /\ s + 1 \in 0 .. MaxTime + Horizon /\ now \in 0 .. MaxTime + Horizon
        /\ s > now => s \in now .. (s + 1) - 1
    BY <2>1 DEF Slots
  <2> QED BY <2>1, <2>2, <2>3, InGrid
<1> QED BY RoundInvariant, AloneHolds, <1>1, <1>2, <1>3, PTL DEF Spec
=============================================================================
