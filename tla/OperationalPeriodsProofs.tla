---------------------- MODULE OperationalPeriodsProofs ----------------------
(***************************************************************************)
(* Proofs about OperationalPeriods, with one request at a time             *)
(* (~MayOverlap): what a request checked still holds when it writes, hence *)
(* the order of the closes, and the books of the locked periods.           *)
(***************************************************************************)
EXTENDS OperationalPeriods, TLAPS

USE DEF Periods

(* A request in flight and the parts of its operation *)
LEMMA InFlightParts ==
  ASSUME NEW r \in Clerks, TypeOK, clerk[r] # Idle
  PROVE  /\ clerk[r].op \in Op
         /\ clerk[r].missing \in SUBSET Periods
         /\ clerk[r].ent \in RecordRow
         /\ clerk[r].op.kind \notin Governs =>
              clerk[r].op.e \in Records
         /\ clerk[r].op.kind \in Governs \ {"generate"} =>
              clerk[r].op.p \in Periods
         /\ clerk[r].op.kind \in {"create", "save", "defer", "transition", "submit"} =>
              clerk[r].op.p \in Periods /\ clerk[r].op.content \in Contents
         /\ clerk[r].op.kind = "correct" => clerk[r].op.content \in Contents
<1>1. clerk[r] \in InFlight
  BY DEF TypeOK
<1>2. clerk[r].op \in Op /\ clerk[r].missing \in SUBSET Periods
      /\ clerk[r].ent \in RecordRow
  BY <1>1 DEF InFlight
<1> QED
  BY <1>2 DEF Op, Governs

(* A row that a request leaves is a row, and has a date *)
LEMMA WrittenType ==
  ASSUME NEW r \in Clerks, TypeOK, clerk[r] # Idle,
         clerk[r].op.kind \notin Governs,
         NEW row \in RecordRow, NEW new \in Written(row, clerk[r])
  PROVE  /\ new \in RecordRow
         /\ Dated(row) \/ clerk[r].op.kind = "create" => Dated(new)
<1> DEFINE op == clerk[r].op
           dated == IF Sealed(clerk[r].ent) THEN row ELSE [row EXCEPT !.date = op.p]
<1>1. op.kind \in {"create", "save", "defer", "transition", "submit", "void", "correct"}
  BY InFlightParts DEF Op, Governs
<1>2. CASE op.kind \in {"create", "save", "defer", "transition", "submit"}
  <2>1. op.p \in Periods /\ op.content \in Contents
    BY <1>2, InFlightParts
  <2>2. dated \in RecordRow /\ (Dated(row) => Dated(dated))
    BY <2>1 DEF RecordRow, Dated
  <2> HIDE DEF dated
  <2>3. CASE op.kind = "create"
    BY <2>3, <2>1 DEF Written, NoRecord, RecordRow, Dated
  <2>4. CASE op.kind = "save"
    <3>1. PICK b \in BOOLEAN :
            new = [[dated EXCEPT !.content = op.content] EXCEPT !.flagged = b]
      BY <2>4 DEF Written, dated
    <3> QED
      BY <2>1, <2>2, <2>4, <3>1 DEF RecordRow, Dated
  <2>5. CASE op.kind = "defer"
    BY <2>5, <2>2 DEF Written, dated
  <2>6. CASE op.kind = "transition"
    <3>1. new \in {[dated EXCEPT !.state = s] : s \in {"SEALED", "SUBMITTED"}}
      BY <2>6 DEF Written, dated
    <3> QED
      BY <2>2, <2>6, <3>1 DEF RecordRow, Dated
  <2>7. CASE op.kind = "submit"
    BY <2>7, <2>2 DEF Written, RecordRow, Dated, dated
  <2> QED
    BY <1>2, <2>3, <2>4, <2>5, <2>6, <2>7
<1>3. CASE op.kind = "void"
  BY <1>3 DEF Written, RecordRow, Dated
<1>4. CASE op.kind = "correct"
  <2>1. op.content \in Contents
    BY <1>4, InFlightParts
  <2>2. PICK b \in BOOLEAN :
          new = [[row EXCEPT !.content = op.content] EXCEPT !.flagged = b]
    BY <1>4 DEF Written
  <2> QED
    BY <1>4, <2>1, <2>2 DEF RecordRow, Dated
<1> QED
  BY <1>1, <1>2, <1>3, <1>4

LEMMA InitInv == Init => IInv
<1> SUFFICES ASSUME Init PROVE IInv
  OBVIOUS
<1>1. TypeOK
  BY DEF Init, TypeOK, PeriodRow, RecordRow, NoRecord
<1>2. SequenceExcused /\ Alone /\ StillAllowed /\ RecordInv
  BY DEF Init, SequenceExcused, Alone, StillAllowed, RecordInv, NoRecord, Status
<1> QED
  BY <1>1, <1>2 DEF IInv

(* When the only request ends, nothing is in flight *)
LEMMA AfterIt ==
  ASSUME NEW r \in Clerks, TypeOK, Alone, clerk[r] # Idle, Finish(r)
  PROVE  clerk' = [x \in Clerks |-> Idle] /\ Alone' /\ StillAllowed'
<1>1. clerk' = [x \in Clerks |-> Idle]
  BY DEF TypeOK, Alone, Finish
<1> QED
  BY <1>1 DEF Alone, StillAllowed

LEMMA TypeStep ==
  ASSUME TypeOK, [Next]_vars
  PROVE  TypeOK'
<1>1. CASE UNCHANGED vars
  BY <1>1 DEF TypeOK, vars
<1>2. ASSUME NEW r \in Clerks, NEW op \in Op, Begin(r, op)
      PROVE  TypeOK'
  <2>1. Missing(op.year) \in SUBSET Periods
    BY DEF Missing
  <2>2. op.kind \notin Governs => record[op.e] \in RecordRow
    BY DEF TypeOK, Op, Governs
  <2>3. NoRecord \in RecordRow
    BY DEF NoRecord, RecordRow
  <2> DEFINE q == [op |-> op,
                   missing |-> IF op.kind = "generate" THEN Missing(op.year) ELSE {},
                   ent |-> IF op.kind \in Governs THEN NoRecord ELSE record[op.e]]
  <2>4. q \in InFlight
    BY <2>1, <2>2, <2>3 DEF InFlight
  <2>5. clerk' = [clerk EXCEPT ![r] = q] /\ UNCHANGED <<period, record>>
    BY <1>2 DEF Begin
  <2> HIDE DEF q
  <2> QED
    BY <2>4, <2>5 DEF TypeOK
<1>3. ASSUME NEW r \in Clerks, Abandon(r)
      PROVE  TypeOK'
  BY <1>3 DEF TypeOK, Abandon, Finish
<1>4. ASSUME NEW r \in Clerks, CommitGenerate(r)
      PROVE  TypeOK'
  <2>1. period' \in [Periods -> PeriodRow]
    BY <1>4 DEF TypeOK, CommitGenerate, PeriodRow
  <2> QED
    BY <1>4, <2>1 DEF TypeOK, CommitGenerate, Finish
<1>5. ASSUME NEW r \in Clerks, CommitGovern(r)
      PROVE  TypeOK'
  <2>1. clerk[r].op.p \in Periods
    BY <1>5, InFlightParts DEF CommitGovern, Doing
  <2>2. ASSUME NEW row \in PeriodRow
        PROVE  Governed(row, clerk[r].op) \in PeriodRow
    BY DEF Governed, PeriodRow
  <2>3. period' \in [Periods -> PeriodRow]
    BY <1>5, <2>1, <2>2 DEF TypeOK, CommitGovern
  <2> QED
    BY <1>5, <2>3 DEF TypeOK, CommitGovern, Finish
<1>6. ASSUME NEW r \in Clerks, CommitRecord(r)
      PROVE  TypeOK'
  <2>1. clerk[r].op.e \in Records
    BY <1>6, InFlightParts DEF CommitRecord
  <2>2. PICK new \in Written(record[clerk[r].op.e], clerk[r]) :
          record' = [record EXCEPT ![clerk[r].op.e] = new]
    BY <1>6 DEF CommitRecord
  <2>3. new \in RecordRow
    BY <1>6, <2>1, <2>2, WrittenType DEF CommitRecord, TypeOK
  <2>4. record' \in [Records -> RecordRow]
    BY <2>2, <2>3 DEF TypeOK
  <2> QED
    BY <1>6, <2>4 DEF TypeOK, CommitRecord, Finish
<1> QED
  BY <1>1, <1>2, <1>3, <1>4, <1>5, <1>6 DEF Next

(* The order of the closes survives a generation: a row that is missing is *)
(* not shut                                                                *)
LEMMA GenerateKeepsOrder ==
  ASSUME NEW r \in Clerks, TypeOK, SequenceExcused, CommitGenerate(r)
  PROVE  SequenceExcused'
<1> DEFINE new == clerk[r].missing
           Row(p) == [status |-> "OPEN",
                      out |-> IF \E x \in Later(p) : Shut(x) THEN "late" ELSE "none"]
<1>1. CASE \A p \in new : Status(p) = "ABSENT"
  <2>1. period' = [p \in Periods |-> IF p \in new THEN Row(p) ELSE period[p]]
    BY <1>1 DEF CommitGenerate
  <2>2. \A x \in Periods : Shut(x)' => Shut(x)
    BY <2>1 DEF Shut, Status
  <2>3. ASSUME NEW p \in Periods, Status(p)' = "OPEN", \E x \in Later(p) : Shut(x)'
        PROVE  period'[p].out # "none"
    <3>1. \E x \in Later(p) : Shut(x)
      BY <2>2, <2>3 DEF Later
    <3> QED
      BY <2>1, <2>3, <3>1 DEF SequenceExcused, Status
  <2> QED
    BY <2>3 DEF SequenceExcused, Later
<1>2. CASE ~ \A p \in new : Status(p) = "ABSENT"
  BY <1>2 DEF CommitGenerate, SequenceExcused, Status, Shut, Later
<1> QED
  BY <1>1, <1>2

(* ... and a close, a lock, an unlock and a reopening that may be done     *)
LEMMA GovernKeepsOrder ==
  ASSUME NEW r \in Clerks, TypeOK, SequenceExcused, StillAllowed, CommitGovern(r)
  PROVE  SequenceExcused'
<1> DEFINE op == clerk[r].op
<1>1. op.p \in Periods /\ op \in Op /\ op.kind \in Governs \ {"generate"}
  BY InFlightParts DEF CommitGovern, Doing
<1>2. GovernAllows(op)
  BY <1>1 DEF StillAllowed, Allows, CommitGovern, Doing
<1>3. period' = [period EXCEPT ![op.p] = Governed(@, op)]
  BY DEF CommitGovern
<1>4. \A p \in Periods : p # op.p => period'[p] = period[p]
  BY <1>1, <1>3 DEF TypeOK
<1>5. period'[op.p] = Governed(period[op.p], op)
  BY <1>1, <1>3 DEF TypeOK
<1>6. period[op.p] \in PeriodRow
  BY <1>1 DEF TypeOK
<1> SUFFICES ASSUME NEW p \in Periods, NEW x \in Periods, p < x,
                    period'[p].status = "OPEN",
                    period'[x].status \in {"CLOSED", "LOCKED"}
             PROVE  period'[p].out # "none"
  BY DEF SequenceExcused, Status, Shut, Later
<1> HIDE DEF op
<1>7. CASE op.kind = "close"
  <2>1. period'[op.p].status = "CLOSED"
    BY <1>5, <1>7 DEF Governed
  <2>2. \A y \in Periods : y < op.p => period[y].status # "OPEN"
    BY <1>2, <1>7 DEF GovernAllows, Earlier, Status
  <2>3. p # op.p
    BY <2>1
  <2>4. x # op.p
    BY <1>4, <2>2, <2>3
  <2> QED
    BY <1>4, <2>3, <2>4 DEF SequenceExcused, Status, Shut, Later
<1>8. CASE op.kind \in {"lock", "unlock"}
  <2>1. period[op.p].status \in {"CLOSED", "LOCKED"}
    BY <1>2, <1>8 DEF GovernAllows, Status
  <2>2. period'[op.p].status \in {"CLOSED", "LOCKED"}
    BY <1>5, <1>6, <1>8 DEF Governed, PeriodRow
  <2>3. p # op.p
    BY <2>2
  <2> QED
    BY <1>4, <2>1, <2>3 DEF SequenceExcused, Status, Shut, Later
<1>9. CASE op.kind = "reopen"
  <2>1. period'[op.p] = [status |-> "OPEN",
                         out |-> IF op.ack THEN "confirmed" ELSE "none"]
    BY <1>5, <1>9 DEF Governed
  <2>2. op.ack \/ \A y \in Periods : op.p < y => ~Shut(y)
    BY <1>2, <1>9 DEF GovernAllows, Confirmed, Later, Shut, Status
  <2>3. x # op.p
    BY <2>1
  <2>4. Shut(x)
    BY <1>4, <2>3 DEF Shut, Status
  <2>5. CASE p = op.p
    BY <2>1, <2>2, <2>4, <2>5
  <2>6. CASE p # op.p
    BY <1>4, <2>4, <2>6 DEF SequenceExcused, Status, Later
  <2> QED
    BY <2>5, <2>6
<1> QED
  BY <1>1, <1>7, <1>8, <1>9 DEF Governs

(* What is allowed depends on the rows alone *)
LEMMA SameAllows ==
  ASSUME UNCHANGED <<period, record>>, NEW op
  PROVE  Allows(op)' = Allows(op) /\ Missing(op.year)' = Missing(op.year)
<1>1. \A p, b : Writable(p, b)' = Writable(p, b)
  BY DEF Writable, Status
<1>2. GovernAllows(op)' = GovernAllows(op)
  BY DEF GovernAllows, Confirmed, Status
<1>3. RecordAllows(op)' = RecordAllows(op)
  BY <1>1 DEF RecordAllows
<1> QED
  BY <1>2, <1>3 DEF Allows, Missing, Status

LEMMA StepInv ==
  ASSUME ~MayOverlap, IInv, [Next]_vars
  PROVE  IInv'
<1> USE DEF IInv
<1>1. TypeOK'
  BY TypeStep
<1>2. CASE UNCHANGED vars
  <2>1. StillAllowed'
    BY <1>2, SameAllows DEF vars, StillAllowed
  <2> QED
    BY <1>1, <1>2, <2>1 DEF vars, SequenceExcused, Alone, RecordInv, Status, Shut
<1>3. ASSUME NEW r \in Clerks, NEW op \in Op, Begin(r, op)
      PROVE  IInv'
  <2>1. /\ \A x \in Clerks : x # r => clerk'[x] = Idle
        /\ clerk'[r].op = op
        /\ op.kind = "generate" => clerk'[r].missing = Missing(op.year)
        /\ op.kind \notin Governs => clerk'[r].ent = record[op.e]
        /\ Allows(op)
        /\ UNCHANGED <<period, record>>
    BY <1>3 DEF Begin, TypeOK
  <2>2. Allows(op)' /\ Missing(op.year)' = Missing(op.year)
    BY <2>1, SameAllows
  <2>3. Alone'
    BY <2>1 DEF Alone
  <2>4. StillAllowed'
    BY <2>1, <2>2 DEF StillAllowed
  <2>5. SequenceExcused' /\ RecordInv'
    BY <2>1 DEF SequenceExcused, RecordInv, Status, Shut
  <2> QED
    BY <1>1, <2>3, <2>4, <2>5
<1>4. ASSUME NEW r \in Clerks, Abandon(r)
      PROVE  IInv'
  <2>1. Alone' /\ StillAllowed'
    BY <1>4, AfterIt DEF Abandon
  <2>2. SequenceExcused' /\ RecordInv'
    BY <1>4 DEF Abandon, SequenceExcused, RecordInv, Status, Shut
  <2> QED
    BY <1>1, <2>1, <2>2
<1>5. ASSUME NEW r \in Clerks, CommitGenerate(r)
      PROVE  IInv'
  <2>1. Alone' /\ StillAllowed'
    BY <1>5, AfterIt DEF CommitGenerate, Doing
  <2>2. RecordInv'
    BY <1>5 DEF CommitGenerate, RecordInv
  <2> QED
    BY <1>1, <1>5, <2>1, <2>2, GenerateKeepsOrder
<1>6. ASSUME NEW r \in Clerks, CommitGovern(r)
      PROVE  IInv'
  <2>1. Alone' /\ StillAllowed'
    BY <1>6, AfterIt DEF CommitGovern, Doing
  <2>2. RecordInv'
    BY <1>6 DEF CommitGovern, RecordInv
  <2> QED
    BY <1>1, <1>6, <2>1, <2>2, GovernKeepsOrder
<1>7. ASSUME NEW r \in Clerks, CommitRecord(r)
      PROVE  IInv'
  <2>1. Alone' /\ StillAllowed'
    BY <1>7, AfterIt DEF CommitRecord
  <2>2. SequenceExcused'
    BY <1>7 DEF CommitRecord, SequenceExcused, Status, Shut
  <2>3. RecordInv'
    <3> DEFINE e == clerk[r].op.e
    <3>1. e \in Records /\ clerk[r].op.kind \notin Governs /\ clerk[r] # Idle
      BY <1>7, InFlightParts DEF CommitRecord
    <3>2. PICK new \in Written(record[e], clerk[r]) :
            record' = [record EXCEPT ![e] = new]
      BY <1>7 DEF CommitRecord
    <3>3. Dated(record[e]) \/ clerk[r].op.kind = "create"
      <4>1. RecordAllows(clerk[r].op)
        BY <3>1 DEF StillAllowed, Allows
      <4>2. clerk[r].op.kind = "create" \/ record[e] # NoRecord
        BY <4>1 DEF RecordAllows, NoRecord
      <4> QED
        BY <3>1, <4>2 DEF RecordInv
    <3>4. Dated(new)
      BY <3>1, <3>2, <3>3, WrittenType DEF TypeOK
    <3> QED
      BY <3>1, <3>2, <3>4 DEF RecordInv, TypeOK
  <2> QED
    BY <1>1, <2>1, <2>2, <2>3
<1> QED
  BY <1>2, <1>3, <1>4, <1>5, <1>6, <1>7 DEF Next

(* With one request at a time a period is open before one that is shut     *)
(* only if it was generated late or its reopening was confirmed, and what  *)
(* each request checked still holds when it writes, for any number of      *)
(* periods, records and clerks.                                            *)
THEOREM PeriodInvariant == ~MayOverlap => (Spec => []IInv)
<1> SUFFICES ASSUME ~MayOverlap PROVE Spec => []IInv
  OBVIOUS
<1>1. Init => IInv
  BY InitInv
<1>2. IInv /\ [Next]_vars => IInv'
  BY StepInv
<1> QED
  BY <1>1, <1>2, PTL DEF Spec

(* The date that a request on a record leaves *)
LEMMA WrittenDate ==
  ASSUME NEW row \in RecordRow, NEW q, NEW new \in Written(row, q),
         q.op.kind \in {"save", "defer", "transition", "submit"}
  PROVE  new.date = IF Sealed(q.ent) THEN row.date ELSE q.op.p
<1> DEFINE dated == IF Sealed(q.ent) THEN row ELSE [row EXCEPT !.date = q.op.p]
<1>1. /\ \A c, b : [[dated EXCEPT !.content = c] EXCEPT !.flagged = b].date = dated.date
      /\ \A s : [dated EXCEPT !.state = s].date = dated.date
      /\ Sealed(q.ent) => dated.date = row.date
      /\ ~Sealed(q.ent) => dated.date = q.op.p
  BY DEF RecordRow
<1> HIDE DEF dated
<1>2. CASE q.op.kind = "save"
  <2>1. PICK b \in BOOLEAN :
          new = [[dated EXCEPT !.content = q.op.content] EXCEPT !.flagged = b]
    BY <1>2 DEF Written, dated
  <2> QED
    BY <1>1, <2>1
<1>3. CASE q.op.kind = "defer"
  <2>1. new = dated
    BY <1>3 DEF Written, dated
  <2> QED
    BY <1>1, <2>1
<1>4. CASE q.op.kind = "transition"
  <2>1. PICK s \in {"SEALED", "SUBMITTED"} : new = [dated EXCEPT !.state = s]
    BY <1>4 DEF Written, dated
  <2> QED
    BY <1>1, <2>1
<1>5. CASE q.op.kind = "submit"
  <2>1. new = [dated EXCEPT !.state = "SUBMITTED"]
    BY <1>5 DEF Written, dated
  <2> QED
    BY <1>1, <2>1
<1> QED
  BY <1>2, <1>3, <1>4, <1>5

(* What a request on a record leaves in the books of a locked period *)
LEMMA RecordKeepsBooks ==
  ASSUME IInv, NEW r \in Clerks, CommitRecord(r),
         NEW p \in Periods, NEW e \in Records,
         Status(p) = "LOCKED", InBooks(record[e], p) \/ InBooks(record'[e], p)
  PROVE  record'[e] = record[e] \/ Corrected(record[e], record'[e])
<1> USE DEF IInv
<1> DEFINE op == clerk[r].op
<1>1. op.e \in Records /\ op.kind \notin Governs /\ clerk[r] # Idle /\ op \in Op
  BY InFlightParts DEF CommitRecord
<1>2. CASE e # op.e
  BY <1>1, <1>2 DEF CommitRecord, TypeOK
<1>3. CASE e = op.e
  <2>1. RecordAllows(op) /\ clerk[r].ent = record[e]
    BY <1>1, <1>3 DEF StillAllowed, Allows
  <2>2. PICK new \in Written(record[e], clerk[r]) : record'[e] = new
    BY <1>1, <1>3 DEF CommitRecord, TypeOK
  <2>3. record[e] \in RecordRow
    BY DEF TypeOK
  <2>4. \A b \in BOOLEAN : ~Writable(p, b)
    BY DEF Writable
  <2>5. CASE op.kind = "create"
    BY <1>3, <2>1, <2>2, <2>5 DEF RecordAllows, Written, NoRecord, InBooks, Sealed
  <2>6. CASE op.kind \in {"save", "defer", "transition", "submit"}
    <3>1. op.bypass \in BOOLEAN
      BY <1>1, <2>6 DEF Op
    <3>2. record[e].state \in {"DRAFT", "SEALED"} /\ ~Writable(p, op.bypass)
      BY <1>3, <2>1, <2>4, <2>6, <3>1 DEF RecordAllows
    <3>3. new.date = IF Sealed(record[e]) THEN record[e].date ELSE op.p
      BY <2>1, <2>2, <2>3, <2>6, WrittenDate
    <3>4. CASE record[e].state = "SEALED"
      <4>1. Writable(record[e].date, op.bypass)
        BY <1>3, <2>1, <2>6, <3>4 DEF RecordAllows, DateUnder, Sealed
      <4> QED
        BY <2>2, <3>2, <3>3, <3>4, <4>1 DEF InBooks, Sealed
    <3>5. CASE record[e].state = "DRAFT"
      <4>1. Writable(op.p, op.bypass)
        BY <1>3, <2>1, <2>6, <3>5 DEF RecordAllows, DateUnder, Sealed
      <4> QED
        BY <2>2, <3>2, <3>3, <3>5, <4>1 DEF InBooks, Sealed
    <3> QED
      BY <3>2, <3>4, <3>5
  <2>7. CASE op.kind = "void"
    BY <1>3, <2>1, <2>2, <2>3, <2>7 DEF RecordAllows, Written, InBooks, Sealed, RecordRow
  <2>8. CASE op.kind = "correct"
    <3>1. op.content \in Contents /\ record[e].flagged
      BY <1>1, <1>3, <2>1, <2>8, InFlightParts DEF RecordAllows
    <3>2. PICK b \in BOOLEAN :
            new = [[record[e] EXCEPT !.content = op.content] EXCEPT !.flagged = b]
      BY <2>2, <2>8 DEF Written
    <3>3. new = [record[e] EXCEPT !.content = op.content, !.flagged = b]
      BY <2>3, <3>2 DEF RecordRow
    <3> QED
      BY <2>2, <3>1, <3>3 DEF Corrected
  <2> QED
    BY <1>1, <2>5, <2>6, <2>7, <2>8 DEF Op, Governs
<1> QED
  BY <1>2, <1>3

(* While a period stays LOCKED its sealed records stay the same, but for   *)
(* the correction of an exception, with one request at a time.             *)
THEOREM LockedBooksKept == ~MayOverlap => (Spec => LockedBooks)
<1> SUFFICES ASSUME ~MayOverlap PROVE Spec => LockedBooks
  OBVIOUS
<1> DEFINE Kept ==
      \A p \in Periods, e \in Records :
        /\ Status(p) = "LOCKED" /\ Status(p)' = "LOCKED"
        /\ InBooks(record[e], p) \/ InBooks(record'[e], p)
        => record'[e] = record[e] \/ Corrected(record[e], record'[e])
<1>1. IInv /\ [Next]_vars => [Kept]_vars
  <2> SUFFICES ASSUME IInv, Next PROVE Kept
    OBVIOUS
  <2>1. CASE UNCHANGED record
    BY <2>1
  <2>2. ASSUME NEW r \in Clerks, CommitRecord(r)
        PROVE  Kept
    BY <2>2, RecordKeepsBooks
  <2> QED
    BY <2>1, <2>2 DEF Next, Begin, Abandon, CommitGenerate, CommitGovern
<1>2. Spec => []IInv
  BY PeriodInvariant
<1> QED
  BY <1>1, <1>2, PTL DEF Spec, LockedBooks
=============================================================================
