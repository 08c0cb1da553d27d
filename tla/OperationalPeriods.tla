------------------------- MODULE OperationalPeriods -------------------------
(***************************************************************************)
(* The accounting periods of one fiscal calendar, which are generated,     *)
(* closed, locked, unlocked and reopened (OperationalPeriodService), and   *)
(* the guard they put on the records of the log book, whose handlers ask   *)
(* assertWritable with the date the record would have.                     *)
(*                                                                         *)
(* A period stands for its range of operational days, in the order of the  *)
(* periodStart, and a record's date for the period it falls in: every date *)
(* here is governed by the calendar.  Of a record only what the guard is   *)
(* about is kept; LogEntry models the record itself.                       *)
(*                                                                         *)
(* A request reads the rows and checks them (Begin), and writes later      *)
(* (the Commit actions) unless something else it checks fails (Abandon).   *)
(***************************************************************************)
EXTENDS Integers, FiniteSets

CONSTANTS
  LastPeriod,     \* bound: the periods are 1 .. LastPeriod
  Years,          \* the years that periods are generated for
  YearOf,         \* the year each period belongs to
  Records,        \* ids of the log entries
  Contents,       \* the values a record may hold
  Clerks,         \* requests that can be in flight at once
  None,           \* null
  RequirePeriod,  \* the calendar's flag: dates need a generated period
  MayOverlap      \* can two requests be in flight together?

Periods == 1 .. LastPeriod

ASSUME SetAssumption == LastPeriod \in Nat /\ YearOf \in [Periods -> Years]
ASSUME NoneAssumption == None \notin Periods \cup Contents
ASSUME FlagAssumption == RequirePeriod \in BOOLEAN /\ MayOverlap \in BOOLEAN

VARIABLES
  period,   \* OperationalPeriod rows, ABSENT until generated
  record,   \* the LogEntry rows, as the guard sees them
  clerk     \* requests in flight

vars == <<period, record, clerk>>

-----------------------------------------------------------------------------
(* out: history, how an OPEN period came to be before a closed one: none   *)
(* when nothing says it did                                                *)
PeriodRow ==
  [status : {"ABSENT", "OPEN", "CLOSED", "LOCKED"},
   out : {"none", "late", "confirmed"}]

(* flagged: one of its values has an exception that is not resolved        *)
RecordRow ==
  [state : {"ABSENT", "DRAFT", "SEALED", "SUBMITTED", "VOID"},
   date : Periods \cup {None}, content : Contents \cup {None},
   flagged : BOOLEAN]

(* p is the period of the date that the values of the request give         *)
Op ==
       [kind : {"generate"}, year : Years]
  \cup [kind : {"close", "lock", "unlock"}, p : Periods]
  \cup [kind : {"reopen"}, p : Periods, ack : BOOLEAN]
  \cup [kind : {"create", "save", "defer", "transition", "submit"},
        e : Records, p : Periods, content : Contents, bypass : BOOLEAN]
  \cup [kind : {"void"}, e : Records]
  \cup [kind : {"correct"}, e : Records, content : Contents]

Governs == {"generate", "close", "lock", "unlock", "reopen"}

NoRecord ==
  [state |-> "ABSENT", date |-> None, content |-> None, flagged |-> FALSE]
Idle == [op |-> None, missing |-> {}, ent |-> NoRecord]
InFlight == [op : Op, missing : SUBSET Periods, ent : RecordRow]

TypeOK ==
  /\ period \in [Periods -> PeriodRow]
  /\ record \in [Records -> RecordRow]
  /\ clerk \in [Clerks -> InFlight \cup {Idle}]

Init ==
  /\ period = [p \in Periods |-> [status |-> "ABSENT", out |-> "none"]]
  /\ record = [e \in Records |-> NoRecord]
  /\ clerk = [r \in Clerks |-> Idle]

-----------------------------------------------------------------------------
Status(p) == period[p].status
Shut(p) == Status(p) \in {"CLOSED", "LOCKED"}
Earlier(p) == {x \in Periods : x < p}
Later(p) == {x \in Periods : p < x}
Sealed(row) == row.state \in {"SEALED", "SUBMITTED"}

Missing(year) == {p \in Periods : YearOf[p] = year /\ Status(p) = "ABSENT"}

(* blockMessage *)
Writable(p, bypass) ==
  CASE Status(p) = "OPEN" -> TRUE
    [] Status(p) = "CLOSED" -> bypass
    [] Status(p) = "LOCKED" -> FALSE
    [] OTHER -> bypass \/ ~RequirePeriod

DateUnderRecomputed(row, op) == op.p

(* The date of a sealed record is frozen *)
DateUnder(row, op) == IF Sealed(row) THEN row.date ELSE op.p

ConfirmedNext(op) ==
  op.ack \/ \A x \in Later(op.p) : x = op.p + 1 => Status(x) # "CLOSED"

(* A reopening behind a closed period is to be confirmed *)
Confirmed(op) == op.ack \/ \A x \in Later(op.p) : Status(x) # "CLOSED"

(* close refuses while an earlier period is open, reopen while a later one *)
(* is locked                                                               *)
GovernAllows(op) ==
  CASE op.kind = "generate" -> TRUE
    [] op.kind = "close" ->
         /\ Status(op.p) = "OPEN"
         /\ \A x \in Earlier(op.p) : Status(x) # "OPEN"
    [] op.kind = "lock" -> Status(op.p) = "CLOSED"
    [] op.kind = "unlock" -> Status(op.p) = "LOCKED"
    [] OTHER ->
         /\ Status(op.p) = "CLOSED"
         /\ \A x \in Later(op.p) : Status(x) # "LOCKED"
         /\ Confirmed(op)

(* The handlers of a record: void and correct do not ask for the period    *)
RecordAllows(op) ==
  LET row == record[op.e] IN
  CASE op.kind = "create" -> row.state = "ABSENT" /\ Writable(op.p, op.bypass)
    [] op.kind \in {"save", "transition"} ->
         /\ row.state \in {"DRAFT", "SEALED"}
         /\ Writable(DateUnder(row, op), op.bypass)
    [] op.kind \in {"defer", "submit"} ->
         row.state = "DRAFT" /\ Writable(op.p, op.bypass)
    [] op.kind = "void" -> row.state = "DRAFT"
    [] OTHER -> row.flagged

Allows(op) == IF op.kind \in Governs THEN GovernAllows(op) ELSE RecordAllows(op)

-----------------------------------------------------------------------------
(* Requests *)

Begin(r, op) ==
  /\ clerk[r] = Idle
  /\ MayOverlap \/ \A x \in Clerks : clerk[x] = Idle
  /\ Allows(op)
  /\ clerk' = [clerk EXCEPT ![r] =
       [op |-> op,
        missing |-> IF op.kind = "generate" THEN Missing(op.year) ELSE {},
        ent |-> IF op.kind \in Governs THEN NoRecord ELSE record[op.e]]]
  /\ UNCHANGED <<period, record>>

Doing(r, kinds) == clerk[r] # Idle /\ clerk[r].op.kind \in kinds
Finish(r) == clerk' = [clerk EXCEPT ![r] = Idle]

(* A later check fails: the signature, the completeness of the record, the *)
(* window of edition                                                       *)
Abandon(r) ==
  /\ clerk[r] # Idle
  /\ Finish(r)
  /\ UNCHANGED <<period, record>>

(* The rows that were missing; if another request has created one of them, *)
(* their unique key refuses all of them                                    *)
CommitGenerate(r) ==
  LET new == clerk[r].missing
      Row(p) == [status |-> "OPEN",
                 out |-> IF \E x \in Later(p) : Shut(x) THEN "late" ELSE "none"]
  IN
  /\ Doing(r, {"generate"})
  /\ period' = IF \A p \in new : Status(p) = "ABSENT"
                 THEN [p \in Periods |-> IF p \in new THEN Row(p) ELSE period[p]]
                 ELSE period
  /\ Finish(r)
  /\ UNCHANGED record

(* close clears what the last reopening left *)
Governed(row, op) ==
  CASE op.kind = "close" -> [status |-> "CLOSED", out |-> "none"]
    [] op.kind = "lock" -> [row EXCEPT !.status = "LOCKED"]
    [] op.kind = "unlock" -> [row EXCEPT !.status = "CLOSED"]
    [] OTHER -> [status |-> "OPEN",
                 out |-> IF op.ack THEN "confirmed" ELSE "none"]

CommitGovern(r) ==
  LET op == clerk[r].op IN
  /\ Doing(r, Governs \ {"generate"})
  /\ period' = [period EXCEPT ![op.p] = Governed(@, op)]
  /\ Finish(r)
  /\ UNCHANGED record

(* The rows a request may leave.  The date is written while the row that   *)
(* was read is not sealed, and a correction settles one exception          *)
Written(row, q) ==
  LET op == q.op
      dated == IF Sealed(q.ent) THEN row ELSE [row EXCEPT !.date = op.p]
      Flagging(new) == {[new EXCEPT !.flagged = b] : b \in BOOLEAN}
  IN
  CASE op.kind = "create" ->
         {[NoRecord EXCEPT !.state = "DRAFT", !.date = op.p]}
    [] op.kind = "save" -> Flagging([dated EXCEPT !.content = op.content])
    [] op.kind = "defer" -> {dated}
    [] op.kind = "transition" ->
         {[dated EXCEPT !.state = s] : s \in {"SEALED", "SUBMITTED"}}
    [] op.kind = "submit" -> {[dated EXCEPT !.state = "SUBMITTED"]}
    [] op.kind = "void" -> {[row EXCEPT !.state = "VOID"]}
    [] OTHER -> Flagging([row EXCEPT !.content = op.content])

CommitRecord(r) ==
  LET q == clerk[r] IN
  /\ clerk[r] # Idle /\ q.op.kind \notin Governs
  /\ \E new \in Written(record[q.op.e], q) :
       record' = [record EXCEPT ![q.op.e] = new]
  /\ Finish(r)
  /\ UNCHANGED period

Next ==
  \E r \in Clerks :
    \/ \E op \in Op : Begin(r, op)
    \/ Abandon(r)
    \/ CommitGenerate(r)
    \/ CommitGovern(r)
    \/ CommitRecord(r)

Spec == Init /\ [][Next]_vars

-----------------------------------------------------------------------------
(* Properties *)

(* The close is sequential: a period is open before one that is closed or  *)
(* locked only if it was generated after that one was shut, or if whoever  *)
(* reopened it confirmed that it breaks the sequence (close, reopen).      *)
SequenceExcused ==
  \A p \in Periods :
    Status(p) = "OPEN" /\ (\E x \in Later(p) : Shut(x)) => period[p].out # "none"

(* With one request at a time, what it checked still holds when it writes. *)
Alone == \A r, x \in Clerks : clerk[r] # Idle /\ clerk[x] # Idle => r = x
StillAllowed ==
  \A r \in Clerks : clerk[r] # Idle =>
    /\ Allows(clerk[r].op)
    /\ clerk[r].op.kind = "generate" =>
         clerk[r].missing = Missing(clerk[r].op.year)
    /\ clerk[r].op.kind \notin Governs => clerk[r].ent = record[clerk[r].op.e]

(* A record is dated from its creation on *)
Dated(row) == row.state # "ABSENT" /\ row.date \in Periods
RecordInv == \A e \in Records : record[e] = NoRecord \/ Dated(record[e])

IInv == TypeOK /\ SequenceExcused /\ Alone /\ StillAllowed /\ RecordInv

(* The books of a locked period: while a period stays LOCKED no record is  *)
(* sealed into it, whatever route the record takes (a new date, a late     *)
(* signature, a clerk with the bypass), none of its sealed records leaves  *)
(* it or advances, and their values change only when an exception of the   *)
(* record is corrected (assertWritable and its callers).                   *)
InBooks(row, p) == Sealed(row) /\ row.date = p
Corrected(old, new) ==
  /\ old.flagged
  /\ \E c \in Contents, b \in BOOLEAN :
       new = [old EXCEPT !.content = c, !.flagged = b]
LockedBooks ==
  [][\A p \in Periods, e \in Records :
       /\ Status(p) = "LOCKED" /\ Status(p)' = "LOCKED"
       /\ InBooks(record[e], p) \/ InBooks(record'[e], p)
       => record'[e] = record[e] \/ Corrected(record[e], record'[e])]_vars

(* LOCKED blocks everybody: the sealed records of a locked period do not   *)
(* change at all.  ExceptionsService.correct writes their values all the   *)
(* same.                                                                   *)
LockedBlocksAll ==
  [][\A p \in Periods, e \in Records :
       Status(p) = "LOCKED" /\ InBooks(record[e], p) => record'[e] = record[e]]_vars
=============================================================================
