---------------------------- MODULE ShiftHandover ----------------------------
(***************************************************************************)
(* The handovers of an area from shift to shift (ShiftHandoverService, and *)
(* the cockpit of ShiftHandoverCompilerService): each is compiled as a     *)
(* draft, signed by who goes, acknowledged by who comes, and carries its   *)
(* pending items, of which those a person wrote roll to the next one and   *)
(* those that stand for an open object of the domain follow the object.    *)
(*                                                                         *)
(* The rows are those of one area.  `open` is the set of the incidents,    *)
(* actions and reports that are open in the whole organisation, which      *)
(* other services change.                                                  *)
(* The summary, the figures of the cockpit and the activity log are left   *)
(* out: nothing here depends on them.                                      *)
(*                                                                         *)
(* As in LogEntry, a request LOADS the rows, checks them and acts on what  *)
(* it read, and nothing in Next uses the variants that make a plausible    *)
(* mistake.                                                                *)
(***************************************************************************)
EXTENDS Integers, FiniteSets

CONSTANTS
  Shifts,        \* shifts that are handed over: one per day and shift code
  MaxHandovers,  \* bound: handovers, numbered as they are created
  Notes,         \* items that a person may write
  Incidents,     \* ids of the incidents of the organisation
  Actions,       \* of their actions
  Reports,       \* and of their reports
  Area,          \* those of the area's subtree
  Users,         \* who compiles, signs and acknowledges
  Sees,          \* the objects in each user's scope
  MaxRows,       \* rows that a list of the cockpit holds at most (200)
  Clerks,        \* requests that can be in flight at once
  None,          \* null
  MayOverlap,    \* can two requests be in flight together?
  MayCrash       \* can the process stop between two writes of a request?

Handovers == 1 .. MaxHandovers
Refs == Incidents \cup Actions \cup Reports
Lines == Notes \cup Refs

ASSUME SetAssumption ==
  /\ MaxHandovers \in Nat /\ Notes \cap Refs = {}
  /\ MaxRows \in Nat /\ Area \subseteq Refs
  /\ Sees \in [Users -> SUBSET Refs]
ASSUME NoneAssumption ==
  None \notin Users \cup Lines \cup Shifts \cup Nat
ASSUME RequestAssumption == MayOverlap \in BOOLEAN /\ MayCrash \in BOOLEAN

VARIABLES
  open,      \* the objects that are open
  handover,  \* ShiftHandover rows, by number
  item,      \* status of the ShiftHandoverItem rows of each
  clerk      \* requests in flight

vars == <<open, handover, item, clerk>>

-----------------------------------------------------------------------------
(* acked: the handovers acknowledged before this one was created, as the   *)
(* timestamps tell; rolled: history, the items of the previous one were    *)
(* carried over                                                            *)
HandoverRow ==
  [status : {"ABSENT", "COMPILING", "SIGNED_OUT", "ACKNOWLEDGED", "CANCELED"},
   shift : Shifts \cup {None}, out : Users \cup {None}, in : Users \cup {None},
   snapshot : (SUBSET Refs) \cup {None}, acked : SUBSET Handovers, rolled : BOOLEAN]

NoHandover ==
  [status |-> "ABSENT", shift |-> None, out |-> None, in |-> None,
   snapshot |-> None, acked |-> {}, rolled |-> FALSE]

ItemStatus == {"ABSENT", "OPEN", "CARRIED", "CLOSED"}

Op ==
       [kind : {"compile"}, u : Users, shift : Shifts]
  \cup [kind : {"signOut", "acknowledge"}, u : Users]
  \cup [kind : {"cancel"}]
  \cup [kind : {"addItem"}, line : Notes]
  \cup [kind : {"updateItem"}, line : Lines, status : ItemStatus \ {"ABSENT"}]

Idle == [pc |-> "idle", op |-> None, h |-> None, seen |-> {}]
InFlight ==
  [pc : {"create", "roll", "cockpit", "add", "close", "write"}, op : Op,
   h : Handovers \cup {None}, seen : SUBSET Refs]

TypeOK ==
  /\ open \in SUBSET Refs
  /\ handover \in [Handovers -> HandoverRow]
  /\ item \in [Handovers -> [Lines -> ItemStatus]]
  /\ clerk \in [Clerks -> InFlight \cup {Idle}]

Init ==
  /\ open = {}
  /\ handover = [h \in Handovers |-> NoHandover]
  /\ item = [h \in Handovers |-> [l \in Lines |-> "ABSENT"]]
  /\ clerk = [r \in Clerks |-> Idle]

-----------------------------------------------------------------------------
Exists(h) == handover[h].status # "ABSENT"
Live(h) == handover[h].status \notin {"ABSENT", "CANCELED"}

IsOpenOnly(status) == status = "OPEN"

(* isHandoverItemOpen *)
IsOpen(status) == status \in {"OPEN", "CARRIED"}

Latest(S) == CHOOSE h \in S : \A g \in S : g <= h

(* compile looks for the handover of the shift that is not canceled *)
OfShiftDraft(shift) ==
  {h \in Handovers : handover[h].status = "COMPILING" /\ handover[h].shift = shift}

OfShift(shift) == {h \in Handovers : Live(h) /\ handover[h].shift = shift}

Fresh == {h \in Handovers : ~Exists(h)}

-----------------------------------------------------------------------------
(* Requests *)

Start(r, q) ==
  /\ clerk[r] = Idle
  /\ MayOverlap \/ \A x \in Clerks : clerk[x] = Idle
  /\ clerk' = [clerk EXCEPT ![r] = q]

At(r, kinds, pc) == clerk[r].pc = pc /\ clerk[r].op.kind \in kinds
Goto(r, pc) == clerk' = [clerk EXCEPT ![r].pc = pc]
Finish(r) == clerk' = [clerk EXCEPT ![r] = Idle]

AllowsCurating(h, op) ==
  CASE op.kind \in {"signOut", "addItem"} -> handover[h].status = "COMPILING"
    [] op.kind = "acknowledge" ->
         handover[h].status = "SIGNED_OUT" /\ handover[h].out # op.u
    [] op.kind = "cancel" -> handover[h].status \notin {"ABSENT", "ACKNOWLEDGED", "CANCELED"}
    [] op.kind = "updateItem" -> handover[h].status \notin {"ABSENT", "CANCELED"}

Allows(h, op) ==
  CASE op.kind \in {"signOut", "addItem"} -> handover[h].status = "COMPILING"
    [] op.kind = "acknowledge" ->
         handover[h].status = "SIGNED_OUT" /\ handover[h].out # op.u
    [] op.kind \in {"cancel", "updateItem"} ->
         handover[h].status \notin {"ABSENT", "ACKNOWLEDGED", "CANCELED"}

(* A note is written once *)
HasLine(h, op) ==
  CASE op.kind = "addItem"    -> \A g \in Handovers : item[g][op.line] = "ABSENT"
    [] op.kind = "updateItem" -> item[h][op.line] # "ABSENT"
    [] OTHER -> TRUE

Begin(r, h, op) ==
  /\ op.kind # "compile" /\ Allows(h, op) /\ HasLine(h, op)
  /\ Start(r, [pc |-> IF op.kind = "signOut" THEN "cockpit" ELSE "write",
               op |-> op, h |-> h, seen |-> {}])
  /\ UNCHANGED <<open, handover, item>>

(* Refused for want of a valid signature, or the process stops *)
Abandon(r) ==
  /\ At(r, {"signOut", "acknowledge"}, "write") \/ (MayCrash /\ clerk[r] # Idle)
  /\ Finish(r) /\ UNCHANGED <<open, handover, item>>

-----------------------------------------------------------------------------
(* compile: get or create, roll, read the cockpit, synchronise the items   *)

BeginCompile(r, u, shift) ==
  LET op == [kind |-> "compile", u |-> u, shift |-> shift] IN
  /\ IF OfShift(shift) = {}
     THEN Start(r, [pc |-> "create", op |-> op, h |-> None, seen |-> {}])
     ELSE \E h \in OfShift(shift) :
            Start(r, [pc |-> "cockpit", op |-> op, h |-> h, seen |-> {}])
  /\ UNCHANGED <<open, handover, item>>

Create(r) ==
  /\ clerk[r].pc = "create"
  /\ \E h \in Fresh :
       /\ \A g \in Fresh : h <= g
       /\ handover' = [handover EXCEPT ![h] =
            [NoHandover EXCEPT !.status = "COMPILING", !.shift = clerk[r].op.shift,
               !.acked = {g \in Handovers : handover[g].status = "ACKNOWLEDGED"}]]
       /\ clerk' = [clerk EXCEPT ![r].pc = "roll", ![r].h = h]
  /\ UNCHANGED <<open, item>>

(* rollBatonFromPrevious: the items that a person wrote and that are open  *)
(* in the latest of the other handovers that is not canceled               *)
Carried(h) ==
  LET before == {g \in Handovers \ {h} : Live(g)} IN
  {n \in Notes : before # {} /\ IsOpen(item[Latest(before)][n])}

Roll(r) ==
  LET h == clerk[r].h IN
  /\ clerk[r].pc = "roll"
  /\ item' = [item EXCEPT ![h] =
                [l \in Lines |-> IF l \in Carried(h) THEN "CARRIED" ELSE @[l]]]
  /\ handover' = [handover EXCEPT ![h].rolled = TRUE]
  /\ Goto(r, "cockpit") /\ UNCHANGED open

(* resolveCompileNodeIds: a compile looks at the area's subtree; signOut   *)
(* leaves the path empty, with which every path begins                     *)
Scope(op) ==
  IF op.kind = "signOut" THEN Sees[op.u] ELSE Area \cap Sees[op.u]

(* A list of the cockpit: the rows found, or the first MaxRows of them     *)
Page(rows) ==
  {page \in SUBSET rows :
     IF Cardinality(rows) <= MaxRows THEN page = rows ELSE Cardinality(page) = MaxRows}

(* The cockpit lists what is open in the scope.  A compile goes no further *)
(* if the handover is not a draft any more.                                *)
Cockpit(r) ==
  LET q     == clerk[r]
      found == open \cap Scope(q.op)
  IN
  /\ q.pc = "cockpit"
  /\ IF q.op.kind = "compile" /\ handover[q.h].status # "COMPILING" THEN Finish(r)
     ELSE \E incidents \in Page(found \cap Incidents),
             actions \in Page(found \cap Actions), reports \in Page(found \cap Reports) :
            clerk' = [clerk EXCEPT ![r].seen = incidents \cup actions \cup reports,
                        ![r].pc = IF q.op.kind = "compile" THEN "add" ELSE "write"]
  /\ UNCHANGED <<open, handover, item>>

(* syncBaton: an object that is listed gets an item if it never had one,   *)
(* and the item of one that is not is closed                               *)
AddMissing(r) ==
  LET q == clerk[r] IN
  /\ q.pc = "add"
  /\ item' = [item EXCEPT ![q.h] =
                [l \in Lines |-> IF l \in q.seen /\ @[l] = "ABSENT" THEN "OPEN" ELSE @[l]]]
  /\ Goto(r, "close") /\ UNCHANGED <<open, handover>>

CloseStale(r) ==
  LET q == clerk[r] IN
  /\ q.pc = "close"
  /\ item' = [item EXCEPT ![q.h] =
                [l \in Lines |-> IF l \in Refs \ q.seen /\ IsOpen(@[l])
                                 THEN "CLOSED" ELSE @[l]]]
  /\ Finish(r) /\ UNCHANGED <<open, handover>>

-----------------------------------------------------------------------------
(* addItem, updateItem; signOut, acknowledge, cancel: by id *)

CommitItem(r) ==
  LET q == clerk[r] IN
  /\ At(r, {"addItem", "updateItem"}, "write")
  /\ item' = [item EXCEPT ![q.h][q.op.line] =
                IF q.op.kind = "addItem" THEN "OPEN" ELSE q.op.status]
  /\ Finish(r) /\ UNCHANGED <<open, handover>>

SignedBy(row, q) ==
  CASE q.op.kind = "signOut" ->
         [row EXCEPT !.status = "SIGNED_OUT", !.out = q.op.u, !.snapshot = q.seen]
    [] q.op.kind = "acknowledge" ->
         [row EXCEPT !.status = "ACKNOWLEDGED", !.in = q.op.u]
    [] q.op.kind = "cancel" -> [row EXCEPT !.status = "CANCELED"]

CommitHandover(r) ==
  LET q == clerk[r] IN
  /\ At(r, {"signOut", "acknowledge", "cancel"}, "write")
  /\ handover' = [handover EXCEPT ![q.h] = SignedBy(@, q)]
  /\ Finish(r) /\ UNCHANGED <<open, item>>

-----------------------------------------------------------------------------
Work(r) ==
  \/ Create(r) \/ Roll(r) \/ Cockpit(r) \/ AddMissing(r) \/ CloseStale(r)
  \/ CommitItem(r) \/ CommitHandover(r)

Handle(r) ==
  \/ \E u \in Users, shift \in Shifts : BeginCompile(r, u, shift)
  \/ \E h \in Handovers, op \in Op : Begin(r, h, op)
  \/ Work(r) \/ Abandon(r)

(* Other services open and close the objects at any time *)
Domain ==
  /\ open' \in SUBSET Refs
  /\ UNCHANGED <<handover, item, clerk>>

Next == Domain \/ \E r \in Clerks : Handle(r)

Spec == Init /\ [][Next]_vars

-----------------------------------------------------------------------------
(* A shift has one handover: there are never two of the same area, shift   *)
(* and day that are not canceled (compile's get-or-create; the comment at  *)
(* shift-handover.service.ts:85).  Requests one after the other.           *)
OnePerShift ==
  \A g, h \in Handovers :
    Live(g) /\ Live(h) /\ handover[g].shift = handover[h].shift => g = h

(* Who received the shift is not who handed it over (acknowledge).         *)
TwoPersons ==
  \A h \in Handovers :
    handover[h].status = "ACKNOWLEDGED" =>
      /\ handover[h].out # None /\ handover[h].in # None
      /\ handover[h].in # handover[h].out

(* An acknowledged handover is final: its row, its frozen cockpit and its  *)
(* items never change again (updateItem, cancel, syncBaton, signOut).      *)
AcknowledgedFinal ==
  [][\A h \in Handovers : handover[h].status = "ACKNOWLEDGED" =>
       handover'[h] = handover[h] /\ item'[h] = item[h]]_vars

(* Pending notes roll until they are closed: what was open in a handover   *)
(* when it was acknowledged is in the next one, if this was created after  *)
(* and its creation was not cut short (rollBatonFromPrevious).             *)
NotesRoll ==
  \A h \in Handovers \ {1} :
    /\ handover[h].rolled /\ handover[h - 1].status = "ACKNOWLEDGED"
    /\ h - 1 \in handover[h].acked
    => \A n \in Notes :
         item[h - 1][n] \in {"OPEN", "CARRIED"} => item[h][n] # "ABSENT"

(* Their inductive strengthening, for requests one after the other: what a *)
(* request checked still holds when it writes, and the rows are created in *)
(* the order of their numbers, each with the signatures of its status.     *)
RowInv(h) ==
  LET row == handover[h] IN
  /\ row.status \in {"SIGNED_OUT", "ACKNOWLEDGED"} => row.out # None
  /\ ~Exists(h) => \A g \in Handovers : g > h => ~Exists(g)
  /\ \A g \in row.acked : g < h /\ handover[g].status = "ACKNOWLEDGED"
  /\ ~Exists(h) => row = NoHandover

RequestInv(r) ==
  LET q == clerk[r] IN
  /\ q # Idle => \A x \in Clerks \ {r} : clerk[x] = Idle
  /\ q.pc = "create" => \A h \in Handovers : Live(h) => handover[h].shift # q.op.shift
  /\ q.pc \in {"roll", "cockpit", "add", "close", "write"} => q.h \in Handovers /\ Exists(q.h)
  /\ q.pc \in {"roll", "add", "close"} => handover[q.h].status = "COMPILING"
  /\ q.pc = "roll" => \A h \in Handovers : h > q.h => ~Exists(h)
  /\ q.pc \in {"create", "roll", "add", "close"} => q.op.kind = "compile"
  /\ q.pc = "cockpit" => q.op.kind \in {"compile", "signOut"}
  /\ q.pc = "write" => q.op.kind # "compile"
  /\ q.pc \in {"cockpit", "write"} /\ q.op.kind # "compile" => Allows(q.h, q.op)

IInv ==
  /\ TypeOK
  /\ OnePerShift /\ TwoPersons /\ NotesRoll
  /\ \A h \in Handovers : RowInv(h)
  /\ \A r \in Clerks : RequestInv(r)

(* The cockpit that is frozen with the signature is the area's (the        *)
(* comment at shift-handover-compiler.service.ts:37).  VIOLATED: signOut   *)
(* compiles without the path of the area.                                  *)
SnapshotOfArea ==
  \A h \in Handovers : handover[h].snapshot # None => handover[h].snapshot \subseteq Area

(* Only the item of an object that is not open any more is closed by a     *)
(* compile (the comment at shift-handover.service.ts:601).  VIOLATED: so   *)
(* is that of one beyond the first rows, or out of the user's scope.       *)
OnlyStaleClosed ==
  [][\A r \in Clerks : clerk[r].pc = "close" /\ clerk'[r] = Idle =>
       \A l \in open : IsOpen(item[clerk[r].h][l]) => IsOpen(item'[clerk[r].h][l])]_vars

(* Once signed, the content of a handover is frozen.  VIOLATED: items can  *)
(* be closed, opened again and reworded until it is acknowledged.          *)
SignedFrozen ==
  [][\A h \in Handovers :
       handover[h].status = "SIGNED_OUT" /\ handover'[h].status # "CANCELED" =>
         item'[h] = item[h] /\ handover'[h].snapshot = handover[h].snapshot]_vars
=============================================================================
