--------------------------- MODULE LogEntryProofs ---------------------------
(***************************************************************************)
(* Proofs about LogEntry, for any number of entries, requests, rounds,     *)
(* sections and stages, in the order of the module.                        *)
(*                                                                         *)
(* However the requests interleave or the process stops: TypeInv, by one   *)
(* lemma per action; SealInv, from two lemmas, one for the steps that      *)
(* leave the seal alone and one for the steps that seal; completed rounds  *)
(* have an entry and signers are alerted.                                  *)
(*                                                                         *)
(* With one request at a time on each entry: an entry implements           *)
(* GxpRecord; and Serially, which says that what a request read is what is *)
(* stored until it commits, from which follow the properties of entries,   *)
(* signatures, exceptions, rounds and the series of folios.                *)
(***************************************************************************)
EXTENDS LogEntry, FiniteSetTheorems, TLAPS

(* resolveEffectiveAt only ever returns a date or null, although the       *)
(* sections it reads hold measurements as well.                            *)
LEMMA ResolveType ==
  ASSUME NEW val \in Reading, NEW d \in Date PROVE Resolve(val, d) \in Date
  BY TemplateAssumption, NoneAssumption DEF Resolve, Reading, Input, Date

(* Reconciling and stamping an exception gives an exception.               *)
LEMMA ReconcileType ==
  ASSUME NEW x \in ExcRow, NEW a \in BOOLEAN, NEW b \in BOOLEAN
  PROVE  Reconcile(x, a, b) \in ExcRow /\ Stamp(x) \in ExcRow
  BY DEF Reconcile, Stamp, ExcRow, NoExc

(* The formula gives a value or null; stamping and reconciling keep the    *)
(* computed field a row.                                                   *)
LEMMA ComputedType ==
  ASSUME NEW val \in Reading PROVE Computed(val) \in Values \cup {None}
  BY FormulaAssumption DEF Computed

LEMMA ComputedRowType ==
  ASSUME NEW x \in ComputedRow, NEW q, q.ent \in EntryRow, q.val \in Reading
  PROVE  /\ \A val \in Reading : Stamped(x, q, val) \in ComputedRow
         /\ SealedComputed(x, q) \in ComputedRow
         /\ Seen(q) \in Reading => SavedComputed(x, q) \in ComputedRow
<1>1. x.exc \in ExcRow /\ q.ent.sealed \in BOOLEAN
  BY DEF ComputedRow, EntryRow
<1>2. ASSUME NEW val \in Reading PROVE Stamped(x, q, val) \in ComputedRow
  <2>1. [x EXCEPT !.value = Computed(val)] \in ComputedRow
    BY ComputedType DEF ComputedRow
  <2> QED BY <2>1 DEF Stamped
<1>3. SealedComputed(x, q) \in ComputedRow
  <2>1. Stamp(Reconcile(x.exc, Computed(q.val) \in Alarming, TRUE)) \in ExcRow
    BY <1>1 DEF Reconcile, Stamp, ExcRow, NoExc
  <2> QED BY <2>1, ComputedType DEF SealedComputed, ComputedRow
<1>4. ASSUME Seen(q) \in Reading PROVE SavedComputed(x, q) \in ComputedRow
  <2> DEFINE y == Stamped(x, q, Seen(q))
  <2>1. y \in ComputedRow /\ y.exc \in ExcRow
    BY <1>2, <1>4 DEF ComputedRow
  <2> HIDE DEF y
  <2>2. Reconcile(y.exc, Computed(Seen(q)) \in Alarming, q.ent.sealed) \in ExcRow
    BY <1>1, <2>1 DEF Reconcile, ExcRow, NoExc
  <2>3. SavedComputed(x, q) =
          [y EXCEPT !.exc = IF q.op.s = CalcSection
             THEN Reconcile(y.exc, Computed(Seen(q)) \in Alarming, q.ent.sealed)
             ELSE y.exc]
    BY DEF SavedComputed, y
  <2> QED BY <2>1, <2>2, <2>3 DEF ComputedRow
<1> QED BY <1>2, <1>3, <1>4

(* What each kind of request carries.                                      *)
LEMMA OpParts ==
  ASSUME NEW op \in Op
  PROVE  /\ op.kind = "save" => /\ op.s \in Sections /\ op.v \in Input(op.s)
                                /\ op.v \in Field /\ op.complete \in BOOLEAN
         /\ op.kind = "transition" => op.t \in Transitions
         /\ op.kind = "defer" => op.d \in Date
  BY DEF Op

(* Settling an exception writes values and exceptions only.                *)
LEMMA SettlesQuiet ==
  ASSUME NEW e, Settles(e)
  PROVE  UNCHANGED <<entry, section, signature, orders, events, round, counter, req>>
<1>1. CASE SettlesEntered(e)
  BY <1>1 DEF SettlesEntered, Triage, Correct
<1>2. CASE SettlesComputed(e)
  BY <1>2 DEF SettlesComputed, TriageComputed, CorrectComputed
<1> QED BY <1>1, <1>2 DEF Settles

(* A request in flight keeps its type when its parts do.                   *)
LEMMA InFlightParts ==
  ASSUME TypeInv, NEW r \in Requests, req[r] # Idle
  PROVE  /\ req[r] \in InFlight /\ req[r].op \in Op
         /\ req[r].e \in Entries \cup {None} /\ req[r].o \in Rounds \cup {None}
         /\ req[r].ent \in EntryRow \cup {None}
         /\ req[r].sec \in [Sections -> SectionRow] \cup {None}
         /\ req[r].val \in Reading \cup {None}
  BY DEF TypeInv, TypeOK, InFlight

(* What a request that is not idle has read, by the kind of its target.    *)
LEMMA StepParts ==
  ASSUME TypeInv, NEW r \in Requests, req[r].pc # "idle"
  PROVE  /\ req[r] # Idle
         /\ OnRound(req[r]) => /\ req[r].o \in Rounds
                               /\ req[r].pc = "link" => req[r].e \in Entries
         /\ ~OnRound(req[r]) =>
              /\ req[r].e \in Entries /\ req[r].ent \in EntryRow
              /\ req[r].pc = "ready" => /\ req[r].sec \in [Sections -> SectionRow]
                                        /\ req[r].val \in Reading
              /\ req[r].op.kind = "transition" => req[r].op.t.from = req[r].ent.cur
<1>1. req[r] # Idle
  BY DEF Idle
<1>2. StepMatchesOp(req[r])
  BY DEF TypeInv
<1> QED BY <1>1, <1>2, InFlightParts DEF StepMatchesOp

(* A request that ends, or is still to come, leaves the others as they are *)
LEMMA FinishType ==
  ASSUME TypeInv, NEW r \in Requests, Finish(r)
  PROVE  /\ req' \in [Requests -> InFlight \cup {Idle}]
         /\ \A p \in Requests : StepMatchesOp(req'[p])
<1>1. req' = [req EXCEPT ![r] = Idle] /\ req \in [Requests -> InFlight \cup {Idle}]
  BY DEF Finish, TypeInv, TypeOK
<1>2. \A p \in Requests : req'[p] \in {req[p], Idle}
  BY <1>1
<1>3. StepMatchesOp(Idle)
  BY DEF StepMatchesOp
<1>4. \A p \in Requests : StepMatchesOp(req[p])
  BY DEF TypeInv
<1> QED BY <1>1, <1>2, <1>3, <1>4

(* The same for a request that goes on to its next step as q.              *)
LEMMA ProceedType ==
  ASSUME TypeInv, NEW r \in Requests, NEW q \in InFlight, StepMatchesOp(q),
         req' = [req EXCEPT ![r] = q]
  PROVE  /\ req' \in [Requests -> InFlight \cup {Idle}]
         /\ \A p \in Requests : StepMatchesOp(req'[p])
<1>1. req \in [Requests -> InFlight \cup {Idle}]
  BY DEF TypeInv, TypeOK
<1>2. \A p \in Requests : req'[p] \in {req[p], q}
  BY <1>1
<1>3. \A p \in Requests : StepMatchesOp(req[p])
  BY DEF TypeInv
<1> QED BY <1>1, <1>2, <1>3

(* Loading a row and reading the sections after it.                        *)
LEMMA LoadType ==
  ASSUME TypeInv, NEW r \in Requests, NEW e \in Entries, NEW op \in Op,
         op.kind \notin {"start", "skip"},
         op.kind = "transition" => op.t.from = entry[e].cur, Load(r, e, op)
  PROVE  TypeInv'
<1> DEFINE q == [Idle EXCEPT !.pc = "loaded", !.e = e, !.op = op, !.ent = entry[e]]
<1>1. q \in InFlight
  BY DEF Idle, InFlight, TypeInv, TypeOK
<1>2. q.e = e /\ q.ent = entry[e] /\ q.op = op /\ q.pc = "loaded"
  BY DEF Idle
<1>3. entry[e] \in EntryRow
  BY DEF TypeInv, TypeOK
<1>4. StepMatchesOp(q)
  BY <1>2, <1>3 DEF StepMatchesOp, OnRound
<1>5. req' = [req EXCEPT ![r] = q] /\ UNCHANGED rows
  BY DEF Load
<1>6. /\ req' \in [Requests -> InFlight \cup {Idle}]
      /\ \A p \in Requests : StepMatchesOp(req'[p])
  BY <1>1, <1>4, <1>5, ProceedType
<1> QED BY <1>5, <1>6 DEF TypeInv, TypeOK, rows

(* Reading sections and values keeps every request well typed.             *)
LEMMA ReadType ==
  ASSUME TypeInv, NEW r \in Requests, req[r].pc = "loaded",
         ~OnRound(req[r]), ReadSections(r), UNCHANGED rows
  PROVE  TypeInv'
<1> DEFINE e == req[r].e
           q == [req[r] EXCEPT !.pc = "ready", !.sec = section[e], !.val = value[e]]
<1>1. /\ e \in Entries /\ req[r].ent \in EntryRow /\ req[r] \in InFlight
      /\ req[r].op.kind = "transition" => req[r].op.t.from = req[r].ent.cur
  BY StepParts, InFlightParts
<1>2. section[e] \in [Sections -> SectionRow] /\ value[e] \in Reading
  BY <1>1 DEF TypeInv, TypeOK
<1>3. q \in InFlight
  BY <1>1, <1>2 DEF InFlight
<1>4. /\ q.e = e /\ q.op = req[r].op /\ q.pc = "ready" /\ q.ent = req[r].ent
      /\ q.sec = section[e] /\ q.val = value[e]
  BY <1>1 DEF InFlight
<1>6. StepMatchesOp(q)
  BY <1>1, <1>2, <1>4 DEF StepMatchesOp, OnRound
<1>7. req' = [req EXCEPT ![r] = q]
  BY DEF ReadSections
<1>8. /\ req' \in [Requests -> InFlight \cup {Idle}]
      /\ \A p \in Requests : StepMatchesOp(req'[p])
  BY <1>3, <1>6, <1>7, ProceedType
<1> QED BY <1>8 DEF TypeInv, TypeOK, rows

-----------------------------------------------------------------------------
(* The type invariant, action by action                                    *)

(* A new draft is a well-typed row.                                        *)
LEMMA NewRowType ==
  ASSUME NEW e \in Entries, NEW d \in Date
  PROVE  /\ NewRow(e, d) \in EntryRow
         /\ NewRow(e, d).status = "DRAFT" /\ ~NewRow(e, d).sealed
         /\ NewRow(e, d).folio = 0 /\ NewRow(e, d).cur \in {None, InitialState}
  BY FlowAssumption DEF NewRow, Absent, EntryRow, Date

(* Saving a section.                                                       *)
LEMMA CommitSaveType ==
  ASSUME TypeInv, NEW r \in Requests, CommitSave(r)
  PROVE  TypeInv'
<1> DEFINE q == req[r]
           s == req[r].op.s
<1>1. /\ q.e \in Entries /\ q.ent \in EntryRow /\ q.val \in Reading
      /\ q.op \in Op /\ q.op.kind = "save"
  BY StepParts, InFlightParts DEF CommitSave, Step, OnRound
<1>2. s \in Sections /\ q.op.v \in Input(s) /\ q.op.v \in Field /\ q.op.complete \in BOOLEAN
  BY <1>1, OpParts
<1>3. Seen(q) \in Reading
  BY <1>1, <1>2 DEF Seen, Reading
<1>4. value' \in [Entries -> Reading]
  <2>1. value[q.e] \in Reading
    BY <1>1 DEF TypeInv, TypeOK
  <2> DEFINE v == SavedValue(value[q.e][s], q)
  <2>2. v \in Input(s) /\ v \in Field
    BY <2>1, <1>1, <1>2 DEF SavedValue, Reading
  <2>3. [value[q.e] EXCEPT ![s] = v] \in Reading
    BY <2>1, <2>2, <1>2 DEF Reading
  <2>4. value' = [value EXCEPT ![q.e] = [value[q.e] EXCEPT ![s] = v]]
    BY <1>1, <1>2 DEF CommitSave, TypeInv, TypeOK
  <2> QED BY <2>3, <2>4 DEF TypeInv, TypeOK
<1>5. section' \in [Entries -> [Sections -> SectionRow]]
  <2>1. section[q.e][s] \in SectionRow
    BY <1>1, <1>2 DEF TypeInv, TypeOK
  <2>2. SavedSection(section[q.e][s], q) \in SectionRow
    BY <2>1, <1>2 DEF SavedSection, SectionRow
  <2> QED BY <2>2, <1>1, <1>2 DEF CommitSave, TypeInv, TypeOK
<1>6. entry' \in [Entries -> EntryRow]
  <2>1. entry[q.e] \in EntryRow
    BY <1>1 DEF TypeInv, TypeOK
  <2>2. Resolve(Seen(q), q.ent.declared) \in Date
    BY <1>1, <1>3, ResolveType DEF EntryRow
  <2>3. SavedRow(entry[q.e], q) \in EntryRow
    BY <2>1, <2>2, <1>1 DEF SavedRow, EntryRow
  <2> QED BY <2>3 DEF CommitSave, TypeInv, TypeOK
<1>7. exc' \in [Entries -> [Sections -> ExcRow]]
  <2>1. exc[q.e][s] \in ExcRow /\ q.ent.sealed \in BOOLEAN
    BY <1>1, <1>2 DEF TypeInv, TypeOK, EntryRow
  <2>2. SavedExc(exc[q.e][s], q) \in ExcRow
    BY <2>1, ReconcileType DEF SavedExc, Alarms
  <2> QED BY <2>2, <1>1, <1>2 DEF CommitSave, TypeInv, TypeOK
<1>8. signature' \in [Entries -> Signature \cup {None}]
  <2>1. SaveSignature(q) \in Signature
    BY <1>3, ComputedType DEF SaveSignature, Snapshot, Signature
  <2> QED BY <2>1, <1>1 DEF CommitSave, TypeInv, TypeOK
<1>9. Finish(r) /\ UNCHANGED <<orders, events, round, counter>>
  BY DEF CommitSave
<1>10. computed' \in [Entries -> ComputedRow]
  <2>1. SavedComputed(computed[q.e], q) \in ComputedRow
    BY <1>1, <1>3, ComputedRowType DEF TypeInv, TypeOK
  <2> QED BY <2>1 DEF CommitSave, TypeInv, TypeOK
<1> QED
  BY <1>4, <1>5, <1>6, <1>7, <1>8, <1>9, <1>10, FinishType DEF TypeInv, TypeOK

(* The row, counter, rounds, exceptions and orders that a seal leaves.     *)
LEMMA SealType ==
  ASSUME TypeInv, NEW q \in InFlight, q.e \in Entries, q.ent \in EntryRow,
         q.val \in Reading, NEW row \in EntryRow
  PROVE  /\ SealedRow(row, q) \in EntryRow
         /\ SealEffects(q) => /\ counter' \in Nat
                              /\ round' \in [Rounds -> RoundRow]
                              /\ exc' \in [Entries -> [Sections -> ExcRow]]
                              /\ computed' \in [Entries -> ComputedRow]
                              /\ orders' \subseteq Entries
<1>1. counter \in Nat /\ counter + 1 \in Nat
  BY DEF TypeInv, TypeOK
<1>2. SealedRow(row, q) \in EntryRow
  <2>1. Resolve(q.val, q.ent.declared) \in Date
    BY ResolveType DEF EntryRow
  <2> QED BY <2>1, <1>1 DEF SealedRow, EntryRow
<1>3. ASSUME SealEffects(q) PROVE counter' \in Nat
  BY <1>1, <1>3 DEF SealEffects, SealedCounter
<1>4. ASSUME SealEffects(q) PROVE round' \in [Rounds -> RoundRow]
  <2>1. \A o \in Rounds : round[o] \in RoundRow
    BY DEF TypeInv, TypeOK
  <2>2. \A x \in RoundRow : [x EXCEPT !.status = "COMPLETED"] \in RoundRow
    BY DEF RoundRow
  <2> QED BY <1>4, <2>1, <2>2 DEF SealEffects, FulfilRound
<1>5. ASSUME SealEffects(q) PROVE exc' \in [Entries -> [Sections -> ExcRow]]
  <2>1. \A s \in Sections : exc[q.e][s] \in ExcRow
    BY DEF TypeInv, TypeOK
  <2>2. \A s \in Sections : Reconcile(exc[q.e][s], Alarms(s, q.val[s]), TRUE) \in ExcRow
    BY <2>1, ReconcileType DEF Alarms
  <2>3. SealedExc(q) \in [Sections -> ExcRow]
    BY <2>2, ReconcileType DEF SealedExc
  <2> QED BY <2>3, <1>5 DEF SealEffects, TypeInv, TypeOK
<1>6. ASSUME SealEffects(q) PROVE orders' \subseteq Entries
  BY <1>6 DEF SealEffects, SealedOrders, TypeInv, TypeOK
<1>7. ASSUME SealEffects(q) PROVE computed' \in [Entries -> ComputedRow]
  <2>1. SealedComputed(computed[q.e], q) \in ComputedRow
    BY ComputedRowType DEF TypeInv, TypeOK
  <2> QED BY <2>1, <1>7 DEF SealEffects, TypeInv, TypeOK
<1> QED BY <1>2, <1>3, <1>4, <1>5, <1>6, <1>7

(* submit writes well-typed rows.                                          *)
LEMMA CommitSubmitType ==
  ASSUME TypeInv, NEW r \in Requests, CommitSubmit(r)
  PROVE  TypeInv'
<1> DEFINE q == req[r]
<1>1. q \in InFlight /\ q.e \in Entries /\ q.ent \in EntryRow /\ q.val \in Reading
  BY StepParts, InFlightParts DEF CommitSubmit, Step, OnRound
<1>2. SealedRow(entry[q.e], q) \in EntryRow
  BY <1>1, SealType DEF TypeInv, TypeOK
<1>3. entry' \in [Entries -> EntryRow]
  <2>1. [SealedRow(entry[q.e], q) EXCEPT !.status = "SUBMITTED"] \in EntryRow
    BY <1>2 DEF EntryRow
  <2> QED BY <2>1 DEF CommitSubmit, TypeInv, TypeOK
<1>4. SealEffects(q) /\ Finish(r) /\ UNCHANGED <<section, value, signature, events>>
  BY DEF CommitSubmit
<1>5. /\ counter' \in Nat /\ round' \in [Rounds -> RoundRow]
      /\ exc' \in [Entries -> [Sections -> ExcRow]] /\ orders' \subseteq Entries
      /\ computed' \in [Entries -> ComputedRow]
  BY <1>1, <1>2, <1>4, SealType
<1> QED BY <1>3, <1>4, <1>5, FinishType DEF TypeInv, TypeOK

(* Executing a transition, sealing or not.                                 *)
LEMMA CommitTransitionType ==
  ASSUME TypeInv, NEW r \in Requests, CommitTransition(r)
  PROVE  TypeInv'
<1> DEFINE q == req[r]
<1>1. /\ q \in InFlight /\ q.e \in Entries /\ q.ent \in EntryRow /\ q.val \in Reading
      /\ q.sec \in [Sections -> SectionRow] /\ q.op \in Op
  BY StepParts, InFlightParts DEF CommitTransition, Step, OnRound
<1>2. q.op.t \in Transitions
  BY <1>1, OpParts DEF CommitTransition, Step
<1>3. q.op.t.to \in States /\ q.op.t.sign \in BOOLEAN
  BY <1>2, FlowAssumption
<1>4. MovedRow(entry[q.e], q) \in EntryRow
  BY <1>1, <1>3 DEF MovedRow, EntryRow, TypeInv, TypeOK
<1>5. /\ entry' \in [Entries -> EntryRow]
      /\ counter' \in Nat /\ round' \in [Rounds -> RoundRow]
      /\ exc' \in [Entries -> [Sections -> ExcRow]] /\ orders' \subseteq Entries
      /\ computed' \in [Entries -> ComputedRow]
  <2>1. CASE SealsHere(q)
    <3>1. SealedRow(MovedRow(entry[q.e], q), q) \in EntryRow
      BY <1>1, <1>4, SealType
    <3>2. SealEffects(q)
          /\ entry' = [entry EXCEPT ![q.e] = SealedRow(MovedRow(entry[q.e], q), q)]
      BY <2>1 DEF CommitTransition
    <3> QED BY <1>1, <1>4, <3>1, <3>2, SealType DEF TypeInv, TypeOK
  <2>2. CASE ~SealsHere(q)
    <3>1. Stamped(computed[q.e], q, q.val) \in ComputedRow
      BY <1>1, ComputedRowType DEF TypeInv, TypeOK
    <3> QED BY <2>2, <3>1, <1>4 DEF CommitTransition, TypeInv, TypeOK
  <2> QED BY <2>1, <2>2
<1>6. section' \in [Entries -> [Sections -> SectionRow]]
  <2>1. \A s \in Sections :
          /\ section[q.e][s] \in SectionRow
          /\ NextSectionState(q.sec[s].state, Editable(s, q.op.t.to))
               \in {"PENDING", "IN_PROGRESS", "COMPLETED", "LOCKED"}
    BY <1>1 DEF NextSectionState, SectionRow, TypeInv, TypeOK
  <2>2. MovedSections(q) \in [Sections -> SectionRow]
    BY <2>1 DEF MovedSections, SectionRow
  <2> QED BY <2>2 DEF CommitTransition, TypeInv, TypeOK
<1>7. signature' \in [Entries -> Signature \cup {None}]
  <2>1. Snapshot(q.val) \in Signature
    BY <1>1, ComputedType DEF Snapshot, Signature
  <2> QED BY <2>1, <1>1 DEF CommitTransition, TypeInv, TypeOK
<1>8. events' \subseteq EventRow
  BY <1>1, <1>3 DEF CommitTransition, TransitionEvents, EventRow, TypeInv, TypeOK
<1>9. Finish(r) /\ UNCHANGED value
  BY DEF CommitTransition
<1> QED BY <1>5, <1>6, <1>7, <1>8, <1>9, FinishType DEF TypeInv, TypeOK

(* Writing a date into the date field and bumping its section's version.   *)
LEMMA DateWriteType ==
  ASSUME TypeInv, NEW e \in Entries, NEW d \in Dates, DateSection \in Sections,
         value' = [value EXCEPT ![e][DateSection] = d],
         section' = [section EXCEPT ![e][DateSection].version = @ + 1]
  PROVE  /\ value' \in [Entries -> Reading]
         /\ section' \in [Entries -> [Sections -> SectionRow]]
<1> DEFINE x == section[e][DateSection]
<1>1. value[e] \in Reading /\ x \in SectionRow
  BY DEF TypeInv, TypeOK
<1>2. [value[e] EXCEPT ![DateSection] = d] \in Reading
  BY <1>1 DEF Reading, Input, Field
<1>3. value' = [value EXCEPT ![e] = [value[e] EXCEPT ![DateSection] = d]]
  BY DEF TypeInv, TypeOK
<1>4. [x EXCEPT !.version = @ + 1] \in SectionRow
  BY <1>1 DEF SectionRow
<1>5. section' = [section EXCEPT ![e] = [section[e] EXCEPT ![DateSection] =
                    [x EXCEPT !.version = @ + 1]]]
  BY DEF TypeInv, TypeOK
<1> QED BY <1>2, <1>3, <1>4, <1>5 DEF TypeInv, TypeOK

(* Declaring or clearing the deferred date.                                *)
LEMMA CommitDeferType ==
  ASSUME TypeInv, NEW r \in Requests, CommitDefer(r)
  PROVE  TypeInv'
<1> DEFINE q == req[r]
<1>1. /\ q.e \in Entries /\ q.ent \in EntryRow /\ q.val \in Reading /\ q.op \in Op
  BY StepParts, InFlightParts DEF CommitDefer, Step, OnRound
<1>2. q.op.d \in Date
  BY <1>1, OpParts DEF CommitDefer, Step
<1>3. DeferredEff(q) \in Date
  <2> DEFINE val == [s \in Sections |->
               IF s = DateSection /\ q.op.d # None THEN q.op.d ELSE q.val[s]]
  <2>1. val \in Reading
    BY <1>1, <1>2 DEF Reading, Input, Field, Date
  <2> QED BY <2>1, <1>2, ResolveType DEF DeferredEff
<1>4. entry' \in [Entries -> EntryRow]
  <2>1. [entry[q.e] EXCEPT !.declared = q.op.d, !.eff = DeferredEff(q)] \in EntryRow
    <3>1. entry[q.e] \in EntryRow
      BY <1>1 DEF TypeInv, TypeOK
    <3> QED BY <1>2, <1>3, <3>1 DEF EntryRow
  <2>2. entry' = [entry EXCEPT ![q.e] =
                    [entry[q.e] EXCEPT !.declared = q.op.d, !.eff = DeferredEff(q)]]
    BY DEF CommitDefer
  <2> QED BY <2>1, <2>2 DEF TypeInv, TypeOK
<1>5. /\ value' \in [Entries -> Reading]
      /\ section' \in [Entries -> [Sections -> SectionRow]]
  <2>1. CASE WritesDate(q)
    <3>1. DateSection \in Sections /\ q.op.d \in Dates
      BY <2>1, <1>2, TemplateAssumption DEF WritesDate, Date
    <3>2. /\ value' = [value EXCEPT ![q.e][DateSection] = q.op.d]
          /\ section' = [section EXCEPT ![q.e][DateSection].version = @ + 1]
      BY <2>1, Zenon DEF CommitDefer
    <3> QED BY <1>1, <3>1, <3>2, DateWriteType
  <2>2. CASE ~WritesDate(q)
    <3>1. UNCHANGED <<value, section>>
      BY <2>2, Zenon DEF CommitDefer
    <3> QED BY <3>1 DEF TypeInv, TypeOK
  <2> QED BY <2>1, <2>2, Zenon
<1>6. Finish(r) /\ UNCHANGED <<exc, computed, signature, orders, events, round, counter>>
  BY DEF CommitDefer
<1> QED BY <1>4, <1>5, <1>6, FinishType DEF TypeInv, TypeOK

(* The three writes of voidEntry.                                          *)
LEMMA VoidType ==
  ASSUME TypeInv, NEW r \in Requests, VoidRow(r) \/ VoidUnlink(r) \/ VoidPurge(r)
  PROVE  TypeInv'
<1> DEFINE q == req[r]
<1>1. q \in InFlight /\ q.e \in Entries /\ q.ent \in EntryRow /\ q.op.kind = "void"
  BY StepParts, InFlightParts DEF VoidRow, VoidUnlink, VoidPurge, Step, OnRound
<1>2. ASSUME NEW pc \in {"unlink", "purge"}, req' = [req EXCEPT ![r].pc = pc]
      PROVE  /\ req' \in [Requests -> InFlight \cup {Idle}]
             /\ \A p \in Requests : StepMatchesOp(req'[p])
  <2> DEFINE n == [q EXCEPT !.pc = pc]
  <2>1. n \in InFlight /\ n.e = q.e /\ n.ent = q.ent /\ n.op = q.op /\ n.pc = pc
    BY <1>1 DEF InFlight
  <2>2. StepMatchesOp(n)
    BY <1>1, <2>1 DEF StepMatchesOp, OnRound
  <2>3. req' = [req EXCEPT ![r] = n]
    BY <1>2 DEF TypeInv, TypeOK
  <2> QED BY <2>1, <2>2, <2>3, ProceedType
<1>3. CASE VoidRow(r)
  <2> DEFINE void == [entry[q.e] EXCEPT !.status = "VOID"]
  <2>1. entry' = [entry EXCEPT ![q.e] = void]
    BY <1>3 DEF VoidRow
  <2>2. void \in EntryRow
    BY <1>1 DEF EntryRow, TypeInv, TypeOK
  <2>3. entry' \in [Entries -> EntryRow]
    BY <2>1, <2>2 DEF TypeInv, TypeOK
  <2> QED BY <1>2, <1>3, <2>3 DEF VoidRow, TypeInv, TypeOK
<1>4. CASE VoidUnlink(r)
  BY <1>2, <1>4 DEF VoidUnlink, ReleasedRounds, RoundRow, TypeInv, TypeOK
<1>5. CASE VoidPurge(r)
  <2>1. Purged(q.e) \in [Sections -> ExcRow]
    BY <1>1 DEF Purged, NoExc, ExcRow, TypeInv, TypeOK
  <2>2. PurgedComputed(computed[q.e]) \in ComputedRow
    <3>1. \A x \in ComputedRow : [x EXCEPT !.exc = NoExc] \in ComputedRow
      BY DEF NoExc, ExcRow, ComputedRow
    <3> QED BY <1>1, <3>1 DEF PurgedComputed, TypeInv, TypeOK
  <2>3. /\ exc' \in [Entries -> [Sections -> ExcRow]]
        /\ computed' \in [Entries -> ComputedRow]
    BY <1>5, <2>1, <2>2 DEF VoidPurge, TypeInv, TypeOK
  <2> QED BY <1>5, <2>3, FinishType DEF VoidPurge, TypeInv, TypeOK
<1> QED BY <1>3, <1>4, <1>5

(* Starting and skipping a round, and loading it.                          *)
LEMMA RoundType ==
  ASSUME TypeInv, NEW r \in Requests,
         \/ \E o \in Rounds, kind \in {"start", "skip"} : LoadRound(r, o, kind)
         \/ \E e \in Entries : StartCreate(r, e)
         \/ StartLink(r) \/ CommitSkip(r)
  PROVE  TypeInv'
<1>1. ASSUME NEW o \in Rounds, NEW kind \in {"start", "skip"}, LoadRound(r, o, kind)
      PROVE  TypeInv'
  <2> DEFINE n == [Idle EXCEPT !.pc = "loaded", !.o = o, !.op = [kind |-> kind]]
  <2>1. n \in InFlight /\ n.op.kind = kind /\ n.o = o /\ n.pc = "loaded"
    BY DEF Idle, InFlight, Op
  <2>2. StepMatchesOp(n)
    BY <2>1 DEF StepMatchesOp, OnRound
  <2>3. req' = [req EXCEPT ![r] = n] /\ UNCHANGED rows
    BY <1>1 DEF LoadRound
  <2>4. /\ req' \in [Requests -> InFlight \cup {Idle}]
        /\ \A p \in Requests : StepMatchesOp(req'[p])
    BY <2>1, <2>2, <2>3, ProceedType
  <2> QED BY <2>3, <2>4 DEF rows, TypeInv, TypeOK
<1>2. ASSUME NEW e \in Entries, StartCreate(r, e) PROVE TypeInv'
  <2> DEFINE n == [req[r] EXCEPT !.pc = "link", !.e = e]
  <2>1. req[r] \in InFlight /\ req[r].o \in Rounds /\ OnRound(req[r])
    BY <1>2, StepParts, InFlightParts DEF StartCreate, Step, OnRound
  <2>2. n \in InFlight /\ n.op = req[r].op /\ n.o = req[r].o /\ n.e = e /\ n.pc = "link"
    BY <2>1 DEF InFlight
  <2>3. StepMatchesOp(n)
    BY <2>1, <2>2 DEF StepMatchesOp, OnRound
  <2>4. req' = [req EXCEPT ![r] = n]
    BY <1>2 DEF StartCreate
  <2>5. /\ req' \in [Requests -> InFlight \cup {Idle}]
        /\ \A p \in Requests : StepMatchesOp(req'[p])
    BY <2>2, <2>3, <2>4, ProceedType
  <2>6. entry' \in [Entries -> EntryRow]
    BY <1>2, NewRowType DEF StartCreate, Date, TypeInv, TypeOK
  <2> QED BY <1>2, <2>5, <2>6 DEF StartCreate, TypeInv, TypeOK
<1>3. ASSUME StartLink(r) PROVE TypeInv'
  <2>1. req[r].e \in Entries
    BY <1>3, StepParts DEF StartLink, Step, OnRound
  <2>2. round' \in [Rounds -> RoundRow]
    <3>1. round[req[r].o] \in RoundRow \/ req[r].o \notin Rounds
      BY DEF TypeInv, TypeOK
    <3>2. \A x \in RoundRow : [x EXCEPT !.link = req[r].e] \in RoundRow
      BY <2>1 DEF RoundRow
    <3>3. round' = [round EXCEPT ![req[r].o] = [round[req[r].o] EXCEPT !.link = req[r].e]]
      BY <1>3 DEF StartLink
    <3> QED BY <3>1, <3>2, <3>3 DEF TypeInv, TypeOK
  <2> QED BY <1>3, <2>2, FinishType DEF StartLink, TypeInv, TypeOK
<1>4. ASSUME CommitSkip(r) PROVE TypeInv'
  <2>1. round' \in [Rounds -> RoundRow]
    <3>1. round[req[r].o] \in RoundRow \/ req[r].o \notin Rounds
      BY DEF TypeInv, TypeOK
    <3>2. \A x \in RoundRow : [x EXCEPT !.status = "SKIPPED"] \in RoundRow
      BY DEF RoundRow
    <3>3. round' = [round EXCEPT ![req[r].o] = [round[req[r].o] EXCEPT !.status = "SKIPPED"]]
      BY <1>4 DEF CommitSkip
    <3> QED BY <3>1, <3>2, <3>3 DEF TypeInv, TypeOK
  <2> QED BY <1>4, <2>1, FinishType DEF CommitSkip, TypeInv, TypeOK
<1> QED BY <1>1, <1>2, <1>3, <1>4

(* A request that begins.                                                  *)
LEMMA BeginType ==
  ASSUME TypeInv, NEW r \in Requests, Begin(r)
  PROVE  TypeInv'
<1>1. ASSUME NEW e \in Entries, NEW s \in Sections, NEW complete \in BOOLEAN,
             NEW v \in Input(s), LoadSave(r, e, s, v, complete)
      PROVE  TypeInv'
  <2> DEFINE op == [kind |-> "save", s |-> s, v |-> v, complete |-> complete]
  <2>1. op \in Op /\ op.kind = "save"
    BY DEF Op, Input, Field
  <2> QED BY <1>1, <2>1, LoadType DEF LoadSave
<1>2. ASSUME NEW e \in Entries, LoadSubmit(r, e) PROVE TypeInv'
  <2>1. [kind |-> "submit"] \in Op
    BY DEF Op
  <2> QED BY <1>2, <2>1, LoadType DEF LoadSubmit
<1>3. ASSUME NEW e \in Entries, NEW t \in Transitions, LoadTransition(r, e, t)
      PROVE  TypeInv'
  <2> DEFINE op == [kind |-> "transition", t |-> t]
  <2>1. op \in Op /\ op.kind = "transition" /\ op.t.from = entry[e].cur
    BY <1>3 DEF Op, LoadTransition
  <2> QED BY <1>3, <2>1, LoadType DEF LoadTransition
<1>4. ASSUME NEW e \in Entries, NEW d \in Date, LoadDefer(r, e, d) PROVE TypeInv'
  <2> DEFINE op == [kind |-> "defer", d |-> d]
  <2>1. op \in Op /\ op.kind = "defer"
    BY DEF Op
  <2> QED BY <1>4, <2>1, LoadType DEF LoadDefer
<1>5. ASSUME NEW e \in Entries, LoadVoid(r, e) PROVE TypeInv'
  <2>1. [kind |-> "void"] \in Op
    BY DEF Op
  <2> QED BY <1>5, <2>1, LoadType DEF LoadVoid
<1> QED BY <1>1, <1>2, <1>3, <1>4, <1>5, RoundType DEF Begin

(* A request that continues.                                               *)
LEMMA ContinueType ==
  ASSUME TypeInv, NEW r \in Requests, Continue(r)
  PROVE  TypeInv'
<1>1. CASE CheckSave(r) \/ CheckSubmit(r) \/ CheckTransition(r) \/ CheckDefer(r)
  BY <1>1, ReadType
     DEF CheckSave, CheckSubmit, CheckTransition, CheckDefer, Step, OnRound
<1>2. CASE Reject(r) \/ Crash(r)
  BY <1>2, FinishType DEF Reject, Crash, rows, TypeInv, TypeOK
<1> QED
  BY <1>1, <1>2, CommitSaveType, CommitSubmitType, CommitTransitionType,
     CommitDeferType, VoidType, RoundType DEF Continue

(* Triaging an exception.                                                  *)
LEMMA StatusType ==
  ASSUME TypeInv, NEW e \in Entries, NEW s \in Sections,
         NEW status \in {"ACKNOWLEDGED", "DISMISSED", "CORRECTED"},
         exc' = [exc EXCEPT ![e][s].status = status]
  PROVE  exc' \in [Entries -> [Sections -> ExcRow]]
<1> DEFINE x == exc[e][s]
<1>1. x \in ExcRow
  BY DEF TypeInv, TypeOK
<1>2. [x EXCEPT !.status = status] \in ExcRow
  BY <1>1 DEF ExcRow
<1>3. exc' = [exc EXCEPT ![e] = [exc[e] EXCEPT ![s] = [x EXCEPT !.status = status]]]
  BY DEF TypeInv, TypeOK
<1> QED BY <1>2, <1>3 DEF TypeInv, TypeOK

(* The same for the exception of the computed field.                       *)
LEMMA SettleComputedType ==
  ASSUME TypeInv, NEW e \in Entries,
         \/ \E status \in {"ACKNOWLEDGED", "DISMISSED"} : TriageComputed(e, status)
         \/ \E v \in Values \cup {None} : CorrectComputed(e, v)
  PROVE  TypeInv'
<1> DEFINE x == computed[e]
<1>1. x \in ComputedRow /\ x.exc \in ExcRow
  BY DEF TypeInv, TypeOK, ComputedRow
<1>2. ASSUME NEW status \in {"ACKNOWLEDGED", "DISMISSED"}, TriageComputed(e, status)
      PROVE  TypeInv'
  <2> DEFINE y == [x EXCEPT !.exc = [x.exc EXCEPT !.status = status]]
  <2>1. y \in ComputedRow
    BY <1>1 DEF ExcRow, ComputedRow
  <2>2. computed' = [computed EXCEPT ![e] = y]
    BY <1>2 DEF TriageComputed, TypeInv, TypeOK
  <2> HIDE DEF y
  <2> QED BY <1>2, <2>1, <2>2 DEF TriageComputed, TypeInv, TypeOK
<1>3. ASSUME NEW v \in Values \cup {None}, CorrectComputed(e, v)
      PROVE  TypeInv'
  <2> DEFINE y == [value |-> v, exc |-> [x.exc EXCEPT !.status = "CORRECTED"]]
  <2>1. y \in ComputedRow
    BY <1>1 DEF ExcRow, ComputedRow
  <2>2. computed' = [computed EXCEPT ![e] = y]
    BY <1>3 DEF CorrectComputed
  <2> HIDE DEF y
  <2> QED BY <1>3, <2>1, <2>2 DEF CorrectComputed, TypeInv, TypeOK
<1> QED BY <1>2, <1>3

(* The empty database is well typed.                                       *)
LEMMA TypeInit == Init => TypeInv
<1> SUFFICES ASSUME Init PROVE TypeInv
  OBVIOUS
<1>1. Absent \in EntryRow /\ NoExc \in ExcRow
  BY DEF Absent, NoExc, EntryRow, ExcRow, Date
<1>2. [s \in Sections |-> None] \in Reading
  BY DEF Reading, Field, Input
<1>3. [value |-> None, exc |-> NoExc] \in ComputedRow
  BY <1>1 DEF ComputedRow
<1> QED
  BY <1>1, <1>2, <1>3 DEF Init, TypeInv, TypeOK, SectionRow, RoundRow, StepMatchesOp

(* Every step keeps the types, and each request the rows its kind reads.   *)
LEMMA TypeStep ==
  ASSUME TypeInv, [Next]_vars PROVE TypeInv'
<1>1. ASSUME NEW e \in Entries, NEW d \in Date, Create(e, d) PROVE TypeInv'
  <2>1. entry' \in [Entries -> EntryRow]
    BY <1>1, NewRowType DEF Create, TypeInv, TypeOK
  <2>2. CASE d # None /\ DateSection # None
    <3>1. /\ value' = [value EXCEPT ![e][DateSection] = d]
          /\ section' = [section EXCEPT ![e][DateSection].version = @ + 1]
      BY <1>1, <2>2 DEF Create
    <3>2. DateSection \in Sections /\ d \in Dates
      BY <2>2, TemplateAssumption DEF Date
    <3>3. /\ value' \in [Entries -> Reading]
          /\ section' \in [Entries -> [Sections -> SectionRow]]
      BY <3>1, <3>2, DateWriteType
    <3> QED BY <1>1, <2>1, <3>3 DEF Create, TypeInv, TypeOK
  <2>3. CASE ~(d # None /\ DateSection # None)
    BY <1>1, <2>1, <2>3 DEF Create, TypeInv, TypeOK
  <2> QED BY <2>2, <2>3
<1>2. ASSUME NEW e \in Entries, NEW s \in Sections,
             NEW status \in {"ACKNOWLEDGED", "DISMISSED"}, Triage(e, s, status)
      PROVE  TypeInv'
  BY <1>2, StatusType DEF Triage, TypeInv, TypeOK
<1>4. ASSUME NEW e \in Entries, NEW s \in Sections \ {DateSection},
             NEW v \in Values \cup {None}, Correct(e, s, v)
      PROVE  TypeInv'
  <2>1. [value[e] EXCEPT ![s] = v] \in Reading
    BY DEF Reading, Input, Field, TypeInv, TypeOK
  <2>2. value' = [value EXCEPT ![e] = [value[e] EXCEPT ![s] = v]]
    BY <1>4 DEF Correct, TypeInv, TypeOK
  <2>3. value' \in [Entries -> Reading]
    BY <2>1, <2>2 DEF TypeInv, TypeOK
  <2>4. exc' = [exc EXCEPT ![e][s].status = "CORRECTED"]
        /\ UNCHANGED <<entry, section, computed, signature, orders, events, round, counter,
                       req>>
    BY <1>4 DEF Correct
  <2>5. exc' \in [Entries -> [Sections -> ExcRow]]
    BY <2>4, StatusType
  <2> QED BY <2>3, <2>4, <2>5 DEF TypeInv, TypeOK
<1>3. CASE UNCHANGED vars
  BY <1>3 DEF vars, rows, TypeInv, TypeOK
<1> QED
  BY <1>1, <1>2, <1>3, <1>4, BeginType, ContinueType, SettleComputedType
     DEF Next, Settles, SettlesEntered, SettlesComputed

(* Every row, and every request in flight, always has its type: no commit  *)
(* ever stores a measurement where a date belongs, whichever stale reading *)
(* it was computed from.                                                   *)
THEOREM TypeCorrect == Spec => []TypeOK
<1>1. TypeInv => TypeOK
  BY DEF TypeInv
<1>2. Spec => []TypeInv
  BY TypeInit, TypeStep, PTL DEF Spec
<1> QED BY <1>1, <1>2, PTL

-----------------------------------------------------------------------------
(* The seal                                                                *)

(* What SnapshotTrails asks of a request survives any step that keeps the  *)
(* request's memory of the entry, and neither unseals nor deletes a row.   *)
LEMMA TrailsKept ==
  ASSUME TypeInv, SealInv, NEW p \in Requests,
         req[p].pc # "idle", ~OnRound(req[p]),
         ~OnRound(req'[p]), req'[p].e = req[p].e, req'[p].ent = req[p].ent,
         \A e \in Entries : /\ entry[e].sealed => entry'[e].sealed
                            /\ entry[e].status # "ABSENT" => entry'[e].status # "ABSENT"
  PROVE  SnapshotTrails(req[p])'
<1>1. req[p].e \in Entries
  BY StepParts
<1>2. SnapshotTrails(req[p])
  BY DEF SealInv
<1> QED BY <1>1, <1>2 DEF SnapshotTrails

(* After Finish every request is idle or remembers what it did.            *)
LEMMA TrailsAfterFinish ==
  ASSUME TypeInv, SealInv, NEW r \in Requests, Finish(r),
         \A e \in Entries : /\ entry[e].sealed => entry'[e].sealed
                            /\ entry[e].status # "ABSENT" => entry'[e].status # "ABSENT"
  PROVE  \A p \in Requests : SnapshotTrails(req[p])'
<1> SUFFICES ASSUME NEW p \in Requests, req'[p].pc # "idle", ~OnRound(req'[p])
             PROVE  SnapshotTrails(req[p])'
  BY DEF SnapshotTrails, OnRound
<1>1. req' = [req EXCEPT ![r] = Idle] /\ req \in [Requests -> InFlight \cup {Idle}]
  BY DEF Finish, TypeInv, TypeOK
<1>2. req'[p] = req[p]
  BY <1>1 DEF Idle
<1> QED BY <1>2, TrailsKept

(* A step that leaves the seal, folio and stage of every row alone, and at *)
(* most voids one that exists.                                             *)
LEMMA QuietRows ==
  ASSUME TypeInv, SealInv, counter' = counter, orders' = orders,
         \A e \in Entries :
           \/ entry'[e] = entry[e]
           \/ /\ entry'[e].sealed = entry[e].sealed /\ entry'[e].folio = entry[e].folio
              /\ entry'[e].cur = entry[e].cur /\ entry[e].status # "ABSENT"
              /\ entry'[e].status \in {entry[e].status, "VOID"}
  PROVE  /\ AbsentIsBlank' /\ FolioUnique' /\ SealGate' /\ OrderOnlyForSealed'
         /\ \A e \in Entries : /\ entry[e].sealed => entry'[e].sealed
                               /\ entry[e].status # "ABSENT" => entry'[e].status # "ABSENT"
<1>1. \A e \in Entries : /\ entry'[e].sealed = entry[e].sealed
                         /\ entry'[e].folio = entry[e].folio
                         /\ entry'[e].cur = entry[e].cur
                         /\ entry'[e].status \in {entry[e].status, "VOID"}
  OBVIOUS
<1>2. AbsentIsBlank'
  BY DEF AbsentIsBlank, SealInv
<1>3. FolioUnique'
  BY <1>1 DEF FolioUnique, SealInv
<1>4. SealGate'
  BY <1>1 DEF SealGate, SealInv
<1>5. OrderOnlyForSealed'
  BY <1>1 DEF OrderOnlyForSealed, SealInv, TypeInv, TypeOK
<1> QED BY <1>1, <1>2, <1>3, <1>4, <1>5

(* A row that is created from nothing is an unsealed, unnumbered draft.    *)
LEMMA FreshRow ==
  ASSUME TypeInv, SealInv, NEW e \in Entries, NEW d \in Date,
         entry[e].status = "ABSENT", entry' = [entry EXCEPT ![e] = NewRow(e, d)],
         counter' = counter, orders' = orders
  PROVE  /\ AbsentIsBlank' /\ FolioUnique' /\ SealGate' /\ OrderOnlyForSealed'
         /\ \A f \in Entries : /\ entry[f].sealed => entry'[f].sealed
                               /\ entry[f].status # "ABSENT" => entry'[f].status # "ABSENT"
<1>a. entry[e] = Absent
  BY DEF SealInv, AbsentIsBlank
<1>1. ~entry[e].sealed /\ entry[e].folio = 0
  BY <1>a DEF Absent
<1>2. \A f \in Entries : entry'[f] = IF f = e THEN NewRow(e, d) ELSE entry[f]
  BY DEF TypeInv, TypeOK
<1>3. AbsentIsBlank'
  BY <1>2, NewRowType DEF AbsentIsBlank, SealInv
<1>4. FolioUnique'
  BY <1>1, <1>2, NewRowType DEF FolioUnique, SealInv
<1>5. SealGate'
  BY <1>2, NewRowType DEF SealGate, SealInv
<1>6. OrderOnlyForSealed'
  BY <1>1, <1>2 DEF OrderOnlyForSealed, SealInv, TypeInv, TypeOK
<1> QED BY <1>1, <1>2, <1>3, <1>4, <1>5, <1>6, NewRowType

(* A commit that leaves its row sealed, with the folio the row had or with *)
(* the next number of the counter.                                         *)
LEMMA SealedChange ==
  ASSUME TypeInv, SealInv, NEW r \in Requests, Finish(r),
         NEW e \in Entries, NEW row \in EntryRow,
         entry' = [entry EXCEPT ![e] = row],
         row.sealed, row.status # "ABSENT", row.folio # 0 <=> e \in FolioEntries,
         \/ row.folio = entry[e].folio /\ counter' = counter
         \/ row.folio = counter + 1 /\ counter' = counter + 1,
         orders' \subseteq orders \cup {e}
  PROVE  SealInv'
<1>1. \A f \in Entries : entry'[f] = IF f = e THEN row ELSE entry[f]
  BY DEF TypeInv, TypeOK
<1>2. counter \in Nat /\ \A f \in Entries : entry[f].folio \in Nat
  BY DEF TypeInv, TypeOK, EntryRow
<1>3. AbsentIsBlank'
  BY <1>1 DEF AbsentIsBlank, SealInv
<1>4. FolioUnique'
  BY <1>1, <1>2 DEF FolioUnique, SealInv
<1>5. SealGate'
  BY <1>1 DEF SealGate, SealInv
<1>6. OrderOnlyForSealed'
  BY <1>1 DEF OrderOnlyForSealed, SealInv, TypeInv, TypeOK
<1>7. \A p \in Requests : SnapshotTrails(req[p])'
  BY <1>1, TrailsAfterFinish
<1> QED BY <1>3, <1>4, <1>5, <1>6, <1>7 DEF SealInv

(* The folio that sealing leaves on a row.                                 *)
LEMMA SealNumbers ==
  ASSUME TypeInv, SealInv, NEW r \in Requests, NEW row \in EntryRow,
         req[r].pc = "ready", ~OnRound(req[r]), SealEffects(req[r]),
         row.folio = entry[req[r].e].folio
  PROVE  LET q == req[r]  new == SealedRow(row, req[r]) IN
         /\ new.sealed /\ (new.folio # 0 <=> q.e \in FolioEntries)
         /\ \/ new.folio = entry[q.e].folio /\ counter' = counter
            \/ new.folio = counter + 1 /\ counter' = counter + 1
         /\ orders' \subseteq orders \cup {q.e}
         /\ new.status = row.status /\ new.cur = row.cur
<1> DEFINE q == req[r]
<1>1. q.e \in Entries /\ q.ent \in EntryRow
  BY StepParts
<1>2. counter \in Nat
  BY DEF TypeInv, TypeOK
<1>3. q.ent.folio # 0 <=> q.ent.sealed /\ q.e \in FolioEntries
  BY DEF SealInv, SnapshotTrails
<1>4. q.ent.sealed => entry[q.e].sealed
  BY DEF SealInv, SnapshotTrails
<1>5. entry[q.e].folio # 0 <=> entry[q.e].sealed /\ q.e \in FolioEntries
  BY <1>1 DEF SealInv, SealGate
<1>6. /\ SealedRow(row, q).sealed
      /\ SealedRow(row, q).folio = IF IssuesFolio(q) THEN counter + 1 ELSE row.folio
      /\ SealedRow(row, q).status = row.status /\ SealedRow(row, q).cur = row.cur
  BY DEF SealedRow, EntryRow
<1>7. counter' = (IF IssuesFolio(q) THEN counter + 1 ELSE counter)
      /\ orders' \subseteq orders \cup {q.e}
  BY DEF SealEffects, SealedCounter, SealedOrders
<1> QED BY <1>2, <1>3, <1>4, <1>5, <1>6, <1>7 DEF IssuesFolio

(* submit seals the entry, and numbers it unless the row read had a folio. *)
LEMMA SubmitSeals ==
  ASSUME TypeInv, SealInv, NEW r \in Requests, CommitSubmit(r)
  PROVE  SealInv'
<1> DEFINE q == req[r]
           row == SealedRow(entry[q.e], q)
           new == [row EXCEPT !.status = "SUBMITTED"]
<1>1. /\ q \in InFlight /\ q.e \in Entries /\ q.ent \in EntryRow /\ q.val \in Reading
      /\ q.pc = "ready" /\ ~OnRound(q)
  BY StepParts, InFlightParts DEF CommitSubmit, Step, OnRound
<1>2. entry[q.e] \in EntryRow
  BY <1>1 DEF TypeInv, TypeOK
<1>3. row \in EntryRow
  BY <1>1, <1>2, SealType
<1>4. new \in EntryRow /\ new.status = "SUBMITTED"
      /\ new.sealed = row.sealed /\ new.folio = row.folio
  BY <1>3 DEF EntryRow
<1>5. SealEffects(q) /\ Finish(r) /\ entry' = [entry EXCEPT ![q.e] = new]
  BY DEF CommitSubmit
<1>6. /\ row.sealed /\ (row.folio # 0 <=> q.e \in FolioEntries)
      /\ \/ row.folio = entry[q.e].folio /\ counter' = counter
         \/ row.folio = counter + 1 /\ counter' = counter + 1
      /\ orders' \subseteq orders \cup {q.e}
  BY <1>1, <1>2, <1>5, SealNumbers
<1> QED BY <1>1, <1>4, <1>5, <1>6, SealedChange

(* A transition seals when it leaves the initial stage of an unsealed entry. *)
LEMMA TransitionSeals ==
  ASSUME TypeInv, SealInv, NEW r \in Requests, CommitTransition(r)
  PROVE  SealInv'
<1> DEFINE q == req[r]
           moved == MovedRow(entry[q.e], q)
<1>1. /\ q \in InFlight /\ q.e \in Entries /\ q.ent \in EntryRow /\ q.val \in Reading
      /\ q.pc = "ready" /\ ~OnRound(q) /\ q.op \in Op /\ q.op.kind = "transition"
      /\ q.op.t.from = q.ent.cur
  BY StepParts, InFlightParts DEF CommitTransition, Step, OnRound
<1>2. q.op.t.to \in States /\ q.op.t.from \in States
  BY <1>1, OpParts, FlowAssumption
<1>3. entry[q.e] \in EntryRow
  BY <1>1 DEF TypeInv, TypeOK
<1>4. /\ moved \in EntryRow /\ moved.folio = entry[q.e].folio
      /\ moved.sealed = entry[q.e].sealed /\ moved.status # "ABSENT"
  BY <1>2, <1>3 DEF MovedRow, EntryRow
<1>5. CASE SealsHere(q)
  <2>1. SealEffects(q) /\ Finish(r)
        /\ entry' = [entry EXCEPT ![q.e] = SealedRow(moved, q)]
    BY <1>5 DEF CommitTransition
  <2>2. SealedRow(moved, q) \in EntryRow
    BY <1>1, <1>4, SealType
  <2>3. /\ SealedRow(moved, q).sealed
        /\ SealedRow(moved, q).folio # 0 <=> q.e \in FolioEntries
        /\ \/ SealedRow(moved, q).folio = entry[q.e].folio /\ counter' = counter
           \/ SealedRow(moved, q).folio = counter + 1 /\ counter' = counter + 1
        /\ orders' \subseteq orders \cup {q.e}
        /\ SealedRow(moved, q).status = moved.status
    BY <1>1, <1>4, <2>1, SealNumbers
  <2> QED BY <1>1, <1>4, <2>1, <2>2, <2>3, SealedChange
<1>6. CASE ~SealsHere(q)
  (* a stale row that is still unsealed is at the initial stage, so the    *)
  (* transition would seal; the row was read sealed, and so it is          *)
  <2>1. ~q.ent.sealed => q.ent.cur = InitialState
    BY <1>1, <1>2, NoneAssumption DEF SealInv, SnapshotTrails
  <2>2. q.ent.sealed
    BY <1>1, <1>6, <2>1 DEF SealsHere, EntryRow
  <2>3. entry[q.e].sealed
    BY <1>1, <2>2 DEF SealInv, SnapshotTrails
  <2>4. entry[q.e].folio # 0 <=> q.e \in FolioEntries
    BY <1>1, <2>3 DEF SealInv, SealGate
  <2>5. Finish(r) /\ entry' = [entry EXCEPT ![q.e] = moved]
        /\ counter' = counter /\ orders' = orders
    BY <1>6 DEF CommitTransition
  <2> QED BY <1>1, <1>4, <2>3, <2>4, <2>5, SealedChange
<1> QED BY <1>5, <1>6

(* Loading a row: the request remembers it as it is.                       *)
LEMMA LoadSeals ==
  ASSUME TypeInv, SealInv, NEW r \in Requests, NEW e \in Entries, NEW op \in Op,
         Load(r, e, op), entry[e].status = "DRAFT"
  PROVE  SealInv'
<1> DEFINE n == [Idle EXCEPT !.pc = "loaded", !.e = e, !.op = op, !.ent = entry[e]]
<1>1. /\ req' = [req EXCEPT ![r] = n] /\ UNCHANGED rows
      /\ req \in [Requests -> InFlight \cup {Idle}]
  BY DEF Load, TypeInv, TypeOK
<1>2. n.e = e /\ n.ent = entry[e]
  BY DEF Idle
<1>3. SnapshotTrails(n)
  <2>1. /\ entry[e].cur \notin {None, InitialState} => entry[e].sealed
        /\ entry[e].folio # 0 <=> entry[e].sealed /\ e \in FolioEntries
    BY DEF SealInv, SealGate
  <2> QED BY <1>2, <2>1 DEF SnapshotTrails
<1>4. \A p \in Requests : SnapshotTrails(req'[p])
  BY <1>1, <1>3 DEF SealInv
<1> QED
  BY <1>1, <1>4
     DEF rows, SealInv, AbsentIsBlank, FolioUnique, SealGate, OrderOnlyForSealed, SnapshotTrails

(* Begin: every handler loads a DRAFT; a round is not an entry.            *)
LEMMA BeginSeals ==
  ASSUME TypeInv, SealInv, NEW r \in Requests, Begin(r)
  PROVE  SealInv'
<1>1. ASSUME NEW e \in Entries, NEW s \in Sections, NEW complete \in BOOLEAN,
             NEW v \in Input(s), LoadSave(r, e, s, v, complete)
      PROVE  SealInv'
  <2>1. [kind |-> "save", s |-> s, v |-> v, complete |-> complete] \in Op
    BY DEF Op, Input, Field
  <2> QED BY <1>1, <2>1, LoadSeals DEF LoadSave, SaveAllowed
<1>2. ASSUME NEW e \in Entries, LoadSubmit(r, e) PROVE SealInv'
  <2>1. [kind |-> "submit"] \in Op
    BY DEF Op
  <2> QED BY <1>2, <2>1, LoadSeals DEF LoadSubmit
<1>3. ASSUME NEW e \in Entries, NEW t \in Transitions, LoadTransition(r, e, t)
      PROVE  SealInv'
  <2>1. [kind |-> "transition", t |-> t] \in Op
    BY DEF Op
  <2> QED BY <1>3, <2>1, LoadSeals DEF LoadTransition
<1>4. ASSUME NEW e \in Entries, NEW d \in Date, LoadDefer(r, e, d) PROVE SealInv'
  <2>1. [kind |-> "defer", d |-> d] \in Op
    BY DEF Op
  <2> QED BY <1>4, <2>1, LoadSeals DEF LoadDefer, Unsealed
<1>5. ASSUME NEW e \in Entries, LoadVoid(r, e) PROVE SealInv'
  <2>1. [kind |-> "void"] \in Op
    BY DEF Op
  <2> QED BY <1>5, <2>1, LoadSeals DEF LoadVoid, Unsealed
<1>6. ASSUME NEW o \in Rounds, NEW kind \in {"start", "skip"}, LoadRound(r, o, kind)
      PROVE  SealInv'
  <2> DEFINE n == [Idle EXCEPT !.pc = "loaded", !.o = o, !.op = [kind |-> kind]]
  <2>1. /\ req' = [req EXCEPT ![r] = n] /\ UNCHANGED rows
        /\ req \in [Requests -> InFlight \cup {Idle}]
    BY <1>6 DEF LoadRound, TypeInv, TypeOK
  <2>2. SnapshotTrails(n)
    BY DEF Idle, SnapshotTrails, OnRound
  <2>3. \A p \in Requests : SnapshotTrails(req'[p])
    BY <2>1, <2>2 DEF SealInv
  <2> QED
    BY <2>1, <2>3
       DEF rows, SealInv, AbsentIsBlank, FolioUnique, SealGate, OrderOnlyForSealed, SnapshotTrails
<1> QED BY <1>1, <1>2, <1>3, <1>4, <1>5, <1>6 DEF Begin

(* A request that goes on with the same memory of its entry.               *)
LEMMA TrailsAfterProceed ==
  ASSUME TypeInv, SealInv, NEW r \in Requests, NEW n,
         req[r].pc # "idle", ~OnRound(req[r]),
         req' = [req EXCEPT ![r] = n], n.op = req[r].op,
         n.e = req[r].e, n.ent = req[r].ent,
         \A e \in Entries : /\ entry[e].sealed => entry'[e].sealed
                            /\ entry[e].status # "ABSENT" => entry'[e].status # "ABSENT"
  PROVE  \A p \in Requests : SnapshotTrails(req[p])'
<1> SUFFICES ASSUME NEW p \in Requests, req'[p].pc # "idle", ~OnRound(req'[p])
             PROVE  SnapshotTrails(req[p])'
  BY DEF SnapshotTrails, OnRound
<1>1. req \in [Requests -> InFlight \cup {Idle}]
  BY DEF TypeInv, TypeOK
<1>2. CASE p = r
  <2>1. req'[p] = n
    BY <1>1, <1>2
  <2> QED BY <1>2, <2>1, TrailsKept
<1>3. CASE p # r
  <2>1. req'[p] = req[p]
    BY <1>1, <1>3
  <2> QED BY <2>1, TrailsKept
<1> QED BY <1>2, <1>3

(* The steps of Continue that leave every seal as it is.                   *)
LEMMA ReadSeals ==
  ASSUME TypeInv, SealInv, NEW r \in Requests, req[r].pc = "loaded",
         ~OnRound(req[r]), ReadSections(r), UNCHANGED rows
  PROVE  SealInv'
<1> DEFINE n == [req[r] EXCEPT !.pc = "ready", !.sec = section[req[r].e],
                               !.val = value[req[r].e]]
<1>1. req' = [req EXCEPT ![r] = n]
  BY DEF ReadSections
<1>2. n.op = req[r].op /\ n.e = req[r].e /\ n.ent = req[r].ent
  BY StepParts, InFlightParts DEF InFlight
<1>3. entry' = entry /\ counter' = counter /\ orders' = orders
  BY DEF rows
<1>4. \A p \in Requests : SnapshotTrails(req[p])'
  BY <1>1, <1>2, <1>3, TrailsAfterProceed
<1> QED BY <1>3, <1>4, QuietRows DEF SealInv

(* The three writes of a void leave the seal alone.                        *)
LEMMA VoidSeals ==
  ASSUME TypeInv, SealInv, NEW r \in Requests, VoidRow(r) \/ VoidUnlink(r) \/ VoidPurge(r)
  PROVE  SealInv'
<1> DEFINE q == req[r]
<1>1. q \in InFlight /\ q.e \in Entries /\ q.pc # "idle" /\ ~OnRound(q)
  BY StepParts, InFlightParts DEF VoidRow, VoidUnlink, VoidPurge, Step, OnRound
<1>2. entry[q.e].status # "ABSENT"
  BY <1>1 DEF SealInv, SnapshotTrails
<1>3. \A pc : LET n == [q EXCEPT !.pc = pc]
              IN n.op = q.op /\ n.e = q.e /\ n.ent = q.ent
  BY <1>1 DEF InFlight
<1>4. CASE VoidRow(r)
  <2>1. \A e \in Entries :
          entry'[e] = IF e = q.e THEN [entry[e] EXCEPT !.status = "VOID"] ELSE entry[e]
    BY <1>4 DEF VoidRow, TypeInv, TypeOK
  <2>2. \A e \in Entries :
          \/ entry'[e] = entry[e]
          \/ /\ entry'[e].sealed = entry[e].sealed /\ entry'[e].folio = entry[e].folio
             /\ entry'[e].cur = entry[e].cur /\ entry[e].status # "ABSENT"
             /\ entry'[e].status \in {entry[e].status, "VOID"}
    <3> DEFINE void == [entry[q.e] EXCEPT !.status = "VOID"]
    <3>1. /\ void.sealed = entry[q.e].sealed /\ void.folio = entry[q.e].folio
          /\ void.cur = entry[q.e].cur /\ void.status = "VOID"
      <4>1. entry[q.e] \in EntryRow
        BY <1>1 DEF TypeInv, TypeOK
      <4> QED BY <4>1 DEF EntryRow
    <3>2. \A e \in Entries : entry'[e] = IF e = q.e THEN void ELSE entry[e]
      BY <2>1
    <3> HIDE DEF void
    <3> QED BY <1>2, <3>1, <3>2
  <2>3. counter' = counter /\ orders' = orders
    BY <1>4 DEF VoidRow
  <2>4. req' = [req EXCEPT ![r] = [q EXCEPT !.pc = "unlink"]]
    BY <1>4 DEF VoidRow, TypeInv, TypeOK
  <2>5. \A p \in Requests : SnapshotTrails(req[p])'
    BY <1>1, <1>3, <2>2, <2>3, <2>4, QuietRows, TrailsAfterProceed
  <2> QED BY <2>2, <2>3, <2>5, QuietRows DEF SealInv
<1>5. CASE VoidUnlink(r)
  <2>1. entry' = entry /\ counter' = counter /\ orders' = orders
    BY <1>5 DEF VoidUnlink
  <2>2. req' = [req EXCEPT ![r] = [q EXCEPT !.pc = "purge"]]
    BY <1>5 DEF VoidUnlink, TypeInv, TypeOK
  <2>3. \A p \in Requests : SnapshotTrails(req[p])'
    BY <1>1, <1>3, <2>1, <2>2, TrailsAfterProceed
  <2> QED BY <2>1, <2>3, QuietRows DEF SealInv
<1>6. CASE VoidPurge(r)
  <2>1. entry' = entry /\ counter' = counter /\ orders' = orders /\ Finish(r)
    BY <1>6 DEF VoidPurge
  <2> QED BY <2>1, QuietRows, TrailsAfterFinish DEF SealInv
<1> QED BY <1>4, <1>5, <1>6

(* The end of a request that rewrites nothing of the row but its dates.    *)
LEMMA DatesOnly ==
  ASSUME TypeInv, SealInv, NEW r \in Requests, Finish(r), NEW e \in Entries, NEW row,
         entry' = [entry EXCEPT ![e] = row], entry[e].status # "ABSENT",
         row.sealed = entry[e].sealed, row.folio = entry[e].folio,
         row.cur = entry[e].cur, row.status = entry[e].status,
         counter' = counter, orders' = orders
  PROVE  SealInv'
<1>1. \A f \in Entries : entry'[f] = IF f = e THEN row ELSE entry[f]
  BY DEF TypeInv, TypeOK
<1>2. \A f \in Entries :
        \/ entry'[f] = entry[f]
        \/ /\ entry'[f].sealed = entry[f].sealed /\ entry'[f].folio = entry[f].folio
           /\ entry'[f].cur = entry[f].cur /\ entry[f].status # "ABSENT"
           /\ entry'[f].status \in {entry[f].status, "VOID"}
  BY <1>1
<1>3. /\ AbsentIsBlank' /\ FolioUnique' /\ SealGate' /\ OrderOnlyForSealed'
      /\ \A f \in Entries : /\ entry[f].sealed => entry'[f].sealed
                            /\ entry[f].status # "ABSENT" => entry'[f].status # "ABSENT"
  BY <1>2, QuietRows
<1>4. \A p \in Requests : SnapshotTrails(req[p])'
  BY <1>3, TrailsAfterFinish
<1> QED BY <1>3, <1>4 DEF SealInv

(* Saving and deferring rewrite the effective and declared dates only.     *)
LEMMA DraftWriteSeals ==
  ASSUME TypeInv, SealInv, NEW r \in Requests, CommitSave(r) \/ CommitDefer(r)
  PROVE  SealInv'
<1> DEFINE q == req[r]
<1>1. Step(r, "save", "ready") \/ Step(r, "defer", "ready")
  BY DEF CommitSave, CommitDefer
<1>2. q.e \in Entries /\ q.pc # "idle" /\ ~OnRound(q)
  BY <1>1, StepParts DEF Step, OnRound
<1>3. entry[q.e].status # "ABSENT" /\ entry[q.e] \in EntryRow
  BY <1>2 DEF SealInv, SnapshotTrails, TypeInv, TypeOK
<1>4. CASE CommitSave(r)
  <2> DEFINE saved == SavedRow(entry[q.e], q)
  <2>1. /\ saved.sealed = entry[q.e].sealed /\ saved.folio = entry[q.e].folio
        /\ saved.cur = entry[q.e].cur /\ saved.status = entry[q.e].status
    BY <1>3 DEF SavedRow, EntryRow
  <2>2. /\ entry' = [entry EXCEPT ![q.e] = saved]
        /\ counter' = counter /\ orders' = orders /\ Finish(r)
    BY <1>4 DEF CommitSave
  <2> QED BY <1>2, <1>3, <2>1, <2>2, DatesOnly
<1>5. CASE CommitDefer(r)
  <2> DEFINE deferred == [entry[q.e] EXCEPT !.declared = q.op.d, !.eff = DeferredEff(q)]
  <2>1. /\ deferred.sealed = entry[q.e].sealed /\ deferred.folio = entry[q.e].folio
        /\ deferred.cur = entry[q.e].cur /\ deferred.status = entry[q.e].status
    BY <1>3 DEF EntryRow
  <2>2. /\ entry' = [entry EXCEPT ![q.e] = deferred]
        /\ counter' = counter /\ orders' = orders /\ Finish(r)
    BY <1>5, Zenon DEF CommitDefer
  <2> HIDE DEF deferred
  <2> QED BY <1>2, <1>3, <2>1, <2>2, DatesOnly
<1> QED BY <1>4, <1>5, Zenon

(* Starting a round creates an unsealed entry and links it.                *)
LEMMA StartSeals ==
  ASSUME TypeInv, SealInv, NEW r \in Requests, NEW e \in Entries, StartCreate(r, e)
  PROVE  SealInv'
<1> DEFINE n == [req[r] EXCEPT !.pc = "link", !.e = e]
<1>1. /\ entry[e].status = "ABSENT" /\ entry' = [entry EXCEPT ![e] = NewRow(e, None)]
      /\ None \in Date
      /\ counter' = counter /\ orders' = orders /\ req' = [req EXCEPT ![r] = n]
  BY DEF StartCreate, Date
<1>2. /\ AbsentIsBlank' /\ FolioUnique' /\ SealGate' /\ OrderOnlyForSealed'
      /\ \A f \in Entries : /\ entry[f].sealed => entry'[f].sealed
                            /\ entry[f].status # "ABSENT" => entry'[f].status # "ABSENT"
  BY <1>1, FreshRow
<1>3. req[r] \in InFlight /\ OnRound(req[r])
  BY StepParts, InFlightParts DEF StartCreate, Step, OnRound
<1>4. OnRound(n)
  BY <1>3 DEF InFlight, OnRound
<1>5. \A p \in Requests : SnapshotTrails(req[p])'
  <2> SUFFICES ASSUME NEW p \in Requests, req'[p].pc # "idle", ~OnRound(req'[p])
               PROVE  SnapshotTrails(req[p])'
    BY DEF SnapshotTrails, OnRound
  <2>1. req'[p] = req[p]
    BY <1>1, <1>4 DEF TypeInv, TypeOK
  <2> QED BY <1>2, <2>1, TrailsKept
<1> QED BY <1>2, <1>5 DEF SealInv

(* Every later step of a request keeps the seal invariant.                 *)
LEMMA ContinueSeals ==
  ASSUME TypeInv, SealInv, NEW r \in Requests, Continue(r)
  PROVE  SealInv'
<1>1. CASE CheckSave(r) \/ CheckSubmit(r) \/ CheckTransition(r) \/ CheckDefer(r)
  BY <1>1, ReadSeals
     DEF CheckSave, CheckSubmit, CheckTransition, CheckDefer, Step, OnRound
<1>2. CASE StartLink(r) \/ CommitSkip(r) \/ Reject(r) \/ Crash(r)
  <2>1. entry' = entry /\ counter' = counter /\ orders' = orders /\ Finish(r)
    BY <1>2 DEF StartLink, CommitSkip, Reject, Crash, rows
  <2> QED BY <2>1, QuietRows, TrailsAfterFinish DEF SealInv
<1> QED
  BY <1>1, <1>2, DraftWriteSeals, SubmitSeals, TransitionSeals, VoidSeals,
     StartSeals DEF Continue

(* Every step keeps the seal invariant.                                    *)
LEMMA SealStep ==
  ASSUME TypeInv, SealInv, [Next]_vars PROVE SealInv'
<1>1. ASSUME NEW e \in Entries, NEW d \in Date, Create(e, d) PROVE SealInv'
  <2>1. /\ entry[e].status = "ABSENT" /\ entry' = [entry EXCEPT ![e] = NewRow(e, d)]
        /\ counter' = counter /\ orders' = orders /\ req' = req
    BY <1>1 DEF Create
  <2>2. /\ AbsentIsBlank' /\ FolioUnique' /\ SealGate' /\ OrderOnlyForSealed'
        /\ \A f \in Entries : /\ entry[f].sealed => entry'[f].sealed
                              /\ entry[f].status # "ABSENT" => entry'[f].status # "ABSENT"
    BY <2>1, FreshRow
  <2>3. \A p \in Requests : SnapshotTrails(req[p])'
    BY <2>1, <2>2, TrailsKept DEF SnapshotTrails
  <2> QED BY <2>2, <2>3 DEF SealInv
<1>2. CASE \/ UNCHANGED vars
           \/ \E e \in Entries : Settles(e)
  <2>1. entry' = entry /\ counter' = counter /\ orders' = orders /\ req' = req
    BY <1>2, SettlesQuiet DEF vars, rows
  <2> QED BY <2>1 DEF SealInv, AbsentIsBlank, FolioUnique, SealGate,
                      OrderOnlyForSealed, SnapshotTrails, OnRound
<1> QED BY <1>1, <1>2, BeginSeals, ContinueSeals DEF Next

(* Nothing is sealed in the empty database.                                *)
LEMMA SealInit == Init => SealInv
<1> SUFFICES ASSUME Init PROVE SealInv
  OBVIOUS
<1>1. Absent.folio = 0 /\ ~Absent.sealed /\ Absent.cur = None /\ Absent.status = "ABSENT"
  BY DEF Absent
<1>2. \A r \in Requests : req[r].pc = "idle"
  BY DEF Init, Idle
<1> QED
  BY <1>1, <1>2 DEF Init, SealInv, AbsentIsBlank, FolioUnique, SealGate,
                    OrderOnlyForSealed, SnapshotTrails

(* IInv is inductive, and an invariant however requests overlap and stop.  *)
THEOREM Inductive == Spec => []IInv
<1>1. Init => IInv
  BY TypeInit, SealInit DEF IInv
<1>2. IInv /\ [Next]_vars => IInv'
  BY TypeStep, SealStep DEF IInv
<1> QED BY <1>1, <1>2, PTL DEF Spec

(* Two entries never get the same folio, and none is ahead of the counter, *)
(* although the handlers decide whether to number from a stale row.        *)
THEOREM FoliosAreUnique == Spec => []FolioUnique
<1>1. IInv => FolioUnique
  BY DEF IInv, SealInv
<1> QED BY <1>1, Inductive, PTL

(* No entry leaves its initial stage or is SUBMITTED without the seal, and *)
(* with the seal comes the folio.                                          *)
THEOREM NoBypassOfTheSeal == Spec => []SealGate
<1>1. IInv => SealGate
  BY DEF IInv, SealInv
<1> QED BY <1>1, Inductive, PTL

(* The rule worker is only ever given orders of sealed entries.            *)
THEOREM OrdersAreSealed == Spec => []OrderOnlyForSealed
<1>1. IInv => OrderOnlyForSealed
  BY DEF IInv, SealInv
<1> QED BY <1>1, Inductive, PTL

-----------------------------------------------------------------------------
(* Rounds                                                                  *)

(* The only steps that change an occurrence: sealing or voiding its entry, *)
(* linking it to a new one, and skipping it.                               *)
LEMMA RoundChanges ==
  ASSUME TypeInv, Next
  PROVE  \/ UNCHANGED round
         \/ \E e \in Entries : round' = FulfilRound(e)
         \/ \E e \in Entries : round' = ReleasedRounds(e)
         \/ \E o \in Rounds, e \in Entries : round' = [round EXCEPT ![o].link = e]
         \/ \E o \in Rounds : round' = [round EXCEPT ![o].status = "SKIPPED"]
<1>1. ASSUME NEW r \in Requests, Begin(r) PROVE UNCHANGED round
  <2>1. CASE \E o \in Rounds, kind \in {"start", "skip"} : LoadRound(r, o, kind)
    BY <2>1 DEF LoadRound, rows
  <2>2. CASE \E e, op : Load(r, e, op)
    BY <2>2 DEF Load, rows
  <2> QED BY <1>1, <2>1, <2>2 DEF Begin, LoadSave, LoadSubmit, LoadTransition, LoadDefer, LoadVoid
<1>2. ASSUME NEW r \in Requests, \/ CommitSave(r) \/ CommitDefer(r) \/ VoidRow(r)
                                \/ VoidPurge(r) \/ Reject(r) \/ Crash(r)
                                \/ CheckSave(r) \/ CheckSubmit(r) \/ CheckTransition(r)
                                \/ CheckDefer(r) \/ \E e \in Entries : StartCreate(r, e)
      PROVE  UNCHANGED round
  <2>1. CASE CommitSave(r)
    BY <2>1 DEF CommitSave
  <2>2. CASE CommitDefer(r)
    BY <2>2 DEF CommitDefer
  <2>3. CASE VoidRow(r) \/ VoidPurge(r)
    BY <2>3 DEF VoidRow, VoidPurge
  <2>4. CASE \/ Reject(r) \/ Crash(r) \/ CheckSave(r) \/ CheckSubmit(r)
             \/ CheckTransition(r) \/ CheckDefer(r)
    BY <2>4 DEF Reject, Crash, CheckSave, CheckSubmit, CheckTransition, CheckDefer, rows
  <2>5. CASE \E e \in Entries : StartCreate(r, e)
    BY <2>5 DEF StartCreate
  <2> QED BY <1>2, <2>1, <2>2, <2>3, <2>4, <2>5
<1>3. ASSUME NEW r \in Requests, CommitSubmit(r) \/ CommitTransition(r)
      PROVE  UNCHANGED round \/ round' = FulfilRound(req[r].e)
  BY <1>3 DEF CommitSubmit, CommitTransition, SealEffects
<1>4. ASSUME NEW r \in Requests, VoidUnlink(r) PROVE round' = ReleasedRounds(req[r].e)
  BY <1>4 DEF VoidUnlink
<1>5. ASSUME NEW r \in Requests, CommitSubmit(r) \/ CommitTransition(r) \/ VoidUnlink(r)
      PROVE  req[r].e \in Entries
  BY <1>5, StepParts DEF CommitSubmit, CommitTransition, VoidUnlink, Step, OnRound
<1>6. ASSUME NEW r \in Requests, StartLink(r)
      PROVE  \E o \in Rounds, e \in Entries : round' = [round EXCEPT ![o].link = e]
  BY <1>6, StepParts DEF StartLink, Step, OnRound
<1>7. ASSUME NEW r \in Requests, CommitSkip(r)
      PROVE  \E o \in Rounds : round' = [round EXCEPT ![o].status = "SKIPPED"]
  BY <1>7, StepParts DEF CommitSkip, Step, OnRound
<1>8. ASSUME NEW r \in Requests, Continue(r)
      PROVE  \/ UNCHANGED round
             \/ \E e \in Entries : round' = FulfilRound(e)
             \/ \E e \in Entries : round' = ReleasedRounds(e)
             \/ \E o \in Rounds, e \in Entries : round' = [round EXCEPT ![o].link = e]
             \/ \E o \in Rounds : round' = [round EXCEPT ![o].status = "SKIPPED"]
  BY <1>2, <1>3, <1>4, <1>5, <1>6, <1>7, <1>8 DEF Continue
<1>9. ASSUME \/ \E e \in Entries, d \in Date : Create(e, d)
             \/ \E e \in Entries : Settles(e)
      PROVE  UNCHANGED round
  BY <1>9, SettlesQuiet DEF Create
<1> QED BY <1>1, <1>8, <1>9 DEF Next

(* An occurrence that is COMPLETED has an entry, however completing,       *)
(* voiding, starting and skipping interleave.                              *)
THEOREM CompletedRoundsAreLinked == Spec => []CompletedRoundLinked
<1>1. Init => CompletedRoundLinked
  BY DEF Init, CompletedRoundLinked
<1>2. ASSUME TypeInv, CompletedRoundLinked, [Next]_vars
      PROVE  CompletedRoundLinked'
  <2>1. round \in [Rounds -> RoundRow]
    BY <1>2 DEF TypeInv, TypeOK
  <2>2. CASE UNCHANGED round
    BY <1>2, <2>2 DEF CompletedRoundLinked
  <2>3. CASE \E e \in Entries : round' = FulfilRound(e)
    <3>1. PICK e \in Entries : round' = FulfilRound(e)
      BY <2>3
    <3>2. SUFFICES ASSUME NEW o \in Rounds, round'[o].status = "COMPLETED"
                   PROVE  round'[o].link # None
      BY DEF CompletedRoundLinked
    <3>3. round[o] \in RoundRow
      BY <2>1
    <3>4. CASE round[o].link = e /\ round[o].status = "PENDING"
      <4>1. round'[o].link = round[o].link
        BY <3>1, <3>3, <3>4 DEF FulfilRound, RoundRow
      <4> QED BY <3>4, <4>1, NoneAssumption
    <3>5. CASE ~(round[o].link = e /\ round[o].status = "PENDING")
      <4>1. round'[o] = round[o]
        BY <3>1, <3>5 DEF FulfilRound
      <4> QED BY <1>2, <3>2, <4>1 DEF CompletedRoundLinked
    <3> QED BY <3>4, <3>5
  <2>4. CASE \E e \in Entries : round' = ReleasedRounds(e)
    BY <1>2, <2>1, <2>4 DEF CompletedRoundLinked, ReleasedRounds, RoundRow
  <2>5. CASE \E o \in Rounds, e \in Entries : round' = [round EXCEPT ![o].link = e]
    BY <1>2, <2>1, <2>5, NoneAssumption DEF CompletedRoundLinked, RoundRow
  <2>6. CASE \E o \in Rounds : round' = [round EXCEPT ![o].status = "SKIPPED"]
    BY <1>2, <2>1, <2>6 DEF CompletedRoundLinked, RoundRow
  <2>7. CASE UNCHANGED vars
    BY <2>2, <2>7 DEF vars, rows
  <2> QED BY <1>2, <2>2, <2>3, <2>4, <2>5, <2>6, <2>7, RoundChanges
<1>3. Spec => []TypeInv
  <2>1. IInv => TypeInv
    BY DEF IInv
  <2> QED BY Inductive, <2>1, PTL
<1> QED BY <1>1, <1>2, <1>3, PTL DEF Spec
-----------------------------------------------------------------------------
(* What a step can do to one entry, and to one request                     *)

Untouched(e) ==
  /\ entry'[e] = entry[e] /\ section'[e] = section[e] /\ value'[e] = value[e]
  /\ exc'[e] = exc[e] /\ computed'[e] = computed[e] /\ signature'[e] = signature[e]

(* The writes of a request on an entry *)
Writes(r) ==
  \/ CommitSave(r) \/ CommitSubmit(r) \/ CommitTransition(r) \/ CommitDefer(r)
  \/ VoidRow(r) \/ VoidPurge(r)

EntryStep(e) ==
  \/ Untouched(e)
  \/ \E d \in Date : Create(e, d)
  \/ \E r \in Requests : StartCreate(r, e)
  \/ \E r \in Requests : req[r].e = e /\ Writes(r)
  \/ Settles(e)

(* A handler that goes on without ending *)
Checks(r) == CheckSave(r) \/ CheckSubmit(r) \/ CheckTransition(r) \/ CheckDefer(r)
Advances(r) ==
  \/ Begin(r) \/ Checks(r) \/ VoidRow(r) \/ VoidUnlink(r)
  \/ \E e \in Entries : StartCreate(r, e)

(* A request that begins writes no row.                                    *)
LEMMA BeginReads ==
  ASSUME NEW r \in Requests, Begin(r)
  PROVE  UNCHANGED rows /\ \E n : req' = [req EXCEPT ![r] = n]
<1>1. CASE \E o \in Rounds, kind \in {"start", "skip"} : LoadRound(r, o, kind)
  BY <1>1 DEF LoadRound
<1>2. CASE \E e, op : Load(r, e, op)
  BY <1>2 DEF Load
<1> QED
  BY <1>1, <1>2 DEF Begin, LoadSave, LoadSubmit, LoadTransition, LoadDefer, LoadVoid

(* A request writes the rows of its own entry only, or creates one.        *)
LEMMA ContinueWrites ==
  ASSUME TypeInv, NEW r \in Requests, Continue(r)
  PROVE  \/ Writes(r) /\ \A e \in Entries : e # req[r].e => Untouched(e)
         \/ \E e \in Entries : /\ StartCreate(r, e)
                               /\ \A x \in Entries : x # e => Untouched(x)
         \/ ~Writes(r) /\ \A e \in Entries : Untouched(e)
<1>1. CASE CommitSave(r)
  BY <1>1 DEF CommitSave, Writes, Untouched, TypeInv, TypeOK
<1>2. CASE CommitSubmit(r)
  BY <1>2 DEF CommitSubmit, SealEffects, Writes, Untouched, TypeInv, TypeOK
<1>3. CASE CommitTransition(r)
  BY <1>3 DEF CommitTransition, SealEffects, Writes, Untouched, TypeInv, TypeOK
<1>4. CASE CommitDefer(r)
  BY <1>4 DEF CommitDefer, Writes, Untouched, TypeInv, TypeOK
<1>5. CASE VoidRow(r)
  BY <1>5 DEF VoidRow, Writes, Untouched, TypeInv, TypeOK
<1>6. CASE VoidPurge(r)
  BY <1>6 DEF VoidPurge, Writes, Untouched, TypeInv, TypeOK
<1>7. CASE \E e \in Entries : StartCreate(r, e)
  BY <1>7 DEF StartCreate, Untouched, TypeInv, TypeOK
<1>8. CASE ~Writes(r) /\ ~\E e \in Entries : StartCreate(r, e)
  <2>1. CASE Checks(r) \/ Reject(r) \/ Crash(r)
    BY <1>8, <2>1 DEF Checks, CheckSave, CheckSubmit, CheckTransition, CheckDefer,
       Reject, Crash, rows, Untouched
  <2>2. CASE VoidUnlink(r) \/ StartLink(r) \/ CommitSkip(r)
    BY <1>8, <2>2 DEF VoidUnlink, StartLink, CommitSkip, Untouched
  <2> QED BY <1>8, <2>1, <2>2 DEF Continue, Writes, Checks
<1> QED BY <1>1, <1>2, <1>3, <1>4, <1>5, <1>6, <1>7, <1>8 DEF Writes

(* Everything that can happen to an entry.                                 *)
LEMMA EntryCases ==
  ASSUME TypeInv, [Next]_vars, NEW e \in Entries PROVE EntryStep(e)
<1>1. CASE UNCHANGED vars
  BY <1>1 DEF vars, rows, Untouched, EntryStep
<1>2. ASSUME NEW r \in Requests, Begin(r) PROVE EntryStep(e)
  BY <1>2, BeginReads DEF rows, Untouched, EntryStep
<1>3. ASSUME NEW r \in Requests, Continue(r) PROVE EntryStep(e)
  BY <1>3, ContinueWrites DEF EntryStep
<1>4. ASSUME NEW x \in Entries, NEW d \in Date, Create(x, d) PROVE EntryStep(e)
  <2>1. x # e => Untouched(e)
    BY <1>4 DEF Create, Untouched, TypeInv, TypeOK
  <2> QED BY <1>4, <2>1 DEF EntryStep
<1>5. ASSUME NEW x \in Entries, Settles(x) PROVE EntryStep(e)
  <2>1. x # e => Untouched(e)
    <3>1. UNCHANGED <<entry, section, signature>>
      BY <1>5, SettlesQuiet
    <3>2. x # e => value'[e] = value[e] /\ exc'[e] = exc[e] /\ computed'[e] = computed[e]
      BY <1>5 DEF Settles, SettlesEntered, SettlesComputed, Triage, Correct,
         TriageComputed, CorrectComputed, TypeInv, TypeOK
    <3> QED BY <3>1, <3>2 DEF Untouched
  <2> QED BY <1>5, <2>1 DEF EntryStep
<1> QED BY <1>1, <1>2, <1>3, <1>4, <1>5 DEF Next

(* A request stays as it is, ends, or takes its next step.                 *)
LEMMA RequestCases ==
  ASSUME TypeInv, [Next]_vars, NEW p \in Requests
  PROVE  req'[p] = req[p] \/ req'[p] = Idle \/ Advances(p)
<1>1. CASE UNCHANGED vars
  BY <1>1 DEF vars
<1>2. ASSUME NEW r \in Requests, Begin(r)
      PROVE  req'[p] = req[p] \/ Advances(p)
  <2>1. r # p => req'[p] = req[p]
    BY <1>2, BeginReads DEF TypeInv, TypeOK
  <2> QED BY <1>2, <2>1 DEF Advances
<1>3. ASSUME NEW r \in Requests, Finish(r) PROVE req'[p] \in {req[p], Idle}
  BY <1>3 DEF Finish, TypeInv, TypeOK
<1>4. ASSUME NEW r \in Requests, Checks(r) PROVE req'[p] = req[p] \/ Advances(p)
  <2>1. r # p => req'[p] = req[p]
    BY <1>4 DEF Checks, CheckSave, CheckSubmit, CheckTransition, CheckDefer, ReadSections,
       TypeInv, TypeOK
  <2> QED BY <1>4, <2>1 DEF Advances
<1>5. ASSUME NEW r \in Requests, \/ VoidRow(r) \/ VoidUnlink(r)
                                 \/ \E e \in Entries : StartCreate(r, e)
      PROVE  req'[p] = req[p] \/ Advances(p)
  <2>1. r # p => req'[p] = req[p]
    BY <1>5 DEF VoidRow, VoidUnlink, StartCreate, TypeInv, TypeOK
  <2> QED BY <1>5, <2>1 DEF Advances
<1>6. ASSUME NEW r \in Requests, Continue(r)
      PROVE  req'[p] = req[p] \/ req'[p] = Idle \/ Advances(p)
  <2>1. CASE \/ CommitSave(r) \/ CommitSubmit(r) \/ CommitTransition(r) \/ CommitDefer(r)
             \/ VoidPurge(r) \/ StartLink(r) \/ CommitSkip(r) \/ Reject(r) \/ Crash(r)
    <3>1. Finish(r)
      BY <2>1 DEF CommitSave, CommitSubmit, CommitTransition, CommitDefer, VoidPurge,
         StartLink, CommitSkip, Reject, Crash
    <3> QED BY <1>3, <3>1
  <2> QED BY <1>4, <1>5, <1>6, <2>1 DEF Continue, Checks
<1>7. ASSUME \/ \E e \in Entries, d \in Date : Create(e, d)
             \/ \E e \in Entries : Settles(e)
      PROVE  req'[p] = req[p]
  BY <1>7, SettlesQuiet DEF Create
<1> QED BY <1>1, <1>2, <1>6, <1>7 DEF Next

(* What a request holds once it has begun: a free entry whose row is a     *)
(* DRAFT and passed the guards of its kind, or a free pending occurrence.  *)
LoadedEntry(q) ==
  /\ ~OnRound(q) /\ q.e \in Entries /\ q.o = None /\ Free(q.e)
  /\ q.ent = entry[q.e] /\ q.ent.status = "DRAFT"
  /\ q.op.kind = "save" =>
       Editable(q.op.s, q.ent.cur) /\ (q.op.complete => q.op.v # None)
  /\ q.op.kind = "submit" => q.e \notin FlowEntries
  /\ q.op.kind = "transition" => q.e \in FlowEntries
  /\ q.op.kind \in {"defer", "void"} => ~q.ent.sealed
LoadedRound(q) ==
  /\ OnRound(q) /\ q.o \in Rounds /\ q.e = None /\ Free(q.o)
  /\ round[q.o].status = "PENDING" /\ round[q.o].link = None

LEMMA BeginLoads ==
  ASSUME TypeInv, NEW r \in Requests, Begin(r)
  PROVE  \E q : /\ req' = [req EXCEPT ![r] = q] /\ q.pc = "loaded"
                /\ LoadedEntry(q) \/ LoadedRound(q)
<1> DEFINE Goal == \E q : /\ req' = [req EXCEPT ![r] = q] /\ q.pc = "loaded"
                          /\ LoadedEntry(q) \/ LoadedRound(q)
<1>1. ASSUME NEW e \in Entries, NEW op, Load(r, e, op), entry[e].status = "DRAFT",
             op.kind \notin {"start", "skip"},
             op.kind = "save" =>
               Editable(op.s, entry[e].cur) /\ (op.complete => op.v # None),
             op.kind = "submit" => e \notin FlowEntries,
             op.kind = "transition" => e \in FlowEntries,
             op.kind \in {"defer", "void"} => ~entry[e].sealed
      PROVE  Goal
  <2> DEFINE q == [Idle EXCEPT !.pc = "loaded", !.e = e, !.op = op, !.ent = entry[e]]
  <2>1. /\ q.pc = "loaded" /\ q.e = e /\ q.op = op /\ q.ent = entry[e] /\ q.o = None
    BY DEF Idle
  <2>2. req' = [req EXCEPT ![r] = q] /\ Free(e)
    BY <1>1 DEF Load
  <2> HIDE DEF q
  <2>3. LoadedEntry(q)
    BY <1>1, <2>1, <2>2 DEF LoadedEntry, OnRound
  <2> QED BY <2>1, <2>2, <2>3
<1>2. ASSUME NEW e \in Entries, NEW s \in Sections, NEW complete \in BOOLEAN,
             NEW v \in Input(s), LoadSave(r, e, s, v, complete)
      PROVE  Goal
  BY <1>1, <1>2 DEF LoadSave, SaveAllowed
<1>3. ASSUME NEW e \in Entries, LoadSubmit(r, e) PROVE Goal
  BY <1>1, <1>3 DEF LoadSubmit
<1>4. ASSUME NEW e \in Entries, NEW t \in Transitions, LoadTransition(r, e, t) PROVE Goal
  BY <1>1, <1>4 DEF LoadTransition
<1>5. ASSUME NEW e \in Entries, NEW d \in Date, LoadDefer(r, e, d) PROVE Goal
  BY <1>1, <1>5 DEF LoadDefer, Unsealed
<1>6. ASSUME NEW e \in Entries, LoadVoid(r, e) PROVE Goal
  BY <1>1, <1>6 DEF LoadVoid, Unsealed
<1>7. ASSUME NEW o \in Rounds, NEW kind \in {"start", "skip"}, LoadRound(r, o, kind)
      PROVE  Goal
  <2> DEFINE q == [Idle EXCEPT !.pc = "loaded", !.o = o, !.op = [kind |-> kind]]
  <2>1. q.pc = "loaded" /\ q.e = None /\ q.o = o /\ OnRound(q)
    BY DEF Idle, OnRound
  <2>2. /\ req' = [req EXCEPT ![r] = q] /\ Free(o)
        /\ round[o].status = "PENDING" /\ round[o].link = None
    BY <1>7 DEF LoadRound
  <2> HIDE DEF q
  <2>3. LoadedRound(q)
    BY <2>1, <2>2 DEF LoadedRound
  <2> QED BY <2>1, <2>2, <2>3
<1> QED BY <1>2, <1>3, <1>4, <1>5, <1>6, <1>7 DEF Begin

(* A request that goes on does so with the same target, and with what it   *)
(* had loaded.                                                             *)
LEMMA AdvanceKeeps ==
  ASSUME TypeInv, NEW r \in Requests, Checks(r) \/ VoidRow(r) \/ VoidUnlink(r)
  PROVE  /\ req[r].pc # "idle" /\ ~OnRound(req[r]) /\ req[r].e \in Entries
         /\ \E q : /\ req' = [req EXCEPT ![r] = q]
                   /\ q.e = req[r].e /\ q.o = req[r].o /\ q.op = req[r].op
                   /\ q.ent = req[r].ent
                   /\ Checks(r) => /\ req[r].pc = "loaded" /\ q.pc = "ready"
                                   /\ q.sec = section[q.e] /\ q.val = value[q.e]
                                   /\ UNCHANGED rows
                   /\ VoidRow(r) => req[r].pc = "loaded" /\ q.pc = "unlink"
                   /\ VoidUnlink(r) => req[r].pc = "unlink" /\ q.pc = "purge"
<1>1. req[r].pc # "idle" /\ ~OnRound(req[r])
  BY DEF Checks, CheckSave, CheckSubmit, CheckTransition, CheckDefer, VoidRow,
     VoidUnlink, Step, OnRound
<1>2. req[r] \in InFlight /\ req[r].e \in Entries
  BY <1>1, StepParts, InFlightParts
<1>3. CASE Checks(r)
  <2> DEFINE e == req[r].e
             q == [req[r] EXCEPT !.pc = "ready", !.sec = section[e], !.val = value[e]]
  <2>1. req' = [req EXCEPT ![r] = q] /\ req[r].pc = "loaded" /\ UNCHANGED rows
    BY <1>3 DEF Checks, CheckSave, CheckSubmit, CheckTransition, CheckDefer, Step,
       ReadSections
  <2>2. /\ q.pc = "ready" /\ q.e = e /\ q.o = req[r].o /\ q.op = req[r].op
        /\ q.ent = req[r].ent /\ q.sec = section[e] /\ q.val = value[e]
    BY <1>2 DEF InFlight
  <2>3. ~VoidRow(r) /\ ~VoidUnlink(r)
    BY <1>3 DEF Checks, CheckSave, CheckSubmit, CheckTransition, CheckDefer, Step,
       VoidRow, VoidUnlink
  <2> QED BY <1>1, <1>2, <2>1, <2>2, <2>3
<1>4. ASSUME NEW pc \in {"unlink", "purge"}, req' = [req EXCEPT ![r].pc = pc]
      PROVE  \E q : /\ req' = [req EXCEPT ![r] = q] /\ q.pc = pc
                    /\ q.e = req[r].e /\ q.o = req[r].o /\ q.op = req[r].op
                    /\ q.ent = req[r].ent
  <2> DEFINE q == [req[r] EXCEPT !.pc = pc]
  <2>1. /\ q.pc = pc /\ q.e = req[r].e /\ q.o = req[r].o /\ q.op = req[r].op
        /\ q.ent = req[r].ent
    BY <1>2 DEF InFlight
  <2>2. req' = [req EXCEPT ![r] = q]
    BY <1>4 DEF TypeInv, TypeOK
  <2> QED BY <2>1, <2>2
<1>5. CASE VoidRow(r)
  <2>1. req' = [req EXCEPT ![r].pc = "unlink"] /\ req[r].pc = "loaded"
        /\ ~Checks(r) /\ ~VoidUnlink(r)
    BY <1>5 DEF VoidRow, Step, VoidUnlink, Checks, CheckSave, CheckSubmit,
       CheckTransition, CheckDefer
  <2> QED BY <1>1, <1>2, <1>4, <2>1
<1>6. CASE VoidUnlink(r)
  <2>1. req' = [req EXCEPT ![r].pc = "purge"] /\ req[r].pc = "unlink"
        /\ ~Checks(r) /\ ~VoidRow(r)
    BY <1>6 DEF VoidRow, Step, VoidUnlink, Checks, CheckSave, CheckSubmit,
       CheckTransition, CheckDefer
  <2> QED BY <1>1, <1>2, <1>4, <2>1
<1> QED BY <1>3, <1>5, <1>6

(* The row a new draft takes, whoever creates it.                          *)
LEMMA CreatedRow ==
  ASSUME TypeInv, NEW e \in Entries, NEW r,
         (\E d \in Date : Create(e, d)) \/ StartCreate(r, e)
  PROVE  /\ entry[e].status = "ABSENT"
         /\ \E d \in Date : entry'[e] = NewRow(e, d)
         /\ entry'[e].status = "DRAFT" /\ ~entry'[e].sealed /\ entry'[e].folio = 0
<1>1. entry[e].status = "ABSENT" /\ \E d \in Date : entry'[e] = NewRow(e, d)
  BY DEF Create, StartCreate, Date, TypeInv, TypeOK
<1> QED BY <1>1, NewRowType

-----------------------------------------------------------------------------
(* The signer                                                              *)

(* A submit is only ever of an entry without workflow.                     *)
FormOnly ==
  \A r \in Requests : req[r].pc # "idle" /\ req[r].op.kind = "submit" =>
    req[r].e \notin FlowEntries

(* Events are queued and never taken back by the handlers.                 *)
LEMMA EventsGrow ==
  ASSUME [Next]_vars PROVE events \subseteq events'
<1>1. CASE UNCHANGED vars
  BY <1>1 DEF vars, rows
<1>2. ASSUME NEW r \in Requests, Begin(r) PROVE events' = events
  BY <1>2, BeginReads DEF rows
<1>3. ASSUME NEW r \in Requests, Continue(r) PROVE events \subseteq events'
  <2>1. CASE CommitTransition(r)
    BY <2>1 DEF CommitTransition
  <2>2. CASE \/ CommitSave(r) \/ CommitSubmit(r) \/ CommitDefer(r)
             \/ VoidRow(r) \/ VoidUnlink(r) \/ VoidPurge(r)
    BY <2>2 DEF CommitSave, CommitSubmit, CommitDefer, VoidRow, VoidUnlink, VoidPurge
  <2>3. CASE \/ StartLink(r) \/ CommitSkip(r) \/ \E e \in Entries : StartCreate(r, e)
    BY <2>3 DEF StartLink, CommitSkip, StartCreate
  <2>4. CASE Checks(r) \/ Reject(r) \/ Crash(r)
    BY <2>4 DEF Checks, CheckSave, CheckSubmit, CheckTransition, CheckDefer,
       Reject, Crash, rows
  <2> QED BY <1>3, <2>1, <2>2, <2>3, <2>4 DEF Continue, Checks
<1>4. ASSUME \/ \E e \in Entries, d \in Date : Create(e, d)
             \/ \E e \in Entries : Settles(e)
      PROVE  events' = events
  BY <1>4, SettlesQuiet DEF Create
<1> QED BY <1>1, <1>2, <1>3, <1>4 DEF Next
LEMMA FormOnlyStep ==
  ASSUME TypeInv, FormOnly, [Next]_vars PROVE FormOnly'
<1> SUFFICES ASSUME NEW p \in Requests, req'[p].pc # "idle", req'[p].op.kind = "submit"
             PROVE  req'[p].e \notin FlowEntries
  BY DEF FormOnly
<1>1. req \in [Requests -> InFlight \cup {Idle}]
  BY DEF TypeInv, TypeOK
<1>2. CASE req'[p] = req[p]
  BY <1>2 DEF FormOnly
<1>3. CASE req'[p] = Idle
  BY <1>3 DEF Idle
<1>4. CASE Begin(p)
  <2>1. PICK q : /\ req' = [req EXCEPT ![p] = q]
                 /\ LoadedEntry(q) \/ LoadedRound(q)
    BY <1>4, BeginLoads
  <2> QED BY <1>1, <2>1 DEF LoadedEntry, LoadedRound, OnRound
<1>5. CASE Checks(p) \/ VoidRow(p) \/ VoidUnlink(p)
  <2>1. PICK q : /\ req' = [req EXCEPT ![p] = q]
                 /\ q.e = req[p].e /\ q.op = req[p].op
    BY <1>5, AdvanceKeeps
  <2>2. req[p].pc # "idle"
    BY <1>5, AdvanceKeeps
  <2> QED BY <1>1, <2>1, <2>2 DEF FormOnly
<1>6. CASE \E e \in Entries : StartCreate(p, e)
  <2>1. req[p].op.kind = "start" /\ req[p] \in InFlight
    BY <1>6, InFlightParts DEF StartCreate, Step, Idle
  <2>2. req'[p].op = req[p].op
    BY <1>1, <1>6, <2>1 DEF StartCreate, InFlight
  <2> QED BY <2>1, <2>2
<1> QED BY <1>2, <1>3, <1>4, <1>5, <1>6, RequestCases DEF Advances

(* An entry that is moved to a stage that only a signature can leave has   *)
(* its signature.pending event queued, also when transitions of it, saves  *)
(* and voids overlap or the process stops.                                 *)
THEOREM SignersAreAlerted == Spec => []SignerAlerted
<1> DEFINE Pending(e, st) == [kind |-> "entry.signature.pending", e |-> e, state |-> st]
<1>1. Init => FormOnly /\ SignerAlerted
  BY DEF Init, FormOnly, SignerAlerted, Idle, Absent
<1>2. ASSUME TypeInv, FormOnly, SignerAlerted, [Next]_vars
      PROVE  SignerAlerted'
  <2> SUFFICES ASSUME NEW e \in Entries, e \in FlowEntries, entry'[e].sealed,
                      NeedsSignature(entry'[e].cur), entry'[e].cur \notin FinalStates
               PROVE  Pending(e, entry'[e].cur) \in events'
    BY DEF SignerAlerted
  <2>0. entry[e] \in EntryRow
    BY <1>2 DEF TypeInv, TypeOK
  <2>1. CASE entry'[e].sealed = entry[e].sealed /\ entry'[e].cur = entry[e].cur
    BY <1>2, <2>1, EventsGrow DEF SignerAlerted
  <2>2. ASSUME NEW r \in Requests, req[r].e = e, CommitTransition(r)
        PROVE  Pending(e, entry'[e].cur) \in events'
    <3> DEFINE q == req[r]
               moved == MovedRow(entry[e], q)
    <3>1. moved.cur = q.op.t.to
      BY <2>0 DEF MovedRow, EntryRow
    <3>2. SealedRow(moved, q).cur = q.op.t.to
      BY <2>0 DEF SealedRow, MovedRow, EntryRow
    <3>3. entry'[e] \in {moved, SealedRow(moved, q)}
      BY <1>2, <2>2 DEF CommitTransition, TypeInv, TypeOK
    <3>4. entry'[e].cur = q.op.t.to
      BY <3>1, <3>2, <3>3
    <3>5. events' = events \cup TransitionEvents(q)
      BY <2>2 DEF CommitTransition
    <3> QED BY <2>2, <3>4, <3>5 DEF TransitionEvents
  <2>3. ASSUME NEW r \in Requests, req[r].e = e, CommitSubmit(r) PROVE FALSE
    BY <1>2, <2>3 DEF CommitSubmit, Step, FormOnly
  <2>4. ASSUME NEW r \in Requests, req[r].e = e,
               CommitSave(r) \/ CommitDefer(r) \/ VoidRow(r) \/ VoidPurge(r)
        PROVE  entry'[e].sealed = entry[e].sealed /\ entry'[e].cur = entry[e].cur
    <3>1. CASE CommitSave(r)
      <4>1. entry'[e] = SavedRow(entry[e], req[r])
        BY <1>2, <2>4, <3>1 DEF CommitSave, TypeInv, TypeOK
      <4> QED BY <2>0, <4>1 DEF SavedRow, EntryRow
    <3>2. CASE CommitDefer(r)
      <4>1. entry'[e] = [entry[e] EXCEPT !.declared = req[r].op.d,
                                         !.eff = DeferredEff(req[r])]
        BY <1>2, <2>4, <3>2 DEF CommitDefer, TypeInv, TypeOK
      <4> QED BY <2>0, <4>1 DEF EntryRow
    <3>3. CASE VoidRow(r) \/ VoidPurge(r)
      <4>1. entry'[e] = entry[e] \/ entry'[e] = [entry[e] EXCEPT !.status = "VOID"]
        BY <1>2, <2>4, <3>3 DEF VoidRow, VoidPurge, TypeInv, TypeOK
      <4> QED BY <2>0, <4>1 DEF EntryRow
    <3> QED BY <2>4, <3>1, <3>2, <3>3
  <2>5. ASSUME NEW r \in Requests, (\E d \in Date : Create(e, d)) \/ StartCreate(r, e)
        PROVE  FALSE
    BY <1>2, <2>5, CreatedRow
  <2>6. CASE Settles(e)
    <3>1. entry' = entry
      BY <2>6, SettlesQuiet
    <3> QED BY <2>1, <3>1
  <2>7. CASE Untouched(e)
    BY <2>1, <2>7 DEF Untouched
  <2>8. CASE \E d \in Date : Create(e, d)
    BY <1>2, <2>8, CreatedRow
  <2> QED
    BY <1>2, <2>1, <2>2, <2>3, <2>4, <2>5, <2>6, <2>7, <2>8, EntryCases
       DEF EntryStep, Writes
<1>3. Spec => []TypeInv
  BY TypeInit, TypeStep, PTL DEF Spec
<1>4. Spec => []FormOnly
  BY <1>1, <1>3, FormOnlyStep, PTL DEF Spec
<1> QED BY <1>1, <1>2, <1>3, <1>4, PTL DEF Spec

-----------------------------------------------------------------------------
(* The refinement: while requests on one entry follow each other, every    *)
(* step of the service is a step of the record that GxpRecord promises, or *)
(* leaves the record alone.                                                *)

(* A step that is about the entry e *)
Others(e) ==
  \A x \in Entries \ {e} :
    /\ entry'[x] = entry[x] /\ value'[x] = value[x] /\ exc'[x] = exc[x]
    /\ computed'[x] = computed[x]

LEMMA OnlyOne ==
  ASSUME NEW e \in Entries, Others(e) PROVE Record!Only(e)
<1> SUFFICES ASSUME NEW x \in Entries \ {e} PROVE Record!Row(x)' = Record!Row(x)
  BY DEF Record!Only
<1>1. /\ entry'[x] = entry[x] /\ value'[x] = value[x] /\ exc'[x] = exc[x]
      /\ computed'[x] = computed[x]
  BY DEF Others
<1>2. RecordState(x)' = RecordState(x)
  BY <1>1 DEF RecordState
<1>3. Flags(x)' = Flags(x)
  BY <1>1 DEF Flags, Provisional
<1>4. Record!Row(x) = <<RecordState(x), entry[x].folio,
                        <<entry[x].eff, entry[x].declared>>, Content(x), Flags(x)>>
  BY DEF Record!Row
<1>5. Record!Row(x)' = <<RecordState(x)', entry'[x].folio,
                         <<entry'[x].eff, entry'[x].declared>>, Content(x)', Flags(x)'>>
  BY DEF Record!Row
<1>6. Content(x)' = Content(x)
  BY <1>1 DEF Content
<1> QED
  BY <1>1, <1>2, <1>3, <1>4, <1>5, <1>6

(* The steps of the record, as the rows show them *)
LEMMA AsOpen ==
  ASSUME NEW e \in Entries, Others(e), counter' = counter,
         entry[e].status = "ABSENT", entry'[e].status = "DRAFT", ~entry'[e].sealed,
         entry'[e].folio = entry[e].folio
  PROVE  Record!Next
<1>1. Record!Open(e)
  BY OnlyOne DEF Record!Open, Record!Moves, Record!Numberless, RecordState
<1> QED BY <1>1 DEF Record!Next

LEMMA AsAmend ==
  ASSUME NEW e \in Entries, Others(e), counter' = counter,
         entry[e].status = "DRAFT", ~entry[e].sealed,
         entry'[e].status = "DRAFT", ~entry'[e].sealed,
         entry'[e].folio = entry[e].folio
  PROVE  Record!Next
<1>1. Record!Amend(e)
  BY OnlyOne DEF Record!Amend, Record!Moves, Record!Numberless, RecordState
<1> QED BY <1>1 DEF Record!Next

LEMMA AsVoid ==
  ASSUME NEW e \in Entries, Others(e), counter' = counter,
         Content(e)' = Content(e),
         entry[e].status = "DRAFT", ~entry[e].sealed,
         entry'[e].status = "VOID", entry'[e].folio = entry[e].folio
  PROVE  Record!Next
<1>1. Record!Void(e)
  BY OnlyOne DEF Record!Void, Record!Moves, Record!Numberless, RecordState
<1> QED BY <1>1 DEF Record!Next

LEMMA AsSeal ==
  ASSUME NEW e \in Entries, Others(e), value' = value,
         entry[e].status = "DRAFT", ~entry[e].sealed,
         entry'[e].status \in {"DRAFT", "SUBMITTED"}, entry'[e].sealed,
         IF e \in FolioEntries
           THEN counter' = counter + 1 /\ entry'[e].folio = counter + 1
           ELSE counter' = counter /\ entry'[e].folio = entry[e].folio
  PROVE  Record!Next
<1>1. Record!Moves(e, "open", "sealed") \/ Record!Moves(e, "open", "closed")
  BY OnlyOne DEF Record!Moves, RecordState
<1>2. \A f \in Fields \ {CalcField} : Content(e)'[f] = Content(e)[f]
  BY DEF Content, Fields
<1>3. Record!Seal(e)
  BY <1>1, <1>2 DEF Record!Seal, Record!Numberless
<1> QED BY <1>3 DEF Record!Next

LEMMA AsFill ==
  ASSUME NEW e \in Entries, Others(e), counter' = counter,
         entry[e].status = "DRAFT", entry[e].sealed,
         entry'[e].status = "DRAFT", entry'[e].sealed,
         entry'[e].folio = entry[e].folio,
         entry'[e].eff = entry[e].eff, entry'[e].declared = entry[e].declared,
         computed'[e].value = computed[e].value
  PROVE  Record!Next
<1>1. \A f \in {CalcField} : Content(e)'[f] = Content(e)[f]
  BY DEF Content, Fields
<1>2. Record!Fill(e)
  BY <1>1, OnlyOne DEF Record!Fill, Record!Moves, Record!Numberless, RecordState
<1> QED BY <1>2 DEF Record!Next

LEMMA AsClose ==
  ASSUME NEW e \in Entries, Others(e), counter' = counter,
         Content(e)' = Content(e),
         entry[e].status = "DRAFT", entry[e].sealed, entry'[e].status = "SUBMITTED",
         entry'[e].folio = entry[e].folio,
         entry'[e].eff = entry[e].eff, entry'[e].declared = entry[e].declared
  PROVE  Record!Next
<1>1. Record!Close(e)
  BY OnlyOne DEF Record!Close, Record!Moves, Record!Numberless, RecordState
<1> QED BY <1>1 DEF Record!Next

LEMMA AsSettle ==
  ASSUME NEW e \in Entries, Others(e), counter' = counter, entry' = entry,
         Flags(e)' \subseteq Flags(e),
         \A f \in Fields : Content(e)'[f] # Content(e)[f] => f \in Flags(e) \ Flags(e)'
  PROVE  Record!Next
<1>1. RecordState(e)' = RecordState(e)
  BY DEF RecordState
<1>2. Record!Settle(e)
  BY <1>1, OnlyOne DEF Record!Settle, Record!Moves, Record!Numberless
<1> QED BY <1>2 DEF Record!Next

(* What leaves entries, values, exceptions and counter alone *)
LEMMA AsStutter ==
  ASSUME UNCHANGED <<entry, value, exc, computed, counter>> PROVE UNCHANGED Record!vars
<1>1. \A e \in Entries : RecordState(e)' = RecordState(e)
  BY DEF RecordState
<1>2. \A e \in Entries : Flags(e)' = Flags(e) /\ Content(e)' = Content(e)
  BY DEF Flags, Provisional, Content
<1> QED BY <1>1, <1>2 DEF Record!vars

LEMMA AsInit == Init => Record!Init
<1> SUFFICES ASSUME Init PROVE Record!Init
  OBVIOUS
<1>1. \A e \in Entries : RecordState(e) = "none" /\ entry[e].folio = 0
  BY DEF Init, Absent, RecordState
<1>2. \A e \in Entries : Flags(e) = {}
  BY DEF Init, NoExc, Flags, Provisional
<1> QED BY <1>1, <1>2 DEF Init, Record!Init

(* The strengthening that holds in this case: requests on entries have an  *)
(* entry each, what they read of it is what it is until they write, and a  *)
(* form without workflow is closed as it is sealed.                        *)
Holds(q) == q.pc # "idle" /\ ~OnRound(q)
Uncommitted(q) == Holds(q) /\ q.pc \in {"loaded", "ready"}
Current(q) ==
  /\ q.ent = entry[q.e] /\ q.ent.status = "DRAFT"
  /\ q.op.kind = "submit" => q.e \notin FlowEntries
  /\ q.op.kind = "transition" => q.e \in FlowEntries
  /\ q.op.kind \in {"defer", "void"} => ~q.ent.sealed
OneEach ==
  \A r, p \in Requests : r # p /\ Holds(req[r]) /\ Holds(req[p]) => req[r].e # req[p].e
UpToDate == \A r \in Requests : Uncommitted(req[r]) => Current(req[r])
FormsClosed ==
  \A e \in Entries \ FlowEntries : entry[e].sealed => entry[e].status = "SUBMITTED"
SerialInv == OneEach /\ UpToDate /\ FormsClosed

LEMMA SerialInit == Init => SerialInv
  BY DEF Init, SerialInv, OneEach, UpToDate, FormsClosed, Uncommitted, Holds, Idle,
     Absent

(* Nothing of the entries is written, and r ends or takes its next step *)
LEMMA SerialQuiet ==
  ASSUME TypeInv, SerialInv, NEW r \in Requests, entry' = entry,
         NEW q, req' = [req EXCEPT ![r] = q],
         ~Holds(q) \/ /\ Holds(req[r]) /\ q.e = req[r].e /\ q.op = req[r].op
                      /\ q.ent = req[r].ent
                      /\ Uncommitted(q) => Uncommitted(req[r])
  PROVE  SerialInv'
<1>1. \A p \in Requests : req'[p] = IF p = r THEN q ELSE req[p]
  BY DEF TypeInv, TypeOK
<1>2. OneEach'
  BY <1>1 DEF SerialInv, OneEach, Holds
<1>3. UpToDate'
  BY <1>1 DEF SerialInv, UpToDate, Uncommitted, Holds, Current
<1> QED BY <1>2, <1>3 DEF SerialInv, FormsClosed

(* r writes its entry, or one that was not there, and has no more to write *)
(* of it                                                                   *)
LEMMA SerialWrite ==
  ASSUME IInv, SerialInv, NEW r \in Requests,
         NEW e \in Entries, NEW row, entry' = [entry EXCEPT ![e] = row],
         NEW q, req' = [req EXCEPT ![r] = q], ~Uncommitted(q),
         Holds(q) => Holds(req[r]) /\ q.e = req[r].e,
         entry[e].status = "ABSENT" \/ (Holds(req[r]) /\ e = req[r].e),
         e \notin FlowEntries /\ row.sealed => row.status = "SUBMITTED"
  PROVE  SerialInv'
<1>1. \A p \in Requests : req'[p] = IF p = r THEN q ELSE req[p]
  BY DEF IInv, TypeInv, TypeOK
<1>2. \A x \in Entries : entry'[x] = IF x = e THEN row ELSE entry[x]
  BY DEF IInv, TypeInv, TypeOK
<1>3. OneEach'
  BY <1>1 DEF SerialInv, OneEach, Holds
<1>4. ASSUME NEW p \in Requests, p # r, Uncommitted(req[p])
      PROVE  req[p].e \in Entries /\ req[p].e # e
  <2>1. req[p].e \in Entries /\ entry[req[p].e].status # "ABSENT"
    BY <1>4, StepParts DEF IInv, SealInv, SnapshotTrails, Uncommitted, Holds
  <2>2. Holds(req[r]) => req[p].e # req[r].e
    BY <1>4 DEF SerialInv, OneEach, Uncommitted
  <2> QED BY <2>1, <2>2
<1>5. UpToDate'
  <2> SUFFICES ASSUME NEW p \in Requests, Uncommitted(req'[p]) PROVE Current(req[p])'
    BY DEF UpToDate, Uncommitted, Holds
  <2>1. p # r /\ req'[p] = req[p] /\ Uncommitted(req[p])
    BY <1>1
  <2>2. Current(req[p]) /\ entry'[req[p].e] = entry[req[p].e]
    BY <1>2, <1>4, <2>1 DEF SerialInv, UpToDate
  <2> QED BY <2>1, <2>2 DEF Current
<1>6. FormsClosed'
  BY <1>2 DEF SerialInv, FormsClosed
<1> QED BY <1>3, <1>5, <1>6 DEF SerialInv

Refined == SerialInv' /\ [Record!Next]_(Record!vars)

(* A step that ends a request, or takes it on, and writes nothing *)
LEMMA QuietRefines ==
  ASSUME TypeInv, SerialInv, NEW r \in Requests,
         UNCHANGED <<entry, value, exc, computed, counter>>,
         NEW q, req' = [req EXCEPT ![r] = q],
         ~Holds(q) \/ /\ Holds(req[r]) /\ q.e = req[r].e /\ q.op = req[r].op
                      /\ q.ent = req[r].ent
                      /\ Uncommitted(q) => Uncommitted(req[r])
  PROVE  Refined
<1>1. SerialInv'
  BY SerialQuiet
<1> QED BY <1>1, AsStutter DEF Refined

LEMMA LoadRefines ==
  ASSUME ~MayOverlap, TypeInv, SerialInv, NEW r \in Requests, NEW e \in Entries,
         NEW op, Load(r, e, op), entry[e].status = "DRAFT",
         op.kind = "submit" => e \notin FlowEntries,
         op.kind = "transition" => e \in FlowEntries,
         op.kind \in {"defer", "void"} => ~entry[e].sealed
  PROVE  Refined
<1> DEFINE q == [Idle EXCEPT !.pc = "loaded", !.e = e, !.op = op, !.ent = entry[e]]
<1>1. \A p \in Requests : req'[p] = IF p = r THEN q ELSE req[p]
  BY DEF Load, TypeInv, TypeOK
<1>2. q.e = e /\ q.op = op /\ q.ent = entry[e]
  BY DEF Idle
<1>3. \A p \in Requests : req[p].e # e
  BY DEF Load, Free
<1>4. entry' = entry
  BY DEF Load, rows
<1> HIDE DEF q
<1>5. OneEach'
  BY <1>1, <1>2, <1>3 DEF SerialInv, OneEach, Holds
<1>6. UpToDate'
  <2> SUFFICES ASSUME NEW p \in Requests, Uncommitted(req'[p]) PROVE Current(req[p])'
    BY DEF UpToDate, Uncommitted, Holds
  <2>1. CASE p = r
    BY <1>1, <1>2, <1>4, <2>1 DEF Current
  <2>2. CASE p # r
    BY <1>1, <1>4, <2>2 DEF SerialInv, UpToDate, Current
  <2> QED BY <2>1, <2>2
<1>7. FormsClosed'
  BY <1>4 DEF SerialInv, FormsClosed
<1>8. UNCHANGED <<entry, value, exc, computed, counter>>
  BY DEF Load, rows
<1> QED BY <1>5, <1>6, <1>7, <1>8, AsStutter DEF SerialInv, Refined

LEMMA BeginRefines ==
  ASSUME ~MayOverlap, TypeInv, SerialInv, NEW r \in Requests, Begin(r)
  PROVE  Refined
<1>1. ASSUME NEW e \in Entries, NEW s \in Sections, NEW complete \in BOOLEAN,
             NEW v \in Input(s), LoadSave(r, e, s, v, complete)
      PROVE  Refined
  BY <1>1, LoadRefines DEF LoadSave, SaveAllowed
<1>2. ASSUME NEW e \in Entries, LoadSubmit(r, e)
      PROVE  Refined
  BY <1>2, LoadRefines DEF LoadSubmit
<1>3. ASSUME NEW e \in Entries, NEW t \in Transitions, LoadTransition(r, e, t)
      PROVE  Refined
  BY <1>3, LoadRefines DEF LoadTransition
<1>4. ASSUME NEW e \in Entries, NEW d \in Date, LoadDefer(r, e, d)
      PROVE  Refined
  BY <1>4, LoadRefines DEF LoadDefer, Unsealed
<1>5. ASSUME NEW e \in Entries, LoadVoid(r, e)
      PROVE  Refined
  BY <1>5, LoadRefines DEF LoadVoid, Unsealed
<1>6. ASSUME NEW o \in Rounds, NEW kind \in {"start", "skip"}, LoadRound(r, o, kind)
      PROVE  Refined
  <2> DEFINE q == [Idle EXCEPT !.pc = "loaded", !.o = o, !.op = [kind |-> kind]]
  <2>1. ~Holds(q)
    BY DEF Holds, OnRound, Idle
  <2>2. req' = [req EXCEPT ![r] = q] /\ UNCHANGED <<entry, value, exc, computed, counter>>
    BY <1>6 DEF LoadRound, rows
  <2> HIDE DEF q
  <2> QED BY <2>1, <2>2, QuietRefines
<1> QED BY <1>1, <1>2, <1>3, <1>4, <1>5, <1>6 DEF Begin

(* What a request that is about to write knows of its entry *)
LEMMA AboutToWrite ==
  ASSUME IInv, SerialInv, NEW r \in Requests, Uncommitted(req[r])
  PROVE  /\ req[r].e \in Entries /\ req[r].ent = entry[req[r].e]
         /\ entry[req[r].e] \in EntryRow /\ entry[req[r].e].status = "DRAFT"
         /\ Current(req[r]) /\ Holds(req[r])
         /\ entry[req[r].e].folio # 0
              <=> entry[req[r].e].sealed /\ req[r].e \in FolioEntries
<1>1. Current(req[r]) /\ Holds(req[r])
  BY DEF SerialInv, UpToDate, Uncommitted
<1>2. req[r].e \in Entries
  BY StepParts DEF IInv, Uncommitted, Holds
<1>3. entry[req[r].e] \in EntryRow
  BY <1>2 DEF IInv, TypeInv, TypeOK
<1> QED BY <1>1, <1>2, <1>3 DEF Current, IInv, SealInv, SealGate

LEMMA FinishWrites ==
  ASSUME IInv, SerialInv, NEW r \in Requests, Uncommitted(req[r]), Finish(r),
         NEW row, entry' = [entry EXCEPT ![req[r].e] = row],
         req[r].e \notin FlowEntries /\ row.sealed => row.status = "SUBMITTED"
  PROVE  SerialInv' /\ entry'[req[r].e] = row
<1>1. req[r].e \in Entries /\ Holds(req[r])
  BY AboutToWrite
<1>2. ~Holds(Idle) /\ ~Uncommitted(Idle)
  BY DEF Holds, Uncommitted, Idle
<1>3. SerialInv'
  BY <1>1, <1>2, SerialWrite DEF Finish
<1> QED BY <1>1, <1>3 DEF IInv, TypeInv, TypeOK

LEMMA SaveRefines ==
  ASSUME IInv, SerialInv, NEW r \in Requests, CommitSave(r)
  PROVE  Refined
<1> DEFINE q == req[r]
           row == entry[q.e]
           new == SavedRow(row, q)
<1>1. Uncommitted(q)
  BY DEF CommitSave, Step, Uncommitted, Holds, OnRound
<1>2. /\ q.e \in Entries /\ q.ent = row /\ row \in EntryRow /\ row.status = "DRAFT"
  BY <1>1, AboutToWrite
<1>3. entry' = [entry EXCEPT ![q.e] = new] /\ counter' = counter /\ Finish(r)
  BY DEF CommitSave
<1>4. /\ new.status = "DRAFT" /\ new.sealed = row.sealed /\ new.folio = row.folio
      /\ row.sealed => new = row
  BY <1>2 DEF SavedRow, EntryRow
<1>5. q.e \notin FlowEntries => ~row.sealed
  BY <1>2 DEF SerialInv, FormsClosed
<1> HIDE DEF new
<1>6. SerialInv' /\ entry'[q.e] = new
  BY <1>1, <1>3, <1>4, <1>5, FinishWrites
<1>7. Others(q.e)
  BY <1>2 DEF CommitSave, Others, IInv, TypeInv, TypeOK
<1>8. CASE row.sealed
  <2>1. computed[q.e] \in ComputedRow /\ computed'[q.e] = SavedComputed(computed[q.e], q)
    BY <1>2 DEF CommitSave, IInv, TypeInv, TypeOK
  <2>2. computed'[q.e].value = computed[q.e].value
    BY <1>2, <1>8, <2>1 DEF SavedComputed, Stamped, ComputedRow
  <2>3. Record!Next
    BY <1>2, <1>3, <1>4, <1>6, <1>7, <1>8, <2>2, AsFill
  <2> QED BY <1>6, <2>3 DEF Refined
<1>9. CASE ~row.sealed
  <2>1. Record!Next
    BY <1>2, <1>3, <1>4, <1>6, <1>7, <1>9, AsAmend
  <2> QED BY <1>6, <2>1 DEF Refined
<1> QED BY <1>8, <1>9

(* The two ways to seal *)
LEMMA SealRefines ==
  ASSUME IInv, SerialInv, NEW r \in Requests, Uncommitted(req[r]), Finish(r),
         ~req[r].ent.sealed,
         NEW row, entry' = [entry EXCEPT ![req[r].e] = row],
         SealEffects(req[r]), value' = value,
         row.sealed, row.status \in {"DRAFT", "SUBMITTED"},
         row.folio = IF IssuesFolio(req[r]) THEN counter + 1 ELSE req[r].ent.folio,
         req[r].e \notin FlowEntries => row.status = "SUBMITTED"
  PROVE  Refined
<1> DEFINE q == req[r]
<1>1. /\ q.e \in Entries /\ q.ent = entry[q.e] /\ entry[q.e].status = "DRAFT"
      /\ ~entry[q.e].sealed /\ entry[q.e].folio = 0
  BY AboutToWrite
<1>2. SerialInv' /\ entry'[q.e] = row
  BY FinishWrites
<1>3. Others(q.e)
  BY <1>1 DEF Others, SealEffects, IInv, TypeInv, TypeOK
<1>4. IF q.e \in FolioEntries
        THEN counter' = counter + 1 /\ entry'[q.e].folio = counter + 1
        ELSE counter' = counter /\ entry'[q.e].folio = entry[q.e].folio
  BY <1>1, <1>2 DEF SealEffects, SealedCounter, IssuesFolio
<1>5. Record!Next
  BY <1>1, <1>2, <1>3, <1>4, AsSeal
<1> QED BY <1>2, <1>5 DEF Refined

LEMMA SubmitRefines ==
  ASSUME IInv, SerialInv, NEW r \in Requests, CommitSubmit(r)
  PROVE  Refined
<1> DEFINE q == req[r]
           new == [SealedRow(entry[q.e], q) EXCEPT !.status = "SUBMITTED"]
<1>1. Uncommitted(q)
  BY DEF CommitSubmit, Step, Uncommitted, Holds, OnRound
<1>2. /\ q.e \in Entries /\ q.ent = entry[q.e] /\ entry[q.e] \in EntryRow
      /\ entry[q.e].status = "DRAFT" /\ q.e \notin FlowEntries
  BY <1>1, AboutToWrite DEF CommitSubmit, Step, Current
<1>3. ~q.ent.sealed
  BY <1>2 DEF SerialInv, FormsClosed
<1>4. /\ new.sealed /\ new.status = "SUBMITTED"
      /\ new.folio = IF IssuesFolio(q) THEN counter + 1 ELSE q.ent.folio
  BY <1>2 DEF SealedRow, EntryRow
<1>5. /\ entry' = [entry EXCEPT ![q.e] = new] /\ SealEffects(q)
      /\ value' = value /\ Finish(r)
  BY DEF CommitSubmit
<1> HIDE DEF new
<1> QED BY <1>1, <1>3, <1>4, <1>5, SealRefines

LEMMA TransitionRefines ==
  ASSUME IInv, SerialInv, NEW r \in Requests, CommitTransition(r)
  PROVE  Refined
<1> DEFINE q == req[r]
           moved == MovedRow(entry[q.e], q)
           sealed == SealedRow(moved, q)
<1>1. Uncommitted(q)
  BY DEF CommitTransition, Step, Uncommitted, Holds, OnRound
<1>2. /\ q.e \in Entries /\ q.ent = entry[q.e] /\ entry[q.e] \in EntryRow
      /\ entry[q.e].status = "DRAFT" /\ q.e \in FlowEntries
  BY <1>1, AboutToWrite DEF CommitTransition, Step, Current
<1>3. /\ moved.status \in {"DRAFT", "SUBMITTED"} /\ moved.sealed = entry[q.e].sealed
      /\ moved.folio = entry[q.e].folio /\ moved.eff = entry[q.e].eff
      /\ moved.declared = entry[q.e].declared
  BY <1>2 DEF MovedRow, EntryRow
<1>4. value' = value /\ Finish(r)
  BY DEF CommitTransition
<1>5. CASE SealsHere(q)
  <2>1. entry' = [entry EXCEPT ![q.e] = sealed] /\ SealEffects(q)
    BY <1>5 DEF CommitTransition
  <2>2. /\ sealed.sealed /\ sealed.status \in {"DRAFT", "SUBMITTED"}
        /\ sealed.folio = IF IssuesFolio(q) THEN counter + 1 ELSE q.ent.folio
    BY <1>2, <1>3 DEF SealedRow, MovedRow, EntryRow
  <2>3. ~q.ent.sealed
    BY <1>5 DEF SealsHere
  <2> HIDE DEF sealed, moved
  <2> QED BY <1>1, <1>2, <1>4, <2>1, <2>2, <2>3, SealRefines
<1>6. CASE ~SealsHere(q)
  <2>1. /\ entry' = [entry EXCEPT ![q.e] = moved]
        /\ UNCHANGED <<counter, exc>>
    BY <1>6 DEF CommitTransition
  <2>2. q.ent.sealed
    <3>1. q.op.kind = "transition" /\ q.pc # "idle" /\ ~OnRound(q)
      BY DEF CommitTransition, Step, OnRound
    <3>2. q.op.t \in Transitions /\ q.op.t.from = q.ent.cur
      BY <3>1, StepParts, InFlightParts, OpParts DEF IInv
    <3>3. q.op.t.from \in States
      BY <3>2, FlowAssumption
    <3>4. ~q.ent.sealed => q.ent.cur \in {None, InitialState}
      BY <3>1 DEF IInv, SealInv, SnapshotTrails
    <3> QED BY <1>6, <3>2, <3>3, <3>4, NoneAssumption DEF SealsHere
  <2> HIDE DEF moved
  <2>3. SerialInv' /\ entry'[q.e] = moved
    BY <1>1, <1>2, <1>4, <2>1, FinishWrites
  <2>4. computed' = computed
    <3>1. computed' = [computed EXCEPT ![q.e] = Stamped(computed[q.e], q, q.val)]
      BY <1>6 DEF CommitTransition
    <3>2. Stamped(computed[q.e], q, q.val) = computed[q.e]
      BY <2>2 DEF Stamped
    <3> QED BY <1>2, <3>1, <3>2 DEF IInv, TypeInv, TypeOK
  <2>5. Others(q.e)
    BY <1>2, <1>4, <2>1, <2>4 DEF Others, IInv, TypeInv, TypeOK
  <2>6. PICK e \in Entries : e = q.e
    BY <1>2
  <2>7. Content(e)' = Content(e)
    BY <1>4, <2>4 DEF Content
  <2>8. CASE moved.status = "DRAFT"
    <3>1. Record!Next
      BY <1>2, <1>3, <2>1, <2>2, <2>3, <2>4, <2>5, <2>8, AsFill
    <3> QED BY <2>3, <3>1 DEF Refined
  <2>9. CASE moved.status = "SUBMITTED"
    <3>1. Record!Next
      BY <1>2, <1>3, <2>1, <2>2, <2>3, <2>5, <2>6, <2>7, <2>9, AsClose
    <3> QED BY <2>3, <3>1 DEF Refined
  <2> QED BY <1>3, <2>8, <2>9
<1> QED BY <1>5, <1>6

LEMMA DeferRefines ==
  ASSUME IInv, SerialInv, NEW r \in Requests, CommitDefer(r)
  PROVE  Refined
<1> DEFINE q == req[r]
           new == [entry[q.e] EXCEPT !.declared = q.op.d, !.eff = DeferredEff(q)]
<1>1. Uncommitted(q)
  BY DEF CommitDefer, Step, Uncommitted, Holds, OnRound
<1>2. /\ q.e \in Entries /\ entry[q.e] \in EntryRow
      /\ entry[q.e].status = "DRAFT" /\ ~entry[q.e].sealed
  BY <1>1, AboutToWrite DEF CommitDefer, Step, Current
<1>3. new.status = "DRAFT" /\ ~new.sealed /\ new.folio = entry[q.e].folio
  BY <1>2 DEF EntryRow
<1>4. entry' = [entry EXCEPT ![q.e] = new] /\ Finish(r)
      /\ UNCHANGED <<exc, computed, counter>>
  BY DEF CommitDefer
<1> HIDE DEF new
<1>5. SerialInv' /\ entry'[q.e] = new
  BY <1>1, <1>3, <1>4, FinishWrites
<1>6. \A x \in Entries \ {q.e} : value'[x] = value[x]
  BY DEF CommitDefer, IInv, TypeInv, TypeOK
<1>7. Others(q.e)
  BY <1>2, <1>4, <1>6 DEF Others, IInv, TypeInv, TypeOK
<1>8. Record!Next
  BY <1>2, <1>3, <1>4, <1>5, <1>7, AsAmend
<1> QED BY <1>5, <1>8 DEF Refined

LEMMA VoidRefines ==
  ASSUME IInv, SerialInv, NEW r \in Requests,
         VoidRow(r) \/ VoidUnlink(r) \/ VoidPurge(r)
  PROVE  Refined
<1> DEFINE q == req[r]
<1>1. q.op.kind = "void" /\ q.pc # "idle" /\ ~OnRound(q) /\ Holds(q)
  BY DEF VoidRow, VoidUnlink, VoidPurge, Step, OnRound, Holds
<1>2. q.e \in Entries /\ q \in InFlight
  BY <1>1, StepParts, InFlightParts DEF IInv
<1>3. CASE VoidRow(r)
  <2> DEFINE new == [entry[q.e] EXCEPT !.status = "VOID"]
             next == [q EXCEPT !.pc = "unlink"]
  <2>1. Uncommitted(q)
    BY <1>1, <1>3 DEF VoidRow, Step, Uncommitted
  <2>2. /\ entry[q.e] \in EntryRow /\ entry[q.e].status = "DRAFT"
        /\ ~entry[q.e].sealed
    BY <1>1, <2>1, AboutToWrite DEF Current
  <2>3. new.status = "VOID" /\ ~new.sealed /\ new.folio = entry[q.e].folio
    BY <2>2 DEF EntryRow
  <2>4. /\ entry' = [entry EXCEPT ![q.e] = new] /\ UNCHANGED <<value, exc, computed, counter>>
        /\ req' = [req EXCEPT ![r] = next]
    BY <1>3 DEF VoidRow, IInv, TypeInv, TypeOK
  <2>5. next.e = q.e /\ ~Uncommitted(next)
    BY <1>2 DEF InFlight, Uncommitted
  <2> HIDE DEF new, next
  <2>6. SerialInv'
    BY <1>1, <1>2, <2>3, <2>4, <2>5, SerialWrite
  <2>7. entry'[q.e] = new /\ Others(q.e)
    BY <1>2, <2>4 DEF Others, IInv, TypeInv, TypeOK
  <2>8. PICK e \in Entries : e = q.e
    BY <1>2
  <2>9. Content(e)' = Content(e)
    BY <2>4 DEF Content
  <2>10. Record!Next
    BY <2>2, <2>3, <2>4, <2>7, <2>8, <2>9, AsVoid
  <2> QED BY <2>6, <2>10 DEF Refined
<1>4. CASE VoidUnlink(r)
  <2> DEFINE next == [q EXCEPT !.pc = "purge"]
  <2>1. /\ next.e = q.e /\ next.op = q.op /\ next.ent = q.ent /\ ~Uncommitted(next)
    BY <1>2 DEF InFlight, Uncommitted
  <2>2. /\ req' = [req EXCEPT ![r] = next]
        /\ UNCHANGED <<entry, value, exc, computed, counter>>
    BY <1>4 DEF VoidUnlink, IInv, TypeInv, TypeOK
  <2> HIDE DEF next
  <2> QED BY <1>1, <2>1, <2>2, QuietRefines DEF IInv
<1>5. CASE VoidPurge(r)
  <2>1. ~Holds(Idle)
    BY DEF Holds, Idle
  <2>2. /\ exc' = [exc EXCEPT ![q.e] = Purged(q.e)]
        /\ computed' = [computed EXCEPT ![q.e] = PurgedComputed(computed[q.e])]
        /\ UNCHANGED <<entry, value, counter>> /\ req' = [req EXCEPT ![r] = Idle]
    BY <1>5 DEF VoidPurge, Finish
  <2>3. SerialInv'
    BY <2>1, <2>2, SerialQuiet DEF IInv
  <2>4. Others(q.e)
    BY <2>2 DEF Others, IInv, TypeInv, TypeOK
  <2>5. PICK e \in Entries : e = q.e
    BY <1>2
  <2>6. Flags(e)' = {}
    <3>1. \A s \in Sections : exc'[e][s] = Purged(e)[s]
      BY <2>2, <2>5 DEF IInv, TypeInv, TypeOK
    <3>2. \A s \in Sections : ~Provisional(exc'[e][s])
      BY <3>1 DEF Purged, Provisional, NoExc
    <3>3. ~Provisional(computed'[e].exc)
      <4>1. computed'[e] = PurgedComputed(computed[e]) /\ computed[e] \in ComputedRow
        BY <2>2, <2>5 DEF IInv, TypeInv, TypeOK
      <4> QED BY <4>1 DEF PurgedComputed, Provisional, ComputedRow, NoExc
    <3> QED BY <3>2, <3>3 DEF Flags, Provisional
  <2>7. Content(e)' = Content(e)
    <3>1. computed'[e] = PurgedComputed(computed[e]) /\ computed[e] \in ComputedRow
      BY <2>2, <2>5 DEF IInv, TypeInv, TypeOK
    <3>2. computed'[e].value = computed[e].value
      BY <3>1 DEF PurgedComputed, ComputedRow
    <3> QED BY <2>2, <3>2 DEF Content
  <2>8. Record!Next
    BY <2>2, <2>4, <2>5, <2>6, <2>7, AsSettle
  <2> QED BY <2>3, <2>8 DEF Refined
<1> QED BY <1>3, <1>4, <1>5

(* Starting a round creates the draft of the occurrence, and links it *)
LEMMA StartRefines ==
  ASSUME IInv, SerialInv, NEW r \in Requests, NEW e \in Entries, StartCreate(r, e)
  PROVE  Refined
<1> DEFINE new == NewRow(e, None)
           next == [req[r] EXCEPT !.pc = "link", !.e = e]
<1>1. OnRound(req[r]) /\ req[r].pc # "idle" /\ entry[e].status = "ABSENT"
  BY DEF StartCreate, Step, OnRound
<1>2. req[r] \in InFlight
  BY <1>1, StepParts, InFlightParts DEF IInv
<1>3. entry[e] = Absent
  BY <1>1 DEF IInv, SealInv, AbsentIsBlank
<1>4. new.status = "DRAFT" /\ ~new.sealed /\ new.folio = entry[e].folio
  BY <1>3 DEF NewRow, Absent
<1>5. /\ entry' = [entry EXCEPT ![e] = new] /\ UNCHANGED <<value, exc, computed, counter>>
      /\ req' = [req EXCEPT ![r] = next]
  BY DEF StartCreate
<1>6. ~Holds(next) /\ ~Uncommitted(next)
  BY <1>1, <1>2 DEF InFlight, Holds, Uncommitted, OnRound
<1> HIDE DEF new, next
<1>7. SerialInv'
  BY <1>1, <1>4, <1>5, <1>6, SerialWrite
<1>8. entry'[e] = new /\ Others(e)
  BY <1>5 DEF Others, IInv, TypeInv, TypeOK
<1>9. Record!Next
  BY <1>1, <1>4, <1>5, <1>8, AsOpen
<1> QED BY <1>7, <1>9 DEF Refined

LEMMA RoundRefines ==
  ASSUME IInv, SerialInv, NEW r \in Requests, StartLink(r) \/ CommitSkip(r)
  PROVE  Refined
<1>1. req' = [req EXCEPT ![r] = Idle] /\ UNCHANGED <<entry, value, exc, computed, counter>>
  BY DEF StartLink, CommitSkip, Finish
<1>2. ~Holds(Idle)
  BY DEF Holds, Idle
<1> QED BY <1>1, <1>2, QuietRefines DEF IInv

LEMMA ContinueRefines ==
  ASSUME IInv, SerialInv, NEW r \in Requests, Continue(r)
  PROVE  Refined
<1>1. CASE CheckSave(r) \/ CheckSubmit(r) \/ CheckTransition(r) \/ CheckDefer(r)
  <2> DEFINE e == req[r].e
             next == [req[r] EXCEPT !.pc = "ready", !.sec = section[e], !.val = value[e]]
  <2>1. /\ req[r].pc = "loaded" /\ ~OnRound(req[r])
        /\ req' = [req EXCEPT ![r] = next] /\ UNCHANGED rows
    BY <1>1 DEF CheckSave, CheckSubmit, CheckTransition, CheckDefer, Step, OnRound,
       ReadSections
  <2>2. req[r] \in InFlight
    BY <2>1, StepParts, InFlightParts DEF IInv
  <2>3. /\ next.e = req[r].e /\ next.op = req[r].op /\ next.ent = req[r].ent
    BY <2>2 DEF InFlight
  <2>4. Holds(req[r]) /\ Uncommitted(req[r])
    BY <2>1 DEF Holds, Uncommitted
  <2> HIDE DEF next
  <2> QED BY <2>1, <2>3, <2>4, QuietRefines DEF IInv, rows
<1>2. CASE Reject(r) \/ Crash(r)
  <2>1. req' = [req EXCEPT ![r] = Idle] /\ UNCHANGED <<entry, value, exc, computed, counter>>
    BY <1>2 DEF Reject, Crash, Finish, rows
  <2>2. ~Holds(Idle)
    BY DEF Holds, Idle
  <2> QED BY <2>1, <2>2, QuietRefines DEF IInv
<1> QED
  BY <1>1, <1>2, SaveRefines, SubmitRefines, TransitionRefines, DeferRefines,
     VoidRefines, StartRefines, RoundRefines DEF Continue

(* Steps of the service that no request in flight makes *)
LEMMA CreateRefines ==
  ASSUME IInv, SerialInv, NEW e \in Entries, NEW d \in Date, Create(e, d)
  PROVE  Refined
<1> DEFINE new == NewRow(e, d)
<1>1. entry[e] = Absent /\ entry[e].status = "ABSENT"
  BY DEF Create, IInv, SealInv, AbsentIsBlank
<1>2. new.status = "DRAFT" /\ ~new.sealed /\ new.folio = entry[e].folio
  BY <1>1 DEF NewRow, Absent
<1>3. entry' = [entry EXCEPT ![e] = new] /\ UNCHANGED <<exc, computed, counter, req>>
  BY DEF Create
<1> HIDE DEF new
<1>4. entry'[e] = new /\ \A x \in Entries : x # e => entry'[x] = entry[x]
  BY <1>3 DEF IInv, TypeInv, TypeOK
<1>5. OneEach'
  BY <1>3 DEF SerialInv, OneEach, Holds
<1>6. UpToDate'
  <2> SUFFICES ASSUME NEW p \in Requests, Uncommitted(req[p]) PROVE Current(req[p])'
    BY <1>3 DEF UpToDate, Uncommitted, Holds
  <2>1. Current(req[p]) /\ req[p].e \in Entries /\ entry[req[p].e].status = "DRAFT"
    BY AboutToWrite
  <2> QED BY <1>1, <1>3, <1>4, <2>1 DEF Current
<1>7. FormsClosed'
  BY <1>2, <1>4 DEF SerialInv, FormsClosed
<1>8. \A x \in Entries \ {e} : value'[x] = value[x]
  BY DEF Create, IInv, TypeInv, TypeOK
<1>9. Record!Next
  BY <1>1, <1>2, <1>3, <1>4, <1>8, AsOpen DEF Others
<1> QED BY <1>5, <1>6, <1>7, <1>9 DEF SerialInv, Refined

(* A correction ends the provisional exception of the field it rewrites *)
LEMMA SettledFlags ==
  ASSUME IInv, NEW e \in Entries, Settles(e)
  PROVE  /\ Flags(e)' \subseteq Flags(e)
         /\ \A f \in Fields : Content(e)'[f] # Content(e)[f] => f \in Flags(e) \ Flags(e)'
         /\ Others(e)
<1>0. CalcField \notin Sections
  BY TemplateAssumption
<1>1. ASSUME NEW s \in Sections,
             \/ \E status \in {"ACKNOWLEDGED", "DISMISSED"} : Triage(e, s, status)
             \/ \E v \in Values \cup {None} : Correct(e, s, v)
      PROVE  /\ Flags(e)' \subseteq Flags(e)
             /\ \A f \in Fields :
                  Content(e)'[f] # Content(e)[f] => f \in Flags(e) \ Flags(e)'
             /\ Others(e)
  <2>1. Provisional(exc[e][s]) /\ computed' = computed
    BY <1>1 DEF Triage, Correct
  <2>2. /\ \A x \in Sections \ {s} : exc'[e][x] = exc[e][x] /\ value'[e][x] = value[e][x]
        /\ value' = value \/ exc'[e][s].status = "CORRECTED"
    BY <1>1 DEF Triage, Correct, IInv, TypeInv, TypeOK, Reading, ExcRow
  <2>3. /\ \A x \in Sections : x # s => (Provisional(exc'[e][x]) <=> Provisional(exc[e][x]))
        /\ value' = value \/ ~Provisional(exc'[e][s])
    BY <2>2 DEF Provisional
  <2>4. Flags(e)' \subseteq Flags(e)
    BY <2>1, <2>3 DEF Flags, Provisional
  <2>5. ASSUME NEW f \in Fields, Content(e)'[f] # Content(e)[f]
        PROVE  f \in Flags(e) \ Flags(e)'
    <3>1. f = s /\ value' # value
      BY <2>1, <2>2, <2>5 DEF Content, Fields
    <3> QED BY <1>0, <2>1, <2>3, <3>1 DEF Flags, Provisional
  <2>6. Others(e)
    BY <1>1, <2>1 DEF Triage, Correct, Others, IInv, TypeInv, TypeOK
  <2> QED BY <2>4, <2>5, <2>6
<1>2. ASSUME SettlesComputed(e)
      PROVE  /\ Flags(e)' \subseteq Flags(e)
             /\ \A f \in Fields :
                  Content(e)'[f] # Content(e)[f] => f \in Flags(e) \ Flags(e)'
             /\ Others(e)
  <2>1. computed[e] \in ComputedRow
    BY DEF IInv, TypeInv, TypeOK
  <2>2. Provisional(computed[e].exc) /\ UNCHANGED <<entry, value, exc>>
    BY <1>2 DEF SettlesComputed, TriageComputed, CorrectComputed
  <2>3. /\ computed'[e].value = computed[e].value \/ ~Provisional(computed'[e].exc)
        /\ \A x \in Entries \ {e} : computed'[x] = computed[x]
    BY <1>2, <2>1 DEF SettlesComputed, TriageComputed, CorrectComputed, Provisional,
       ComputedRow, ExcRow, IInv, TypeInv, TypeOK
  <2>4. Flags(e)' \subseteq Flags(e)
    BY <2>2 DEF Flags, Provisional
  <2>5. ASSUME NEW f \in Fields, Content(e)'[f] # Content(e)[f]
        PROVE  f \in Flags(e) \ Flags(e)'
    <3>1. f = CalcField /\ computed'[e].value # computed[e].value
      BY <2>2, <2>5 DEF Content, Fields
    <3> QED BY <1>0, <2>2, <2>3, <3>1 DEF Flags, Provisional
  <2> QED BY <2>2, <2>3, <2>4, <2>5 DEF Others
<1> QED BY <1>1, <1>2 DEF Settles, SettlesEntered

LEMMA ExceptionRefines ==
  ASSUME IInv, SerialInv, NEW e \in Entries, Settles(e) PROVE Refined
<1>1. UNCHANGED <<entry, req, counter>>
  BY SettlesQuiet
<1>2. SerialInv'
  BY <1>1 DEF SerialInv, OneEach, UpToDate, FormsClosed, Uncommitted, Holds, Current
<1>3. Record!Next
  BY <1>1, SettledFlags, AsSettle
<1> QED BY <1>2, <1>3 DEF Refined

LEMMA StepRefines ==
  ASSUME ~MayOverlap, IInv, SerialInv, [Next]_vars PROVE Refined
<1>1. CASE UNCHANGED vars
  <2>1. UNCHANGED <<entry, value, exc, computed, counter, req>>
    BY <1>1 DEF vars, rows
  <2>2. SerialInv'
    BY <2>1 DEF SerialInv, OneEach, UpToDate, FormsClosed, Uncommitted, Holds, Current
  <2> QED BY <2>1, <2>2, AsStutter DEF Refined
<1>2. ASSUME NEW r \in Requests, Begin(r) PROVE Refined
  BY <1>2, BeginRefines DEF IInv
<1>3. ASSUME NEW r \in Requests, Continue(r) PROVE Refined
  BY <1>3, ContinueRefines
<1> QED BY <1>1, <1>2, <1>3, CreateRefines, ExceptionRefines DEF Next

(* While requests on one entry follow each other, and although the process *)
(* may stop between two writes of a request, an entry of any template is   *)
(* the record that GxpRecord promises.                                     *)
THEOREM EntryIsARecord == ~MayOverlap => (Spec => RecordKept)
<1> SUFFICES ASSUME ~MayOverlap PROVE Spec => RecordKept
  OBVIOUS
<1>1. Spec => []IInv
  BY Inductive
<1>2. Init => SerialInv /\ Record!Init
  BY SerialInit, AsInit
<1>3. IInv /\ SerialInv /\ [Next]_vars => SerialInv' /\ [Record!Next]_(Record!vars)
  BY StepRefines DEF Refined
<1> QED BY <1>1, <1>2, <1>3, PTL DEF Spec, RecordKept, Record!Spec

-----------------------------------------------------------------------------
(* What follows from one request at a time on each entry: what a request   *)
(* read is what is stored when it commits.                                 *)

(* No two requests have the same entry or the same occurrence, and the     *)
(* occurrence that is being started or skipped stays pending, its draft    *)
(* unsealed, until it is.                                                  *)
OwnTarget ==
  \A r, p \in Requests : r # p =>
    /\ req[r].e # None => req[r].e # req[p].e
    /\ req[r].o # None => req[r].o # req[p].o
RoundHeld(q) ==
  /\ round[q.o].status = "PENDING" /\ round[q.o].link = None
  /\ q.pc # "link" => q.e = None
  /\ q.pc = "link" => entry[q.e].status = "DRAFT" /\ ~entry[q.e].sealed
RoundsHeld == \A r \in Requests : req[r].pc # "idle" /\ OnRound(req[r]) => RoundHeld(req[r])
TargetInv == OwnTarget /\ RoundsHeld

(* The guards a request passed still hold, and from its second read on it  *)
(* holds the sections and values of its entry.                             *)
Admitted(q) ==
  q.op.kind = "save" => Editable(q.op.s, q.ent.cur) /\ (q.op.complete => q.op.v # None)
ReadsStored(q) ==
  q.pc = "ready" =>
    /\ q.sec = section[q.e] /\ q.val = value[q.e]
    /\ q.op.kind = "submit" => SectionsDone(q.e, q.ent.cur)
ReadsInv ==
  \A r \in Requests : Uncommitted(req[r]) => Admitted(req[r]) /\ ReadsStored(req[r])

(* An entry that does not exist yet has no values and no exceptions, and   *)
(* one without workflow has no stage.                                      *)
BlankRows ==
  \A e \in Entries : entry[e].status = "ABSENT" =>
    /\ \A s \in Sections : value[e][s] = None /\ exc[e][s] = NoExc
    /\ computed[e] = [value |-> None, exc |-> NoExc]
FormsHaveNoStage == \A e \in Entries \ FlowEntries : entry[e].cur = None
RowsInv == BlankRows /\ FormsHaveNoStage

Serially == IInv /\ SerialInv /\ TargetInv /\ ReadsInv /\ RowsInv

(* Which request can change an occurrence.                                 *)
LEMMA RoundCases ==
  ASSUME TypeInv, [Next]_vars, NEW o \in Rounds
  PROVE  \/ round'[o] = round[o]
         \/ \E r \in Requests : /\ req[r].e \in Entries /\ round[o].link = req[r].e
                                /\ \/ round' = FulfilRound(req[r].e)
                                      /\ (CommitSubmit(r) \/ CommitTransition(r))
                                   \/ VoidUnlink(r)
         \/ \E r \in Requests : req[r].o = o /\ (StartLink(r) \/ CommitSkip(r))
<1> DEFINE Goal == \/ round'[o] = round[o]
                   \/ \E r \in Requests : /\ req[r].e \in Entries
                                          /\ round[o].link = req[r].e
                                          /\ \/ round' = FulfilRound(req[r].e)
                                                /\ (CommitSubmit(r) \/ CommitTransition(r))
                                             \/ VoidUnlink(r)
                   \/ \E r \in Requests : req[r].o = o /\ (StartLink(r) \/ CommitSkip(r))
<1>0. round \in [Rounds -> RoundRow]
  BY DEF TypeInv, TypeOK
<1>1. CASE UNCHANGED vars
  BY <1>1 DEF vars, rows
<1>2. ASSUME NEW r \in Requests, Begin(r) PROVE Goal
  BY <1>2, BeginReads DEF rows
<1>3. ASSUME NEW r \in Requests, Continue(r) PROVE Goal
  <2>1. CASE CommitSubmit(r) \/ CommitTransition(r)
    <3>1. req[r].e \in Entries
      BY <2>1, StepParts DEF CommitSubmit, CommitTransition, Step, OnRound
    <3>2. round' = round \/ round' = FulfilRound(req[r].e)
      BY <2>1 DEF CommitSubmit, CommitTransition, SealEffects
    <3>3. round[o].link # req[r].e => round'[o] = round[o]
      BY <3>2 DEF FulfilRound
    <3> QED BY <2>1, <3>1, <3>2, <3>3
  <2>2. CASE VoidUnlink(r)
    <3>1. req[r].e \in Entries
      BY <2>2, StepParts DEF VoidUnlink, Step, OnRound
    <3>2. round[o].link # req[r].e => round'[o] = round[o]
      BY <2>2 DEF VoidUnlink, ReleasedRounds
    <3> QED BY <2>2, <3>1, <3>2
  <2>3. CASE StartLink(r) \/ CommitSkip(r)
    <3>1. req[r].o # o => round'[o] = round[o]
      BY <1>0, <2>3 DEF StartLink, CommitSkip
    <3> QED BY <2>3, <3>1
  <2>4. CASE \/ CommitSave(r) \/ CommitDefer(r) \/ VoidRow(r) \/ VoidPurge(r)
             \/ \E e \in Entries : StartCreate(r, e)
    BY <2>4 DEF CommitSave, CommitDefer, VoidRow, VoidPurge, StartCreate
  <2>5. CASE Checks(r) \/ Reject(r) \/ Crash(r)
    BY <2>5 DEF Checks, CheckSave, CheckSubmit, CheckTransition, CheckDefer,
       Reject, Crash, rows
  <2> QED BY <1>3, <2>1, <2>2, <2>3, <2>4, <2>5 DEF Continue, Checks
<1>4. ASSUME \/ \E e \in Entries, d \in Date : Create(e, d)
             \/ \E e \in Entries : Settles(e)
      PROVE  Goal
  BY <1>4, SettlesQuiet DEF Create
<1> QED BY <1>1, <1>2, <1>3, <1>4 DEF Next

(* The one request that a step changes, and how.                           *)
LEMMA OneRequest ==
  ASSUME TypeInv, [Next]_vars
  PROVE  \/ req' = req
         \/ \E r \in Requests : \E q :
              /\ req' = [req EXCEPT ![r] = q]
              /\ \/ q = Idle
                 \/ LoadedEntry(q) \/ LoadedRound(q)
                 \/ q.e = req[r].e /\ q.o = req[r].o
                 \/ \E e \in Entries : StartCreate(r, e) /\ q.e = e /\ q.o = req[r].o
<1>1. CASE UNCHANGED vars
  BY <1>1 DEF vars
<1>2. ASSUME NEW r \in Requests, Begin(r)
      PROVE  \E q : req' = [req EXCEPT ![r] = q] /\ (LoadedEntry(q) \/ LoadedRound(q))
  BY <1>2, BeginLoads
<1>3. ASSUME NEW r \in Requests, NEW e \in Entries, StartCreate(r, e)
      PROVE  \E q : req' = [req EXCEPT ![r] = q] /\ q.e = e /\ q.o = req[r].o
  <2> DEFINE q == [req[r] EXCEPT !.pc = "link", !.e = e]
  <2>1. req[r] \in InFlight
    BY <1>3, InFlightParts DEF StartCreate, Step, Idle
  <2>2. q.e = e /\ q.o = req[r].o
    BY <2>1 DEF InFlight
  <2>3. req' = [req EXCEPT ![r] = q]
    BY <1>3 DEF StartCreate
  <2> QED BY <2>2, <2>3
<1>4. ASSUME NEW r \in Requests, Continue(r), ~\E e \in Entries : StartCreate(r, e)
      PROVE  \E q : /\ req' = [req EXCEPT ![r] = q]
                    /\ q = Idle \/ (q.e = req[r].e /\ q.o = req[r].o)
  <2>1. CASE Checks(r) \/ VoidRow(r) \/ VoidUnlink(r)
    BY <2>1, AdvanceKeeps
  <2>2. CASE ~(Checks(r) \/ VoidRow(r) \/ VoidUnlink(r))
    <3>1. \/ CommitSave(r) \/ CommitSubmit(r) \/ CommitTransition(r) \/ CommitDefer(r)
          \/ VoidPurge(r) \/ StartLink(r) \/ CommitSkip(r) \/ Reject(r) \/ Crash(r)
      BY <1>4, <2>2 DEF Continue, Checks
    <3>2. ASSUME CommitSave(r) \/ CommitSubmit(r) \/ CommitTransition(r) \/ CommitDefer(r)
          PROVE  req' = [req EXCEPT ![r] = Idle]
      BY <3>2 DEF CommitSave, CommitSubmit, CommitTransition, CommitDefer, Finish
    <3>3. ASSUME VoidPurge(r) \/ StartLink(r) \/ CommitSkip(r) \/ Reject(r) \/ Crash(r)
          PROVE  req' = [req EXCEPT ![r] = Idle]
      BY <3>3 DEF VoidPurge, StartLink, CommitSkip, Reject, Crash, Finish
    <3> QED BY <3>1, <3>2, <3>3
  <2> QED BY <2>1, <2>2
<1>5. ASSUME \/ \E e \in Entries, d \in Date : Create(e, d)
             \/ \E e \in Entries : Settles(e)
      PROVE  req' = req
  BY <1>5, SettlesQuiet DEF Create
<1> QED BY <1>1, <1>2, <1>3, <1>4, <1>5 DEF Next

(* The entry that a request holds exists.                                  *)
LEMMA HeldExists ==
  ASSUME IInv, RoundsHeld, NEW r \in Requests, req[r].e # None
  PROVE  req[r].e \in Entries /\ entry[req[r].e].status # "ABSENT"
<1>1. req[r] # Idle
  BY DEF Idle
<1>2. StepMatchesOp(req[r])
  BY DEF IInv, TypeInv
<1>3. CASE OnRound(req[r])
  BY <1>1, <1>2, <1>3 DEF StepMatchesOp, RoundsHeld, RoundHeld
<1>4. CASE ~OnRound(req[r])
  BY <1>1, <1>2, <1>4 DEF StepMatchesOp, IInv, SealInv, SnapshotTrails
<1> QED BY <1>3, <1>4

LEMMA OwnTargetStep ==
  ASSUME ~MayOverlap, IInv, TargetInv, [Next]_vars PROVE OwnTarget'
<1>0. req \in [Requests -> InFlight \cup {Idle}] /\ TypeInv /\ OwnTarget
  BY DEF IInv, TypeInv, TypeOK, TargetInv
<1>1. CASE req' = req
  BY <1>0, <1>1 DEF OwnTarget
<1>3. ASSUME NEW r \in Requests, NEW q, req' = [req EXCEPT ![r] = q],
             \/ q = Idle \/ LoadedEntry(q) \/ LoadedRound(q)
             \/ q.e = req[r].e /\ q.o = req[r].o
             \/ \E e \in Entries : StartCreate(r, e) /\ q.e = e /\ q.o = req[r].o
      PROVE  OwnTarget'
  <2> DEFINE Apart(p) == /\ q.e # None => q.e # req[p].e
                         /\ q.o # None => q.o # req[p].o
  <2>5. ASSUME \A p \in Requests : p # r => Apart(p) PROVE OwnTarget'
    <3>1. \A p \in Requests : req'[p] = IF p = r THEN q ELSE req[p]
      BY <1>0, <1>3
    <3> QED BY <1>0, <2>5, <3>1 DEF OwnTarget
  <2> SUFFICES \A p \in Requests : p # r => Apart(p)
    BY <2>5
  <2> SUFFICES ASSUME NEW p \in Requests, p # r PROVE Apart(p)
    OBVIOUS
  <2>1. CASE q = Idle
    BY <2>1 DEF Idle
  <2>2. CASE LoadedEntry(q) \/ LoadedRound(q)
    BY <2>2 DEF LoadedEntry, LoadedRound, Free
  <2>3. CASE q.e = req[r].e /\ q.o = req[r].o
    BY <1>0, <2>3 DEF OwnTarget
  <2>4. ASSUME NEW e \in Entries, StartCreate(r, e), q.e = e, q.o = req[r].o
        PROVE  Apart(p)
    <3>1. entry[e].status = "ABSENT"
      BY <2>4 DEF StartCreate
    <3>2. req[p].e # None => entry[req[p].e].status # "ABSENT"
      BY HeldExists DEF TargetInv
    <3> QED BY <1>0, <2>4, <3>1, <3>2 DEF OwnTarget
  <2> QED BY <1>3, <2>1, <2>2, <2>3, <2>4
<1> QED BY <1>0, <1>1, <1>3, OneRequest

(* A step other than its own request's does not write a held entry.        *)
LEMMA HeldEntry ==
  ASSUME ~MayOverlap, IInv, TargetInv, [Next]_vars,
         NEW p \in Requests, req[p].e # None, ~Writes(p)
  PROVE  /\ entry'[req[p].e] = entry[req[p].e] /\ section'[req[p].e] = section[req[p].e]
         /\ value'[req[p].e] = value[req[p].e]
<1> DEFINE e == req[p].e
<1>1. e \in Entries /\ entry[e].status # "ABSENT"
  BY HeldExists DEF TargetInv
<1>2. CASE Untouched(e)
  BY <1>2 DEF Untouched
<1>3. ASSUME NEW r \in Requests, req[r].e = e, Writes(r) PROVE FALSE
  BY <1>3 DEF TargetInv, OwnTarget
<1>4. CASE Settles(e)
  <2>1. ASSUME NEW s, NEW v, Correct(e, s, v) PROVE FALSE
    BY <2>1 DEF Correct, Free
  <2>2. entry' = entry /\ section' = section
    BY <1>4, SettlesQuiet
  <2>3. ASSUME SettlesEntered(e) PROVE value' = value
    <3>1. \E s \in Sections, status \in {"ACKNOWLEDGED", "DISMISSED"} : Triage(e, s, status)
      BY <2>1, <2>3 DEF SettlesEntered
    <3> QED BY <3>1 DEF Triage
  <2>4. ASSUME SettlesComputed(e) PROVE value' = value
    BY <2>4 DEF SettlesComputed, TriageComputed, CorrectComputed
  <2> QED BY <1>4, <2>2, <2>3, <2>4 DEF Settles
<1>5. ~(\E d \in Date : Create(e, d)) /\ ~(\E r \in Requests : StartCreate(r, e))
  BY <1>1 DEF Create, StartCreate
<1> QED BY <1>1, <1>2, <1>3, <1>4, <1>5, EntryCases DEF EntryStep, IInv

LEMMA RoundsHeldStep ==
  ASSUME ~MayOverlap, IInv, TargetInv, [Next]_vars PROVE RoundsHeld'
<1> SUFFICES ASSUME NEW p \in Requests, req'[p].pc # "idle", OnRound(req'[p])
             PROVE  RoundHeld(req[p])'
  BY DEF RoundsHeld, OnRound
<1>0. req \in [Requests -> InFlight \cup {Idle}] /\ TypeInv
  BY DEF IInv, TypeInv, TypeOK
<1>1. CASE req'[p] = req[p]
  <2>1. req[p].o \in Rounds /\ RoundHeld(req[p]) /\ OnRound(req[p])
    BY <1>0, <1>1, StepParts DEF TargetInv, RoundsHeld
  <2>2. round'[req[p].o] = round[req[p].o]
    <3> DEFINE o == req[p].o
    <3>1. ASSUME NEW r \in Requests, req[r].e \in Entries, round[o].link = req[r].e
          PROVE  FALSE
      BY <2>1, <3>1, NoneAssumption DEF RoundHeld
    <3>2. ASSUME NEW r \in Requests, req[r].o = o, StartLink(r) \/ CommitSkip(r)
          PROVE  FALSE
      <4>1. r = p
        BY <2>1, <3>2, NoneAssumption DEF TargetInv, OwnTarget
      <4>2. req'[r] = Idle
        BY <1>0, <3>2 DEF StartLink, CommitSkip, Finish
      <4> QED BY <4>1, <4>2 DEF Idle
    <3> QED BY <1>0, <2>1, <3>1, <3>2, RoundCases
  <2>3. req[p].pc = "link" => entry'[req[p].e] = entry[req[p].e]
    <3>1. req[p].pc = "link" => req[p].e \in Entries
      BY <1>0, <1>1, <2>1, StepParts
    <3>2. ~Writes(p)
      BY <2>1 DEF Writes, CommitSave, CommitSubmit, CommitTransition, CommitDefer,
         VoidRow, VoidPurge, Step, OnRound
    <3> QED BY <3>1, <3>2, HeldEntry, NoneAssumption
  <2> QED BY <1>1, <2>1, <2>2, <2>3 DEF RoundHeld
<1>2. CASE req'[p] = Idle
  BY <1>2 DEF Idle
<1>3. CASE Begin(p)
  <2>1. PICK q : /\ req' = [req EXCEPT ![p] = q] /\ q.pc = "loaded"
                 /\ LoadedEntry(q) \/ LoadedRound(q)
    BY <1>0, <1>3, BeginLoads
  <2>2. req'[p] = q /\ UNCHANGED rows
    BY <1>0, <1>3, <2>1, BeginReads
  <2>3. LoadedRound(q)
    BY <2>1, <2>2 DEF LoadedEntry
  <2> QED BY <2>1, <2>2, <2>3 DEF LoadedRound, RoundHeld, rows
<1>4. CASE Checks(p) \/ VoidRow(p) \/ VoidUnlink(p)
  <2>1. ~OnRound(req[p]) /\ req'[p].op = req[p].op
    BY <1>0, <1>4, AdvanceKeeps
  <2> QED BY <2>1 DEF OnRound
<1>5. ASSUME NEW e \in Entries, StartCreate(p, e) PROVE RoundHeld(req[p])'
  <2>1. req[p] \in InFlight /\ OnRound(req[p]) /\ req[p].pc # "idle"
    BY <1>0, <1>5, InFlightParts DEF StartCreate, Step, Idle, OnRound
  <2>2. req'[p].o = req[p].o /\ req'[p].e = e /\ req'[p].pc = "link"
    BY <1>0, <1>5, <2>1 DEF StartCreate, InFlight
  <2>3. entry'[e].status = "DRAFT" /\ ~entry'[e].sealed /\ round' = round
    BY <1>0, <1>5, CreatedRow DEF StartCreate
  <2> QED BY <2>1, <2>2, <2>3 DEF TargetInv, RoundsHeld, RoundHeld
<1> QED BY <1>0, <1>1, <1>2, <1>3, <1>4, <1>5, RequestCases DEF Advances

(* A commit, and the first write of a void, is of a request that has       *)
(* written nothing yet and ends, or has nothing more to read.              *)
LEMMA WritesParts ==
  ASSUME IInv, NEW r \in Requests, Writes(r)
  PROVE  /\ Holds(req[r]) /\ req[r].e \in Entries /\ req[r].e # None
         /\ Uncommitted(req[r]) \/ VoidPurge(r)
         /\ ~Uncommitted(req'[r])
<1>1. /\ Holds(req[r])
      /\ Uncommitted(req[r]) \/ VoidPurge(r)
  BY DEF Writes, CommitSave, CommitSubmit, CommitTransition, CommitDefer, VoidRow,
     VoidPurge, Step, Holds, Uncommitted, OnRound
<1>2. req[r].e \in Entries /\ req[r] \in InFlight
  BY <1>1, StepParts, InFlightParts DEF IInv, Holds
<1>3. CASE VoidRow(r)
  <2>1. req'[r].pc = "unlink"
    BY <1>2, <1>3 DEF VoidRow, IInv, TypeInv, TypeOK, InFlight
  <2> QED BY <1>1, <1>2, <2>1, NoneAssumption DEF Uncommitted
<1>4. CASE ~VoidRow(r)
  <2>1. Finish(r)
    <3>1. CASE CommitSave(r) \/ CommitSubmit(r) \/ CommitTransition(r)
      BY <3>1 DEF CommitSave, CommitSubmit, CommitTransition
    <3>2. CASE CommitDefer(r) \/ VoidPurge(r)
      BY <3>2 DEF CommitDefer, VoidPurge
    <3> QED BY <1>4, <3>1, <3>2 DEF Writes
  <2>2. req'[r] = Idle
    BY <2>1 DEF Finish, IInv, TypeInv, TypeOK
  <2> QED BY <1>1, <1>2, <2>2, NoneAssumption DEF Uncommitted, Holds, Idle
<1> QED BY <1>3, <1>4

(* What a request read, and the guards it passed, stay true until it       *)
(* writes.                                                                 *)
LEMMA ReadsStep ==
  ASSUME ~MayOverlap, IInv, SerialInv, TargetInv, ReadsInv, [Next]_vars
  PROVE  ReadsInv'
<1> SUFFICES ASSUME NEW p \in Requests, Uncommitted(req'[p])
             PROVE  Admitted(req'[p]) /\ ReadsStored(req[p])'
  BY DEF ReadsInv, Uncommitted, Holds, Admitted
<1>0. req \in [Requests -> InFlight \cup {Idle}] /\ TypeInv
  BY DEF IInv, TypeInv, TypeOK
<1>1. CASE req'[p] = req[p]
  <2>1. Uncommitted(req[p]) /\ req[p].e \in Entries /\ req[p].e # None
    BY <1>1, AboutToWrite, NoneAssumption
  <2>2. ~Writes(p)
    BY <1>1, WritesParts
  <2>3. /\ section'[req[p].e] = section[req[p].e]
        /\ value'[req[p].e] = value[req[p].e]
    BY <2>1, <2>2, HeldEntry
  <2>4. Admitted(req[p]) /\ ReadsStored(req[p])
    BY <2>1 DEF ReadsInv
  <2> QED BY <1>1, <2>3, <2>4 DEF ReadsStored, SectionsDone
<1>2. CASE req'[p] = Idle
  BY <1>2 DEF Idle, Uncommitted, Holds
<1>3. CASE Begin(p)
  <2>1. PICK q : /\ req' = [req EXCEPT ![p] = q] /\ q.pc = "loaded"
                 /\ LoadedEntry(q) \/ LoadedRound(q)
    BY <1>0, <1>3, BeginLoads
  <2>2. req'[p] = q
    BY <1>0, <2>1
  <2> QED BY <2>1, <2>2
          DEF LoadedEntry, LoadedRound, Admitted, ReadsStored, Uncommitted, Holds
<1>4. CASE Checks(p)
  <2>1. PICK q : /\ req' = [req EXCEPT ![p] = q]
                 /\ q.e = req[p].e /\ q.op = req[p].op /\ q.ent = req[p].ent
                 /\ req[p].pc = "loaded" /\ q.pc = "ready"
                 /\ q.sec = section[q.e] /\ q.val = value[q.e] /\ UNCHANGED rows
    BY <1>0, <1>4, AdvanceKeeps
  <2>2. req'[p] = q
    BY <1>0, <2>1
  <2>3. Uncommitted(req[p])
    BY <1>0, <1>4, <2>1, AdvanceKeeps DEF Uncommitted, Holds
  <2>4. Admitted(q)
    BY <2>1, <2>3 DEF ReadsInv, Admitted
  <2>5. q.op.kind = "submit" => SectionsDone(q.e, q.ent.cur)
    BY <1>4, <2>1 DEF Checks, CheckSave, CheckSubmit, CheckTransition, CheckDefer, Step
  <2>6. section' = section /\ value' = value
    BY <2>1 DEF rows
  <2> QED BY <2>1, <2>2, <2>4, <2>5, <2>6 DEF ReadsStored, SectionsDone
<1>5. CASE VoidRow(p) \/ VoidUnlink(p)
  <2>1. req'[p].pc \in {"unlink", "purge"}
    BY <1>0, <1>5, AdvanceKeeps
  <2> QED BY <2>1 DEF Uncommitted
<1>6. ASSUME NEW e \in Entries, StartCreate(p, e) PROVE FALSE
  <2>1. req[p] \in InFlight /\ OnRound(req[p])
    BY <1>0, <1>6, InFlightParts DEF StartCreate, Step, Idle, OnRound
  <2>2. req'[p].op = req[p].op
    BY <1>0, <1>6, <2>1 DEF StartCreate, InFlight
  <2> QED BY <2>1, <2>2 DEF Uncommitted, Holds, OnRound
<1> QED BY <1>0, <1>1, <1>2, <1>3, <1>4, <1>5, <1>6, RequestCases DEF Advances

(* What a request that writes knows of its entry.                          *)
LEMMA WriterKnows ==
  ASSUME Serially, NEW r \in Requests, NEW e \in Entries, req[r].e = e,
         Writes(r), ~VoidPurge(r)
  PROVE  /\ req[r].ent = entry[e] /\ entry[e] \in EntryRow /\ entry[e].status = "DRAFT"
         /\ Current(req[r]) /\ Admitted(req[r]) /\ ReadsStored(req[r])
         /\ req[r].op \in Op /\ value[e] \in Reading
         /\ section[e] \in [Sections -> SectionRow] /\ exc[e] \in [Sections -> ExcRow]
         /\ computed[e] \in ComputedRow
<1>1. Uncommitted(req[r])
  BY WritesParts DEF Serially
<1>2. req[r].op \in Op
  BY <1>1, InFlightParts DEF Serially, IInv, Uncommitted, Holds, Idle
<1> QED
  BY <1>1, <1>2, AboutToWrite DEF Serially, ReadsInv, IInv, TypeInv, TypeOK

(* What each write leaves on its entry, in terms of what was stored.       *)
OnlyAt(s, old, new, row) == \A x \in Sections : new[x] = IF x = s THEN row ELSE old[x]

LEMMA SaveLeaves ==
  ASSUME Serially, NEW r \in Requests, NEW e \in Entries, req[r].e = e,
         CommitSave(r), NEW s, s = req[r].op.s
  PROVE  /\ s \in Sections /\ req[r].op.v \in Input(s) /\ req[r].op.complete \in BOOLEAN
         /\ Editable(s, entry[e].cur)
         /\ req[r].op.complete => req[r].op.v # None
         /\ Seen(req[r]) = [value[e] EXCEPT ![s] = req[r].op.v]
         /\ value'[e] = Seen(req[r])
         /\ OnlyAt(s, section[e], section'[e], SavedSection(section[e][s], req[r]))
         /\ entry'[e].status = "DRAFT" /\ entry'[e].sealed = entry[e].sealed
         /\ entry'[e].cur = entry[e].cur /\ entry'[e].declared = entry[e].declared
         /\ ~entry[e].sealed => entry'[e].eff = Resolve(value'[e], entry[e].declared)
         /\ OnlyAt(s, exc[e], exc'[e], SavedExc(exc[e][s], req[r]))
         /\ computed'[e] = SavedComputed(computed[e], req[r])
         /\ ~entry[e].sealed => computed'[e].value = Computed(value'[e])
         /\ signature'[e] = signature[e] \/ signature'[e] = Snapshot(value'[e])
<1> DEFINE q == req[r]
<1>1. /\ q.ent = entry[e] /\ Admitted(q) /\ q.val = value[e] /\ q.op \in Op
      /\ q.op.kind = "save" /\ value[e] \in Reading
      /\ entry[e] \in EntryRow /\ entry[e].status = "DRAFT"
  BY WriterKnows DEF Writes, CommitSave, VoidPurge, Step, ReadsStored
<1>2. s \in Sections /\ q.op.v \in Input(s) /\ q.op.complete \in BOOLEAN
  BY <1>1, OpParts
<1>3. Editable(s, entry[e].cur) /\ (q.op.complete => q.op.v # None)
  BY <1>1 DEF Admitted
<1>4. Seen(q) = [value[e] EXCEPT ![s] = q.op.v]
  BY <1>1 DEF Seen
<1>5. /\ value' = [value EXCEPT ![e][s] = SavedValue(@, q)]
      /\ section' = [section EXCEPT ![e][s] = SavedSection(@, q)]
      /\ entry' = [entry EXCEPT ![e] = SavedRow(@, q)]
      /\ exc' = [exc EXCEPT ![e][s] = SavedExc(@, q)]
      /\ signature' = IF q.op.complete /\ s \in SignedSections
                      THEN [signature EXCEPT ![e] = Snapshot(Seen(q))] ELSE signature
      /\ computed' = [computed EXCEPT ![e] = SavedComputed(@, q)]
  BY DEF CommitSave, SaveSignature
<1>6. /\ value \in [Entries -> Reading] /\ section \in [Entries -> [Sections -> SectionRow]]
      /\ entry \in [Entries -> EntryRow] /\ exc \in [Entries -> [Sections -> ExcRow]]
      /\ signature \in [Entries -> Signature \cup {None}]
      /\ computed \in [Entries -> ComputedRow]
  BY DEF Serially, IInv, TypeInv, TypeOK
<1>7. value'[e] = Seen(q)
  <2>1. value'[e] = [value[e] EXCEPT ![s] = SavedValue(value[e][s], q)]
    BY <1>5, <1>6
  <2>2. SavedValue(value[e][s], q) = q.op.v
    BY <1>1, <1>2 DEF SavedValue
  <2> QED BY <1>4, <2>1, <2>2
<1>8. /\ OnlyAt(s, section[e], section'[e], SavedSection(section[e][s], q))
      /\ OnlyAt(s, exc[e], exc'[e], SavedExc(exc[e][s], q))
      /\ entry'[e] = SavedRow(entry[e], q)
  BY <1>5, <1>6 DEF OnlyAt
<1>9. signature'[e] = signature[e] \/ signature'[e] = Snapshot(value'[e])
  BY <1>5, <1>6, <1>7
<1>10. /\ entry'[e].status = "DRAFT" /\ entry'[e].sealed = entry[e].sealed
       /\ entry'[e].cur = entry[e].cur /\ entry'[e].declared = entry[e].declared
       /\ ~entry[e].sealed => entry'[e].eff = Resolve(value'[e], entry[e].declared)
  BY <1>1, <1>7, <1>8 DEF SavedRow, EntryRow
<1>11. computed'[e] = SavedComputed(computed[e], q)
  BY <1>5, <1>6
<1>12. ~entry[e].sealed => computed'[e].value = Computed(value'[e])
  <2>1. computed[e] \in ComputedRow
    BY <1>6
  <2> QED BY <1>1, <1>7, <1>11, <2>1 DEF SavedComputed, Stamped, ComputedRow
<1> QED BY <1>1, <1>2, <1>3, <1>4, <1>7, <1>8, <1>9, <1>10, <1>11, <1>12

LEMMA SealLeaves ==
  ASSUME Serially, NEW r \in Requests, NEW e \in Entries, req[r].e = e,
         CommitSubmit(r) \/ (CommitTransition(r) /\ SealsHere(req[r]))
  PROVE  /\ entry[e].status = "DRAFT" /\ ~entry[e].sealed /\ entry'[e].sealed
         /\ entry'[e].status \in {"DRAFT", "SUBMITTED"}
         /\ exc'[e] = [s \in Sections |->
              Stamp(Reconcile(exc[e][s], Alarms(s, value[e][s]), TRUE))]
         /\ computed'[e].value = Computed(value[e])
         /\ computed'[e].exc =
              Stamp(Reconcile(computed[e].exc, Computed(value[e]) \in Alarming, TRUE))
         /\ value'[e] = value[e] /\ round' = FulfilRound(e)
<1> DEFINE q == req[r]
           row == SealedRow(entry[e], q)
           moved == MovedRow(entry[e], q)
<1>1. /\ q.ent = entry[e] /\ q.val = value[e] /\ entry[e] \in EntryRow
      /\ entry[e].status = "DRAFT" /\ Current(q)
  BY WriterKnows DEF Writes, CommitSubmit, CommitTransition, VoidPurge, Step, ReadsStored
<1>2. SealEffects(q) /\ value' = value
  BY DEF CommitSubmit, CommitTransition
<1>3. /\ exc'[e] = [s \in Sections |->
             Stamp(Reconcile(exc[e][s], Alarms(s, value[e][s]), TRUE))]
      /\ round' = FulfilRound(e)
      /\ computed'[e].value = Computed(value[e])
      /\ computed'[e].exc =
           Stamp(Reconcile(computed[e].exc, Computed(value[e]) \in Alarming, TRUE))
  <2>1. computed'[e] = SealedComputed(computed[e], q)
    BY <1>2 DEF SealEffects, Serially, IInv, TypeInv, TypeOK
  <2>2. /\ computed'[e].value = Computed(value[e])
        /\ computed'[e].exc =
             Stamp(Reconcile(computed[e].exc, Computed(value[e]) \in Alarming, TRUE))
    BY <1>1, <2>1 DEF SealedComputed
  <2> QED
    BY <1>1, <1>2, <2>2 DEF SealEffects, SealedExc, Serially, IInv, TypeInv, TypeOK
<1>4. CASE CommitSubmit(r)
  <2>1. e \notin FlowEntries
    BY <1>1, <1>4 DEF CommitSubmit, Step, Current
  <2>2. ~entry[e].sealed
    BY <1>1, <2>1 DEF Serially, SerialInv, FormsClosed
  <2>3. entry'[e] = [row EXCEPT !.status = "SUBMITTED"]
    BY <1>4 DEF CommitSubmit, Serially, IInv, TypeInv, TypeOK
  <2>4. entry'[e].sealed /\ entry'[e].status = "SUBMITTED"
    BY <1>1, <2>3 DEF SealedRow, EntryRow
  <2> QED BY <1>1, <1>2, <1>3, <2>2, <2>4
<1>5. CASE CommitTransition(r) /\ SealsHere(q)
  <2>1. ~entry[e].sealed
    BY <1>1, <1>5 DEF SealsHere
  <2>2. entry'[e] = SealedRow(moved, q)
    BY <1>5 DEF CommitTransition, Serially, IInv, TypeInv, TypeOK
  <2>3. entry'[e].sealed /\ entry'[e].status \in {"DRAFT", "SUBMITTED"}
    BY <1>1, <2>2 DEF SealedRow, MovedRow, EntryRow
  <2> QED BY <1>1, <1>2, <1>3, <2>1, <2>3
<1> QED BY <1>4, <1>5

(* A transition moves the stage and the sections' locks; one that does not *)
(* seal is of a sealed entry.                                              *)
LEMMA TransitionLeaves ==
  ASSUME Serially, NEW r \in Requests, NEW e \in Entries, req[r].e = e,
         CommitTransition(r)
  PROVE  /\ e \in FlowEntries /\ req[r].op.t \in Transitions /\ entry'[e].sealed
         /\ entry'[e].cur = req[r].op.t.to
         /\ section'[e] = [s \in Sections |->
              LET next == NextSectionState(section[e][s].state,
                                           Editable(s, req[r].op.t.to))
              IN  IF next # section[e][s].state
                  THEN [section[e][s] EXCEPT !.state = next] ELSE section[e][s]]
         /\ value'[e] = value[e]
         /\ signature'[e] = signature[e] \/ signature'[e] = Snapshot(value'[e])
         /\ ~SealsHere(req[r]) =>
              /\ entry[e].sealed /\ entry'[e].status \in {"DRAFT", "SUBMITTED"}
              /\ exc'[e] = exc[e] /\ computed'[e] = computed[e] /\ round' = round
<1> DEFINE q == req[r]
           moved == MovedRow(entry[e], q)
<1>1. /\ q.ent = entry[e] /\ q.val = value[e] /\ q.sec = section[e]
      /\ entry[e] \in EntryRow /\ entry[e].status = "DRAFT" /\ Current(q)
      /\ q.op \in Op /\ q.op.kind = "transition"
  BY WriterKnows DEF Writes, CommitTransition, VoidPurge, Step, ReadsStored
<1>2. e \in FlowEntries /\ q.op.t \in Transitions
  BY <1>1, OpParts DEF Current
<1>3. ~SealsHere(q) => entry[e].sealed
  <2>1. q.op.t.from = q.ent.cur /\ q.op.t.from \in States
    <3>1. q.pc # "idle" /\ ~OnRound(q)
      BY DEF CommitTransition, Step, OnRound
    <3> QED BY <1>1, <1>2, <3>1, StepParts, FlowAssumption DEF Serially, IInv
  <2>2. ~entry[e].sealed => entry[e].cur \in {None, InitialState}
    BY DEF Serially, IInv, SealInv, SealGate
  <2> QED BY <1>1, <2>1, <2>2, NoneAssumption DEF SealsHere
<1>4. /\ entry'[e] = IF SealsHere(q) THEN SealedRow(moved, q) ELSE moved
      /\ ~SealsHere(q) => /\ exc' = exc /\ round' = round
                           /\ computed'[e] = Stamped(computed[e], q, q.val)
  BY DEF CommitTransition, Serially, IInv, TypeInv, TypeOK
<1>5. /\ moved.cur = q.op.t.to /\ moved.sealed = entry[e].sealed
      /\ moved.status \in {"DRAFT", "SUBMITTED"}
  BY <1>1 DEF MovedRow, EntryRow
<1>6. SealedRow(moved, q).cur = q.op.t.to /\ SealedRow(moved, q).sealed
  BY <1>1 DEF SealedRow, MovedRow, EntryRow
<1>7. value' = value /\ section'[e] = MovedSections(q)
  BY DEF CommitTransition, Serially, IInv, TypeInv, TypeOK
<1>8. signature'[e] = signature[e] \/ signature'[e] = Snapshot(q.val)
  BY DEF CommitTransition, Serially, IInv, TypeInv, TypeOK
<1>9. ~SealsHere(q) => computed'[e] = computed[e]
  BY <1>1, <1>3, <1>4 DEF Stamped
<1> QED
  BY <1>1, <1>2, <1>3, <1>4, <1>5, <1>6, <1>7, <1>8, <1>9 DEF MovedSections

(* A deferral declares the date and writes it into the date field.         *)
LEMMA DeferLeaves ==
  ASSUME Serially, NEW r \in Requests, NEW e \in Entries, req[r].e = e,
         CommitDefer(r), NEW d, d = req[r].op.d
  PROVE  /\ d \in Date /\ entry[e].status = "DRAFT" /\ ~entry[e].sealed
         /\ \A s \in Sections : value'[e][s] =
              IF s = DateSection /\ d # None THEN d ELSE value[e][s]
         /\ entry'[e].status = "DRAFT" /\ ~entry'[e].sealed
         /\ entry'[e].cur = entry[e].cur /\ entry'[e].declared = d
         /\ entry'[e].eff = Resolve(value'[e], d)
         /\ \A s \in Sections : section'[e][s].state = section[e][s].state
         /\ exc'[e] = exc[e] /\ signature'[e] = signature[e] /\ computed'[e] = computed[e]
<1> DEFINE q == req[r]
           new == [s \in Sections |->
                     IF s = DateSection /\ d # None THEN d ELSE value[e][s]]
<1>1. /\ q.val = value[e] /\ entry[e] \in EntryRow /\ Current(q) /\ q.op \in Op
      /\ q.op.kind = "defer" /\ value[e] \in Reading /\ q.ent = entry[e]
      /\ section[e] \in [Sections -> SectionRow]
  BY WriterKnows DEF Writes, CommitDefer, VoidPurge, Step, ReadsStored
<1>2. d \in Date /\ entry[e].status = "DRAFT" /\ ~entry[e].sealed
  BY <1>1, OpParts DEF Current
<1>3. value'[e] = new
  <2>1. value[e] = [s \in Sections |-> value[e][s]]
    BY <1>1 DEF Reading
  <2>2. CASE WritesDate(q)
    <3>1. value' = [value EXCEPT ![e][DateSection] = d] /\ d # None
      BY <2>2, Zenon DEF CommitDefer, WritesDate
    <3>2. value'[e] = [value[e] EXCEPT ![DateSection] = d]
      BY <3>1 DEF Serially, IInv, TypeInv, TypeOK
    <3> QED BY <1>1, <3>1, <3>2 DEF Reading
  <2>3. CASE ~WritesDate(q)
    <3>1. value' = value
      BY <2>3, Zenon DEF CommitDefer
    <3>2. d = None \/ DateSection = None \/ value[e][DateSection] = d
      BY <2>3 DEF WritesDate
    <3> QED BY <2>1, <3>1, <3>2, TemplateAssumption, NoneAssumption
  <2> QED BY <2>2, <2>3
<1>4. /\ entry'[e].status = "DRAFT" /\ ~entry'[e].sealed
      /\ entry'[e].cur = entry[e].cur /\ entry'[e].declared = d
      /\ entry'[e].eff = DeferredEff(q)
  <2>1. entry'[e] = [entry[e] EXCEPT !.declared = d, !.eff = DeferredEff(q)]
    BY DEF CommitDefer, Serially, IInv, TypeInv, TypeOK
  <2> QED BY <1>1, <1>2, <2>1 DEF EntryRow
<1>5. DeferredEff(q) = Resolve(new, d)
  BY <1>1 DEF DeferredEff
<1>6. \A s \in Sections : section'[e][s].state = section[e][s].state
  <2>1. section' = [section EXCEPT ![e][DateSection].version = @ + 1] \/ section' = section
    BY Zenon DEF CommitDefer
  <2>2. CASE section' = [section EXCEPT ![e][DateSection].version = @ + 1]
    <3>1. section'[e] = [section[e] EXCEPT ![DateSection].version = @ + 1]
      BY <2>2 DEF Serially, IInv, TypeInv, TypeOK
    <3> QED BY <1>1, <3>1 DEF SectionRow
  <2> QED BY <2>1, <2>2
<1>7. exc' = exc /\ signature' = signature /\ computed' = computed
  BY DEF CommitDefer
<1> QED BY <1>2, <1>3, <1>4, <1>5, <1>6, <1>7

(* A new draft has the values of its date only, and everything else blank. *)
LEMMA CreateLeaves ==
  ASSUME Serially, NEW e \in Entries, NEW r,
         (\E d \in Date : Create(e, d)) \/ StartCreate(r, e)
  PROVE  \E d \in Date :
           /\ entry'[e] = NewRow(e, d) /\ entry[e].status = "ABSENT"
           /\ \A s \in Sections :
                /\ value'[e][s] = IF s = DateSection THEN d ELSE None
                /\ exc'[e][s] = NoExc
           /\ signature'[e] = signature[e]
           /\ computed'[e] = [value |-> None, exc |-> NoExc]
<1>1. /\ entry[e].status = "ABSENT" /\ entry \in [Entries -> EntryRow]
      /\ exc' = exc /\ signature' = signature /\ computed' = computed
  BY DEF Create, StartCreate, Serially, IInv, TypeInv, TypeOK
<1>2. /\ \A s \in Sections : value[e][s] = None /\ exc[e][s] = NoExc
      /\ computed[e] = [value |-> None, exc |-> NoExc]
  BY <1>1 DEF Serially, RowsInv, BlankRows
<1>3. ASSUME NEW d \in Date, Create(e, d)
      PROVE  /\ entry'[e] = NewRow(e, d)
             /\ \A s \in Sections : value'[e][s] = IF s = DateSection THEN d ELSE None
  <2>1. entry'[e] = NewRow(e, d)
    BY <1>1, <1>3 DEF Create
  <2>2. CASE d # None /\ DateSection # None
    <3>1. value' = [value EXCEPT ![e][DateSection] = d]
      BY <1>3, <2>2 DEF Create
    <3>2. value'[e] = [value[e] EXCEPT ![DateSection] = d] /\ value[e] \in Reading
      BY <3>1 DEF Serially, IInv, TypeInv, TypeOK
    <3> QED BY <1>2, <2>1, <3>2 DEF Reading
  <2>3. CASE ~(d # None /\ DateSection # None)
    <3>1. value' = value
      BY <1>3, <2>3 DEF Create
    <3> QED BY <1>2, <2>1, <2>3, <3>1, NoneAssumption
  <2> QED BY <2>2, <2>3
<1>4. ASSUME StartCreate(r, e)
      PROVE  /\ entry'[e] = NewRow(e, None)
             /\ \A s \in Sections : value'[e][s] = None
  BY <1>1, <1>2, <1>4 DEF StartCreate
<1>5. CASE StartCreate(r, e)
  <2>1. None \in Date
    BY DEF Date
  <2> QED BY <1>1, <1>2, <1>4, <1>5, <2>1
<1> QED BY <1>1, <1>2, <1>3, <1>5

(* The two writes of a void that touch the entry.                          *)
LEMMA VoidLeaves ==
  ASSUME Serially, NEW r \in Requests, NEW e \in Entries, req[r].e = e,
         VoidRow(r) \/ VoidPurge(r)
  PROVE  /\ value'[e] = value[e] /\ section'[e] = section[e] /\ signature'[e] = signature[e]
         /\ VoidRow(r) => /\ entry[e].status = "DRAFT" /\ ~entry[e].sealed
                          /\ entry'[e].status = "VOID" /\ entry'[e].cur = entry[e].cur
                          /\ entry'[e].sealed = entry[e].sealed
                          /\ exc'[e] = exc[e] /\ computed'[e] = computed[e]
         /\ VoidPurge(r) => /\ entry'[e] = entry[e] /\ entry[e].status # "ABSENT"
                            /\ \A s \in Sections : exc'[e][s] =
                                 IF Provisional(exc[e][s]) THEN NoExc ELSE exc[e][s]
                            /\ computed'[e].exc = IF Provisional(computed[e].exc)
                                                  THEN NoExc ELSE computed[e].exc
<1>1. /\ value' = value /\ section' = section /\ signature' = signature
      /\ entry \in [Entries -> EntryRow] /\ exc \in [Entries -> [Sections -> ExcRow]]
  BY DEF VoidRow, VoidPurge, Serially, IInv, TypeInv, TypeOK
<1>2. CASE VoidRow(r)
  <2>1. ~VoidPurge(r)
    BY <1>2 DEF VoidRow, VoidPurge, Step
  <2>2. entry[e].status = "DRAFT" /\ ~entry[e].sealed
    <3>1. req[r].ent = entry[e] /\ Current(req[r]) /\ req[r].op.kind = "void"
      BY <1>2, <2>1, WriterKnows DEF Writes, VoidRow, Step
    <3> QED BY <3>1 DEF Current
  <2>3. /\ entry'[e].status = "VOID" /\ entry'[e].cur = entry[e].cur
        /\ entry'[e].sealed = entry[e].sealed /\ exc' = exc /\ computed' = computed
    <3>1. /\ entry'[e] = [entry[e] EXCEPT !.status = "VOID"]
          /\ exc' = exc /\ computed' = computed
      BY <1>1, <1>2 DEF VoidRow
    <3> QED BY <1>1, <3>1 DEF EntryRow
  <2> QED BY <1>1, <1>2, <2>1, <2>2, <2>3
<1>3. CASE VoidPurge(r)
  <2>1. ~VoidRow(r) /\ entry' = entry
    BY <1>3 DEF VoidRow, VoidPurge, Step
  <2>2. entry[e].status # "ABSENT"
    BY HeldExists, NoneAssumption DEF Serially, TargetInv
  <2>3. \A s \in Sections : exc'[e][s] = IF Provisional(exc[e][s]) THEN NoExc ELSE exc[e][s]
    BY <1>1, <1>3 DEF VoidPurge, Purged
  <2>4. computed'[e].exc = IF Provisional(computed[e].exc) THEN NoExc ELSE computed[e].exc
    <3>1. computed'[e] = PurgedComputed(computed[e]) /\ computed[e] \in ComputedRow
      BY <1>3 DEF VoidPurge, Serially, IInv, TypeInv, TypeOK
    <3> QED BY <3>1 DEF PurgedComputed, ComputedRow
  <2> QED BY <1>1, <2>1, <2>2, <2>3, <2>4
<1> QED BY <1>2, <1>3

(* A correction or a triage is of an exception that is provisional: of an  *)
(* entered field, or of the computed one.                                  *)
LEMMA EnteredLeaves ==
  ASSUME Serially, NEW e \in Entries, SettlesEntered(e)
  PROVE  /\ computed' = computed
         /\ \E s \in Sections :
              /\ Provisional(exc[e][s])
              /\ \E status \in {"ACKNOWLEDGED", "DISMISSED", "CORRECTED"} :
                   exc'[e] = [exc[e] EXCEPT ![s] = [exc[e][s] EXCEPT !.status = status]]
              /\ \/ value'[e] = value[e]
                 \/ /\ s # DateSection /\ exc'[e][s].status = "CORRECTED"
                    /\ \E v \in Values \cup {None} :
                         value'[e] = [value[e] EXCEPT ![s] = v]
<1>1. computed' = computed
  BY DEF SettlesEntered, Triage, Correct
<1>2. PICK s \in Sections :
        \/ \E status \in {"ACKNOWLEDGED", "DISMISSED"} : Triage(e, s, status)
        \/ s # DateSection /\ \E v \in Values \cup {None} : Correct(e, s, v)
  BY DEF SettlesEntered
<1>3. Provisional(exc[e][s])
  BY <1>2 DEF Triage, Correct
<1>5. exc[e] \in [Sections -> ExcRow] /\ value[e] \in Reading
  BY DEF Serially, IInv, TypeInv, TypeOK
<1>6. ASSUME NEW status \in {"ACKNOWLEDGED", "DISMISSED", "CORRECTED"},
             exc' = [exc EXCEPT ![e][s].status = status]
      PROVE  /\ exc'[e] = [exc[e] EXCEPT ![s] = [exc[e][s] EXCEPT !.status = status]]
             /\ exc'[e][s].status = status
  <2>1. exc'[e] = [exc[e] EXCEPT ![s] = [exc[e][s] EXCEPT !.status = status]]
    BY <1>6 DEF Serially, IInv, TypeInv, TypeOK
  <2> QED BY <1>5, <2>1 DEF ExcRow
<1>7. CASE \E status \in {"ACKNOWLEDGED", "DISMISSED"} : Triage(e, s, status)
  <2>1. value' = value
    BY <1>7 DEF Triage
  <2>2. PICK status \in {"ACKNOWLEDGED", "DISMISSED"} :
          exc' = [exc EXCEPT ![e][s].status = status]
    BY <1>7 DEF Triage
  <2>3. exc'[e] = [exc[e] EXCEPT ![s] = [exc[e][s] EXCEPT !.status = status]]
    BY <1>6, <2>2
  <2> QED BY <1>1, <1>3, <2>1, <2>3
<1>8. CASE s # DateSection /\ \E v \in Values \cup {None} : Correct(e, s, v)
  <2>1. PICK v \in Values \cup {None} : Correct(e, s, v)
    BY <1>8
  <2>2. exc' = [exc EXCEPT ![e][s].status = "CORRECTED"]
    BY <2>1 DEF Correct
  <2>3. /\ exc'[e] = [exc[e] EXCEPT ![s] = [exc[e][s] EXCEPT !.status = "CORRECTED"]]
        /\ exc'[e][s].status = "CORRECTED"
    BY <1>6, <2>2
  <2>4. value'[e] = [value[e] EXCEPT ![s] = v]
    BY <2>1 DEF Correct, Serially, IInv, TypeInv, TypeOK
  <2> QED BY <1>1, <1>3, <1>8, <2>3, <2>4
<1> QED BY <1>2, <1>7, <1>8

LEMMA ComputedLeaves ==
  ASSUME Serially, NEW e \in Entries, SettlesComputed(e)
  PROVE  /\ exc' = exc /\ value' = value
         /\ Provisional(computed[e].exc)
         /\ computed'[e].exc.status \in {"ACKNOWLEDGED", "DISMISSED", "CORRECTED"}
         /\ computed'[e].exc.stamped = computed[e].exc.stamped
         /\ computed'[e].value = computed[e].value \/ computed'[e].exc.status = "CORRECTED"
<1>1. exc' = exc /\ value' = value /\ Provisional(computed[e].exc)
  BY DEF SettlesComputed, TriageComputed, CorrectComputed
<1>2. computed[e] \in ComputedRow /\ computed \in [Entries -> ComputedRow]
  BY DEF Serially, IInv, TypeInv, TypeOK
<1>3. computed[e].exc \in ExcRow
  BY <1>2 DEF ComputedRow
<1>4. ASSUME NEW status \in {"ACKNOWLEDGED", "DISMISSED"}, TriageComputed(e, status)
      PROVE  /\ computed'[e].exc = [computed[e].exc EXCEPT !.status = status]
             /\ computed'[e].value = computed[e].value
  <2>1. computed'[e] = [computed[e] EXCEPT !.exc = [computed[e].exc EXCEPT !.status = status]]
    BY <1>2, <1>4 DEF TriageComputed
  <2> QED BY <1>2, <2>1 DEF ComputedRow
<1>5. ASSUME NEW v \in Values \cup {None}, CorrectComputed(e, v)
      PROVE  computed'[e].exc = [computed[e].exc EXCEPT !.status = "CORRECTED"]
  <2>1. computed'[e] = [value |-> v, exc |-> [computed[e].exc EXCEPT !.status = "CORRECTED"]]
    BY <1>2, <1>5 DEF CorrectComputed
  <2> QED BY <2>1
<1> QED BY <1>1, <1>3, <1>4, <1>5 DEF ExcRow, SettlesComputed

(* In either case, nothing else of the entry changes.                      *)
LEMMA SettlesLeaves ==
  ASSUME Serially, NEW e \in Entries, Settles(e)
  PROVE  /\ entry' = entry /\ section' = section /\ signature' = signature
         /\ entry[e].status # "ABSENT" /\ Flags(e) # {}
         /\ DateSection \in Sections => value'[e][DateSection] = value[e][DateSection]
<1>1. entry' = entry /\ section' = section /\ signature' = signature
  BY SettlesQuiet
<1>2. value[e] \in Reading
  BY DEF Serially, IInv, TypeInv, TypeOK
<1>3. ASSUME SettlesEntered(e)
      PROVE  /\ Flags(e) # {}
             /\ DateSection \in Sections => value'[e][DateSection] = value[e][DateSection]
  <2>1. PICK s \in Sections :
          /\ Provisional(exc[e][s])
          /\ \/ value'[e] = value[e]
             \/ /\ s # DateSection
                /\ \E v \in Values \cup {None} : value'[e] = [value[e] EXCEPT ![s] = v]
    BY <1>3, EnteredLeaves
  <2> QED BY <1>2, <2>1 DEF Reading, Flags
<1>4. ASSUME SettlesComputed(e) PROVE Flags(e) # {} /\ value' = value
  BY <1>4, ComputedLeaves DEF Flags
<1>5. Flags(e) # {} => entry[e].status # "ABSENT"
  BY DEF Serially, RowsInv, BlankRows, NoExc, Provisional, Flags
<1> QED BY <1>1, <1>3, <1>4, <1>5 DEF Settles

(* Everything that can happen to an entry, one request at a time.          *)
LEMMA SerialCases ==
  ASSUME Serially, [Next]_vars, NEW e \in Entries
  PROVE  \/ Untouched(e)
         \/ \E r : (\E d \in Date : Create(e, d)) \/ StartCreate(r, e)
         \/ \E r \in Requests : req[r].e = e /\ CommitSave(r)
         \/ \E r \in Requests : /\ req[r].e = e
                                /\ CommitSubmit(r) \/ CommitTransition(r)
         \/ \E r \in Requests : req[r].e = e /\ CommitDefer(r)
         \/ \E r \in Requests : req[r].e = e /\ (VoidRow(r) \/ VoidPurge(r))
         \/ Settles(e)
  BY EntryCases DEF EntryStep, Writes, Serially, IInv

LEMMA RowsStep ==
  ASSUME Serially, [Next]_vars PROVE RowsInv'
<1> SUFFICES ASSUME NEW e \in Entries
             PROVE  /\ entry'[e].status = "ABSENT" =>
                         /\ \A s \in Sections : value'[e][s] = None /\ exc'[e][s] = NoExc
                         /\ computed'[e] = [value |-> None, exc |-> NoExc]
                    /\ e \notin FlowEntries => entry'[e].cur = None
  BY DEF RowsInv, BlankRows, FormsHaveNoStage
<1>0. /\ entry[e] \in EntryRow
      /\ entry[e].status = "ABSENT" =>
           /\ \A s \in Sections : value[e][s] = None /\ exc[e][s] = NoExc
           /\ computed[e] = [value |-> None, exc |-> NoExc]
      /\ e \notin FlowEntries => entry[e].cur = None
  BY DEF Serially, IInv, TypeInv, TypeOK, RowsInv, BlankRows, FormsHaveNoStage
<1>1. CASE Untouched(e)
  BY <1>0, <1>1 DEF Untouched
<1>2. ASSUME NEW r, (\E d \in Date : Create(e, d)) \/ StartCreate(r, e)
      PROVE  entry'[e].status = "DRAFT" /\ (e \notin FlowEntries => entry'[e].cur = None)
  <2>1. PICK d \in Date : entry'[e] = NewRow(e, d)
    BY <1>2, CreatedRow DEF Serially, IInv
  <2> QED BY <2>1 DEF NewRow, Absent
<1>3. ASSUME NEW r \in Requests, req[r].e = e, CommitSave(r)
      PROVE  entry'[e].status = "DRAFT" /\ entry'[e].cur = entry[e].cur
  BY <1>3, SaveLeaves
<1>4. ASSUME NEW r \in Requests, req[r].e = e, CommitSubmit(r)
      PROVE  entry'[e].status = "SUBMITTED" /\ entry'[e].cur = entry[e].cur
  <2>1. entry'[e] = [SealedRow(entry[e], req[r]) EXCEPT !.status = "SUBMITTED"]
    BY <1>4 DEF CommitSubmit, Serially, IInv, TypeInv, TypeOK
  <2> QED BY <1>0, <2>1 DEF SealedRow, EntryRow
<1>5. ASSUME NEW r \in Requests, req[r].e = e, CommitTransition(r)
      PROVE  entry'[e].status # "ABSENT" /\ e \in FlowEntries
  BY <1>5, TransitionLeaves, SealLeaves
<1>6. ASSUME NEW r \in Requests, req[r].e = e, CommitDefer(r)
      PROVE  entry'[e].status = "DRAFT" /\ entry'[e].cur = entry[e].cur
  BY <1>6, DeferLeaves
<1>7. ASSUME NEW r \in Requests, req[r].e = e, VoidRow(r) \/ VoidPurge(r)
      PROVE  entry'[e].status # "ABSENT" /\ entry'[e].cur = entry[e].cur
  BY <1>7, VoidLeaves
<1>8. CASE Settles(e)
  BY <1>0, <1>8, SettlesLeaves
<1> QED
  BY <1>0, <1>1, <1>2, <1>3, <1>4, <1>5, <1>6, <1>7, <1>8, SerialCases

LEMMA SeriallyInit == Init => Serially
<1> SUFFICES ASSUME Init PROVE Serially
  OBVIOUS
<1>1. IInv /\ SerialInv
  BY TypeInit, SealInit, SerialInit DEF IInv
<1>2. TargetInv /\ ReadsInv
  BY DEF Init, TargetInv, OwnTarget, RoundsHeld, ReadsInv, Uncommitted, Holds, Idle
<1>3. RowsInv
  BY DEF Init, RowsInv, BlankRows, FormsHaveNoStage, Absent
<1> QED BY <1>1, <1>2, <1>3 DEF Serially

LEMMA SeriallyStep ==
  ASSUME ~MayOverlap, Serially, [Next]_vars PROVE Serially'
<1>1. IInv'
  BY TypeStep, SealStep DEF Serially, IInv
<1>2. SerialInv'
  BY StepRefines DEF Serially, Refined
<1>3. TargetInv'
  BY OwnTargetStep, RoundsHeldStep DEF Serially, TargetInv
<1> QED BY <1>1, <1>2, <1>3, ReadsStep, RowsStep DEF Serially

(* With one request at a time on each entry, what a request holds of its   *)
(* entry, its sections and its values is what is stored until it commits.  *)
THEOREM ReadsAreCurrent == ~MayOverlap => (Spec => []Serially)
<1> SUFFICES ASSUME ~MayOverlap PROVE Spec => []Serially
  OBVIOUS
<1> QED BY SeriallyInit, SeriallyStep, PTL DEF Spec

-----------------------------------------------------------------------------
(* What Serially gives: the properties of requests that follow one another *)

LEMMA LocksStep ==
  ASSUME Serially, LockMatchesStage, [Next]_vars PROVE LockMatchesStage'
<1> SUFFICES ASSUME NEW e \in Entries, e \in FlowEntries, entry'[e].sealed,
                    NEW s \in Sections
             PROVE  section'[e][s].state = "LOCKED" <=> ~Editable(s, entry'[e].cur)
  BY TemplateAssumption DEF LockMatchesStage, Editable
<1>0. /\ entry[e].sealed => (section[e][s].state = "LOCKED" <=> ~Editable(s, entry[e].cur))
      /\ section[e] \in [Sections -> SectionRow]
  BY DEF LockMatchesStage, Serially, IInv, TypeInv, TypeOK
<1>1. CASE Untouched(e)
  BY <1>0, <1>1 DEF Untouched
<1>2. ASSUME NEW r, (\E d \in Date : Create(e, d)) \/ StartCreate(r, e) PROVE FALSE
  BY <1>2, CreatedRow DEF Serially, IInv
<1>3. ASSUME NEW r \in Requests, req[r].e = e, CommitSave(r)
      PROVE  section'[e][s].state = "LOCKED" <=> ~Editable(s, entry'[e].cur)
  <2> PICK x : x = req[r].op.s
    OBVIOUS
  <2>1. x \in Sections /\ Editable(x, entry[e].cur)
    BY <1>3, SaveLeaves
  <2>3. OnlyAt(x, section[e], section'[e], SavedSection(section[e][x], req[r]))
    BY <1>3, SaveLeaves
  <2>4. entry'[e].sealed = entry[e].sealed /\ entry'[e].cur = entry[e].cur
    BY <1>3, SaveLeaves
  <2>2. SavedSection(section[e][x], req[r]).state # "LOCKED"
    BY DEF SavedSection
  <2> QED BY <1>0, <2>1, <2>2, <2>3, <2>4 DEF OnlyAt
<1>4. ASSUME NEW r \in Requests, req[r].e = e, CommitSubmit(r) PROVE FALSE
  <2>1. req[r].op.kind = "submit" /\ Current(req[r])
    BY <1>4, WriterKnows DEF Writes, CommitSubmit, VoidPurge, Step
  <2> QED BY <1>4, <2>1 DEF Current
<1>5. ASSUME NEW r \in Requests, req[r].e = e, CommitTransition(r)
      PROVE  section'[e][s].state = "LOCKED" <=> ~Editable(s, entry'[e].cur)
  <2> DEFINE to == req[r].op.t.to
             next == NextSectionState(section[e][s].state, Editable(s, to))
  <2>1. entry'[e].cur = to
    BY <1>5, TransitionLeaves
  <2>3. section'[e] = [x \in Sections |->
           LET n == NextSectionState(section[e][x].state, Editable(x, to))
           IN  IF n # section[e][x].state
               THEN [section[e][x] EXCEPT !.state = n] ELSE section[e][x]]
    BY <1>5, TransitionLeaves
  <2>4. section'[e][s] = IF next # section[e][s].state
                         THEN [section[e][s] EXCEPT !.state = next] ELSE section[e][s]
    BY <2>3
  <2>2. section'[e][s].state = next
    BY <1>0, <2>4 DEF SectionRow
  <2> QED BY <2>1, <2>2 DEF NextSectionState
<1>6. ASSUME NEW r \in Requests, req[r].e = e, CommitDefer(r) PROVE FALSE
  BY <1>6, DeferLeaves
<1>7. ASSUME NEW r \in Requests, req[r].e = e, VoidRow(r) \/ VoidPurge(r)
      PROVE  section'[e][s].state = "LOCKED" <=> ~Editable(s, entry'[e].cur)
  BY <1>0, <1>7, VoidLeaves
<1>8. CASE Settles(e)
  BY <1>0, <1>8, SettlesLeaves
<1> QED BY <1>1, <1>2, <1>3, <1>4, <1>5, <1>6, <1>7, <1>8, SerialCases

(* With one request at a time on each entry, the sections that are LOCKED  *)
(* are those that the stage of the entry does not edit, from the first     *)
(* transition on and also when it is sent back.                            *)
THEOREM LocksFollowTheStage == ~MayOverlap => (Spec => []LockMatchesStage)
<1> SUFFICES ASSUME ~MayOverlap PROVE Spec => []LockMatchesStage
  OBVIOUS
<1>1. Init => LockMatchesStage
  BY TemplateAssumption DEF Init, LockMatchesStage, Absent
<1> QED BY <1>1, LocksStep, ReadsAreCurrent, PTL DEF Spec

(* Resolve looks at the date field only.                                   *)
LEMMA ResolveByDate ==
  ASSUME NEW v, NEW w, NEW d, DateSection \in Sections => v[DateSection] = w[DateSection]
  PROVE  Resolve(v, d) = Resolve(w, d)
  BY TemplateAssumption DEF Resolve

LEMMA DatesStep ==
  ASSUME Serially, EffectiveDateResolved, [Next]_vars PROVE EffectiveDateResolved'
<1> SUFFICES ASSUME NEW e \in Entries, entry'[e].status = "DRAFT", ~entry'[e].sealed
             PROVE  entry'[e].eff = Resolve(value'[e], entry'[e].declared)
  BY DEF EffectiveDateResolved, Resolve
<1>0. entry[e].status = "DRAFT" /\ ~entry[e].sealed =>
        entry[e].eff = Resolve(value[e], entry[e].declared)
  BY DEF EffectiveDateResolved
<1>1. CASE Untouched(e)
  BY <1>0, <1>1 DEF Untouched
<1>2. ASSUME NEW r, (\E d \in Date : Create(e, d)) \/ StartCreate(r, e)
      PROVE  entry'[e].eff = Resolve(value'[e], entry'[e].declared)
  <2>1. PICK d \in Date : /\ entry'[e] = NewRow(e, d)
                          /\ \A s \in Sections :
                               value'[e][s] = IF s = DateSection THEN d ELSE None
    BY <1>2, CreateLeaves
  <2>2. entry'[e].eff = d /\ entry'[e].declared = d
    BY <2>1 DEF NewRow, Absent
  <2> QED BY <2>1, <2>2, TemplateAssumption DEF Resolve
<1>3. ASSUME NEW r \in Requests, req[r].e = e, CommitSave(r)
      PROVE  entry'[e].eff = Resolve(value'[e], entry'[e].declared)
  <2>1. /\ entry'[e].sealed = entry[e].sealed /\ entry'[e].declared = entry[e].declared
        /\ ~entry[e].sealed => entry'[e].eff = Resolve(value'[e], entry[e].declared)
    BY <1>3, SaveLeaves
  <2> QED BY <2>1
<1>4. ASSUME NEW r \in Requests, req[r].e = e, CommitSubmit(r) \/ CommitTransition(r)
      PROVE  FALSE
  BY <1>4, SealLeaves, TransitionLeaves
<1>5. ASSUME NEW r \in Requests, req[r].e = e, CommitDefer(r)
      PROVE  entry'[e].eff = Resolve(value'[e], entry'[e].declared)
  <2>1. PICK d : d = req[r].op.d
    OBVIOUS
  <2>2. entry'[e].declared = d /\ entry'[e].eff = Resolve(value'[e], d)
    BY <1>5, <2>1, DeferLeaves
  <2> QED BY <2>2
<1>6. ASSUME NEW r \in Requests, req[r].e = e, VoidRow(r) \/ VoidPurge(r)
      PROVE  entry'[e].eff = Resolve(value'[e], entry'[e].declared)
  BY <1>0, <1>6, VoidLeaves
<1>7. CASE Settles(e)
  <2>1. entry' = entry
    BY <1>7, SettlesLeaves
  <2>2. DateSection \in Sections => value'[e][DateSection] = value[e][DateSection]
    BY <1>7, SettlesLeaves
  <2>3. Resolve(value'[e], entry[e].declared) = Resolve(value[e], entry[e].declared)
    BY <2>2, ResolveByDate
  <2> QED BY <1>0, <2>1, <2>3
<1> QED BY <1>1, <1>2, <1>3, <1>4, <1>5, <1>6, <1>7, SerialCases

(* With one request at a time on each entry, the effective date stored     *)
(* with a draft is the one its stored values and declared date resolve to, *)
(* although every handler computes it from what it read.                   *)
THEOREM DatesAreResolved == ~MayOverlap => (Spec => []EffectiveDateResolved)
<1> SUFFICES ASSUME ~MayOverlap PROVE Spec => []EffectiveDateResolved
  OBVIOUS
<1>1. Init => EffectiveDateResolved
  BY DEF Init, EffectiveDateResolved, Absent
<1> QED BY <1>1, DatesStep, ReadsAreCurrent, PTL DEF Spec

(* With one request at a time on each entry, a commit that signs covers    *)
(* the values that it leaves stored, those it writes itself included, and  *)
(* the computed value too on an entry that is not sealed yet.              *)
THEOREM SignaturesCoverWhatIsStored == ~MayOverlap => (Spec => SignatureOverStored)
<1> SUFFICES ASSUME ~MayOverlap PROVE Spec => SignatureOverStored
  OBVIOUS
<1> DEFINE Covers(e) == signature'[e] # signature[e] =>
             /\ signature'[e].val = value'[e]
             /\ ~entry[e].sealed => signature'[e].calc = computed'[e].value
<1>1. ASSUME Serially, [Next]_vars PROVE \A e \in Entries : Covers(e)
  <2> SUFFICES ASSUME NEW e \in Entries PROVE Covers(e)
    OBVIOUS
  <2>0. ASSUME signature'[e] = Snapshot(value'[e]),
               ~entry[e].sealed => computed'[e].value = Computed(value'[e])
        PROVE  Covers(e)
    BY <2>0 DEF Snapshot
  <2>1. ASSUME NEW r, (\E d \in Date : Create(e, d)) \/ StartCreate(r, e)
        PROVE  signature'[e] = signature[e]
    BY <1>1, <2>1, CreateLeaves
  <2>2. ASSUME NEW r \in Requests, req[r].e = e, CommitSave(r) PROVE Covers(e)
    <3> PICK s : s = req[r].op.s
      OBVIOUS
    <3>1. /\ signature'[e] = signature[e] \/ signature'[e] = Snapshot(value'[e])
          /\ ~entry[e].sealed => computed'[e].value = Computed(value'[e])
      BY <1>1, <2>2, SaveLeaves
    <3> QED BY <2>0, <3>1
  <2>3. ASSUME NEW r \in Requests, req[r].e = e, CommitTransition(r) PROVE Covers(e)
    <3>1. /\ signature'[e] = signature[e] \/ signature'[e] = Snapshot(value'[e])
          /\ value'[e] = value[e]
      BY <1>1, <2>3, TransitionLeaves
    <3>2. ~entry[e].sealed => computed'[e].value = Computed(value[e])
      BY <1>1, <2>3, TransitionLeaves, SealLeaves
    <3>3. ~entry[e].sealed => computed'[e].value = Computed(value'[e])
      BY <3>1, <3>2
    <3> QED BY <2>0, <3>1, <3>3
  <2>4. ASSUME NEW r \in Requests, req[r].e = e,
               CommitSubmit(r) \/ CommitDefer(r) \/ VoidRow(r) \/ VoidPurge(r)
        PROVE  signature'[e] = signature[e]
    BY <2>4 DEF CommitSubmit, CommitDefer, VoidRow, VoidPurge
  <2>5. CASE Settles(e) \/ Untouched(e)
    BY <1>1, <2>5, SettlesLeaves DEF Untouched
  <2> QED BY <1>1, <2>1, <2>2, <2>3, <2>4, <2>5, SerialCases
<1>2. Spec => [][\A e \in Entries : Covers(e)]_vars
  <2>1. Serially /\ [Next]_vars => [\A e \in Entries : Covers(e)]_vars
    BY <1>1
  <2> QED BY <2>1, ReadsAreCurrent, PTL DEF Spec
<1> QED BY <1>2 DEF SignatureOverStored

-----------------------------------------------------------------------------
(* The two writes that follow a void                                       *)

(* A request past its first write is voiding, and its entry is VOID; one   *)
(* that is about to link is starting an occurrence.                        *)
Voiding(q) == q.pc \in {"unlink", "purge"}
VoidsFirst ==
  \A r \in Requests :
    /\ Voiding(req[r]) => /\ req[r].op.kind = "void" /\ req[r].e \in Entries
                          /\ entry[req[r].e].status = "VOID"
    /\ req[r].pc = "link" => OnRound(req[r])

LEMMA VoidsFirstStep ==
  ASSUME ~MayOverlap, Serially, VoidsFirst, [Next]_vars PROVE VoidsFirst'
<1> SUFFICES ASSUME NEW p \in Requests
             PROVE  /\ Voiding(req'[p]) =>
                         /\ req'[p].op.kind = "void" /\ req'[p].e \in Entries
                         /\ entry'[req'[p].e].status = "VOID"
                    /\ req'[p].pc = "link" => OnRound(req'[p])
  BY DEF VoidsFirst, Voiding, OnRound
<1>0. req \in [Requests -> InFlight \cup {Idle}] /\ TypeInv
  BY DEF Serially, IInv, TypeInv, TypeOK
<1>1. CASE req'[p] = req[p]
  <2>1. ASSUME Voiding(req[p]) PROVE entry'[req[p].e].status = "VOID"
    <3>1. /\ req[p].op.kind = "void" /\ req[p].e \in Entries
          /\ entry[req[p].e].status = "VOID"
      BY <2>1 DEF VoidsFirst
    <3>2. ~Writes(p)
      <4>1. ~VoidPurge(p)
        BY <1>0, <1>1, <2>1, NoneAssumption DEF VoidPurge, Finish, Idle, Voiding
      <4> QED BY <2>1, <4>1, WritesParts DEF Voiding, Uncommitted, Serially
    <3> QED BY <3>1, <3>2, HeldEntry, NoneAssumption DEF Serially
  <2> QED BY <1>1, <2>1 DEF VoidsFirst
<1>2. CASE req'[p] = Idle
  BY <1>2 DEF Idle, Voiding
<1>3. CASE Begin(p)
  BY <1>0, <1>3, BeginLoads DEF Voiding
<1>4. CASE Checks(p)
  BY <1>0, <1>4, AdvanceKeeps DEF Voiding
<1>5. CASE VoidRow(p) \/ VoidUnlink(p)
  <2>1. PICK q : /\ req' = [req EXCEPT ![p] = q]
                 /\ q.e = req[p].e /\ q.op = req[p].op /\ q.pc \in {"unlink", "purge"}
    BY <1>0, <1>5, AdvanceKeeps
  <2>2. req[p].e \in Entries /\ req[p].op.kind = "void"
    BY <1>0, <1>5, AdvanceKeeps DEF VoidRow, VoidUnlink, Step
  <2>3. entry'[req[p].e].status = "VOID"
    <3>1. CASE VoidRow(p)
      BY <2>2, <3>1, VoidLeaves
    <3>2. CASE VoidUnlink(p)
      BY <3>2 DEF VoidUnlink, Step, VoidsFirst, Voiding
    <3> QED BY <1>5, <3>1, <3>2
  <2> QED BY <1>0, <2>1, <2>2, <2>3 DEF Voiding
<1>6. ASSUME NEW e \in Entries, StartCreate(p, e)
      PROVE  req'[p].pc = "link" /\ OnRound(req'[p])
  <2>1. req[p] \in InFlight
    BY <1>0, <1>6, InFlightParts DEF StartCreate, Step, Idle
  <2> QED BY <1>0, <1>6, <2>1 DEF StartCreate, Step, InFlight, OnRound
<1> QED BY <1>0, <1>1, <1>2, <1>3, <1>4, <1>5, <1>6, RequestCases DEF Advances, Voiding

LEMMA VoidsFirstInit == Init => VoidsFirst
  BY DEF Init, VoidsFirst, Voiding, Idle

(* Only voiding makes an entry VOID.                                       *)
LEMMA BecomesVoid ==
  ASSUME Serially, [Next]_vars, NEW e \in Entries,
         entry'[e].status = "VOID", entry[e].status # "VOID"
  PROVE  \E r \in Requests : req[r].e = e /\ VoidRow(r)
<1>1. ~Untouched(e)
  BY DEF Untouched
<1>2. ASSUME NEW r, (\E d \in Date : Create(e, d)) \/ StartCreate(r, e) PROVE FALSE
  BY <1>2, CreatedRow DEF Serially, IInv
<1>3. ASSUME NEW r \in Requests, req[r].e = e, CommitSave(r) \/ CommitDefer(r) PROVE FALSE
  BY <1>3, SaveLeaves, DeferLeaves
<1>4. ASSUME NEW r \in Requests, req[r].e = e, CommitSubmit(r) \/ CommitTransition(r)
      PROVE  FALSE
  BY <1>4, SealLeaves, TransitionLeaves
<1>5. ASSUME NEW r \in Requests, req[r].e = e, VoidPurge(r) PROVE FALSE
  BY <1>5, VoidLeaves
<1>6. ~Settles(e)
  BY SettlesLeaves
<1> QED BY <1>1, <1>2, <1>3, <1>4, <1>5, <1>6, SerialCases

(* A request on a VOID entry is the one that is voiding it, and without a  *)
(* stop of the process it goes on to its next write.                       *)
LEMMA VoidHolder ==
  ASSUME Serially, VoidsFirst, NEW r \in Requests, NEW e \in Entries,
         req[r].e = e, entry[e].status = "VOID"
  PROVE  Voiding(req[r])
<1>1. req[r] \in InFlight /\ req[r].pc # "idle"
  <2>1. req[r] # Idle
    BY NoneAssumption DEF Idle
  <2>2. req[r] \in InFlight
    BY <2>1 DEF Serially, IInv, TypeInv, TypeOK
  <2> QED BY <2>2 DEF InFlight
<1>2. ~OnRound(req[r])
  <2>1. OnRound(req[r]) => RoundHeld(req[r])
    BY <1>1 DEF Serially, TargetInv, RoundsHeld
  <2> QED BY <2>1, NoneAssumption DEF RoundHeld
<1>3. ~Uncommitted(req[r])
  BY DEF Serially, SerialInv, UpToDate, Current
<1> QED BY <1>1, <1>2, <1>3 DEF InFlight, Uncommitted, Holds, Voiding, VoidsFirst

LEMMA VoidingGoesOn ==
  ASSUME ~MayCrash, Serially, [Next]_vars, NEW r \in Requests, Voiding(req[r])
  PROVE  req'[r] = req[r] \/ VoidUnlink(r) \/ VoidPurge(r)
<1>0. req \in [Requests -> InFlight \cup {Idle}] /\ TypeInv
  BY DEF Serially, IInv, TypeInv, TypeOK
<1>1. CASE UNCHANGED vars
  BY <1>1 DEF vars
<1>2. ASSUME NEW p \in Requests, Begin(p) PROVE req'[r] = req[r]
  <2>1. p # r
    <3>1. req[r] # Idle
      BY DEF Voiding, Idle
    <3> QED BY <1>2, <3>1 DEF Begin, LoadSave, LoadSubmit, LoadTransition, LoadDefer,
               LoadVoid, LoadRound, Load
  <2> QED BY <1>0, <1>2, <2>1, BeginReads
<1>3. ASSUME NEW p \in Requests, p # r, Continue(p) PROVE req'[r] = req[r]
  <2>1. CASE Checks(p) \/ VoidRow(p) \/ VoidUnlink(p)
    BY <1>0, <1>3, <2>1, AdvanceKeeps
  <2>2. ASSUME NEW e \in Entries, StartCreate(p, e) PROVE req'[r] = req[r]
    BY <1>0, <1>3, <2>2 DEF StartCreate
  <2>3. ASSUME \/ CommitSave(p) \/ CommitSubmit(p) \/ CommitTransition(p)
               \/ CommitDefer(p) \/ VoidPurge(p) \/ StartLink(p) \/ CommitSkip(p)
               \/ Reject(p) \/ Crash(p)
        PROVE  req'[r] = req[r]
    <3>1. Finish(p)
      BY <2>3 DEF CommitSave, CommitSubmit, CommitTransition, CommitDefer, VoidPurge,
         StartLink, CommitSkip, Reject, Crash
    <3> QED BY <1>0, <1>3, <3>1 DEF Finish
  <2> QED BY <1>3, <2>1, <2>2, <2>3 DEF Continue, Checks
<1>4. ASSUME Continue(r) PROVE VoidUnlink(r) \/ VoidPurge(r)
  <2>1. /\ ~CommitSave(r) /\ ~CommitSubmit(r) /\ ~CommitTransition(r) /\ ~CommitDefer(r)
        /\ ~VoidRow(r) /\ ~StartLink(r) /\ ~CommitSkip(r)
    BY DEF CommitSave, CommitSubmit, CommitTransition, CommitDefer, VoidRow, StartLink,
       CommitSkip, Step, Voiding
  <2>2. ~CheckSave(r) /\ ~CheckSubmit(r) /\ ~CheckTransition(r) /\ ~CheckDefer(r)
    BY DEF CheckSave, CheckSubmit, CheckTransition, CheckDefer, Step, Voiding
  <2>3. ~Reject(r) /\ ~Crash(r) /\ ~\E e \in Entries : StartCreate(r, e)
    BY DEF Reject, Crash, StartCreate, Step, Voiding
  <2> QED BY <1>4, <2>1, <2>2, <2>3 DEF Continue
<1>5. ASSUME \/ \E e \in Entries, d \in Date : Create(e, d)
             \/ \E e \in Entries : Settles(e)
      PROVE  req'[r] = req[r]
  BY <1>5, SettlesQuiet DEF Create
<1> QED BY <1>1, <1>2, <1>3, <1>4, <1>5 DEF Next

(* A form is submitted only over the sections it was checked complete in,  *)
(* with its computed value computed anew; afterwards only a correction     *)
(* changes a value, and says so in the exception.                          *)
LEMMA SubmittedStep ==
  ASSUME Serially, VoidsFirst, SubmittedComplete, [Next]_vars PROVE SubmittedComplete'
<1> DEFINE Whole(e) ==
             /\ \A s \in Sections :
                  /\ section[e][s].state = "COMPLETED"
                  /\ value[e][s] = None => exc[e][s].status = "CORRECTED"
             /\ computed[e].value \in Alarming => computed[e].exc # NoExc
             /\ (\A s \in Sections : exc[e][s].status # "CORRECTED")
                  /\ computed[e].exc.status # "CORRECTED"
                  => computed[e].value = Computed(value[e])
<1> SUFFICES ASSUME NEW e \in Entries, e \notin FlowEntries,
                    entry'[e].status = "SUBMITTED"
             PROVE  Whole(e)'
  BY DEF SubmittedComplete, Computed
<1>0. /\ entry[e].status = "SUBMITTED" => Whole(e)
      /\ computed[e] \in ComputedRow /\ exc[e] \in [Sections -> ExcRow]
      /\ value[e] \in Reading
  BY DEF SubmittedComplete, Serially, IInv, TypeInv, TypeOK
<1>1. CASE Untouched(e)
  BY <1>0, <1>1 DEF Untouched, Computed
<1>2. ASSUME NEW r, (\E d \in Date : Create(e, d)) \/ StartCreate(r, e) PROVE FALSE
  BY <1>2, CreatedRow DEF Serially, IInv
<1>3. ASSUME NEW r \in Requests, req[r].e = e, CommitSave(r) \/ CommitDefer(r) PROVE FALSE
  BY <1>3, SaveLeaves, DeferLeaves
<1>4. ASSUME NEW r \in Requests, req[r].e = e, CommitTransition(r) PROVE FALSE
  BY <1>4, TransitionLeaves
<1>5. ASSUME NEW r \in Requests, req[r].e = e, CommitSubmit(r) PROVE Whole(e)'
  <2>1. req[r].ent = entry[e] /\ ReadsStored(req[r]) /\ req[r].pc = "ready"
        /\ req[r].op.kind = "submit"
    BY <1>5, WriterKnows DEF Writes, CommitSubmit, VoidPurge, Step
  <2>2. SectionsDone(e, entry[e].cur)
    BY <1>5, <2>1 DEF ReadsStored
  <2>3. entry[e].cur = None
    BY DEF Serially, RowsInv, FormsHaveNoStage
  <2>4. section' = section /\ value' = value
    BY <1>5 DEF CommitSubmit
  <2>5. \A s \in Sections : section'[e][s].state = "COMPLETED" /\ value'[e][s] # None
    BY <2>2, <2>3, <2>4 DEF SectionsDone, Editable
  <2>6. /\ computed'[e].value = Computed(value[e])
        /\ computed'[e].exc =
             Stamp(Reconcile(computed[e].exc, Computed(value[e]) \in Alarming, TRUE))
    BY <1>5, SealLeaves
  <2>7. computed'[e].value \in Alarming => computed'[e].exc # NoExc
    BY <1>0, <2>6 DEF Stamp, Reconcile, NoExc, ComputedRow, ExcRow
  <2> QED BY <2>4, <2>5, <2>6, <2>7 DEF Computed
<1>6. ASSUME NEW r \in Requests, req[r].e = e, VoidRow(r) \/ VoidPurge(r) PROVE FALSE
  <2>1. CASE VoidRow(r)
    BY <1>6, <2>1, VoidLeaves
  <2>2. CASE VoidPurge(r)
    <3>1. entry[e].status = "VOID"
      BY <1>6, <2>2 DEF VoidPurge, Step, VoidsFirst, Voiding
    <3> QED BY <1>6, <2>2, <3>1, VoidLeaves
  <2> QED BY <1>6, <2>1, <2>2
<1>7. ASSUME SettlesEntered(e) PROVE Whole(e)'
  <2>1. section' = section /\ entry' = entry
    BY <1>7, SettlesLeaves DEF Settles
  <2>2. PICK s \in Sections :
          /\ Provisional(exc[e][s])
          /\ \E status \in {"ACKNOWLEDGED", "DISMISSED", "CORRECTED"} :
               exc'[e] = [exc[e] EXCEPT ![s] = [exc[e][s] EXCEPT !.status = status]]
          /\ \/ value'[e] = value[e]
             \/ /\ exc'[e][s].status = "CORRECTED"
                /\ \E v \in Values \cup {None} : value'[e] = [value[e] EXCEPT ![s] = v]
    BY <1>7, EnteredLeaves
  <2>3. computed' = computed
    BY <1>7, EnteredLeaves
  <2>4. \A x \in Sections \ {s} : exc'[e][x] = exc[e][x] /\ value'[e][x] = value[e][x]
    BY <1>0, <2>2 DEF Reading
  <2>5. exc[e][s].status # "CORRECTED" /\ value[e][s] # None
    BY <1>0, <2>1, <2>2 DEF Provisional
  <2>6. value'[e] = value[e] \/ exc'[e][s].status = "CORRECTED"
    BY <2>2
  <2>7. \A x \in Sections : value'[e][x] = None => exc'[e][x].status = "CORRECTED"
    BY <1>0, <2>1, <2>4, <2>5, <2>6
  <2>8. (\A x \in Sections : exc'[e][x].status # "CORRECTED") =>
          value'[e] = value[e] /\ \A x \in Sections : exc[e][x].status # "CORRECTED"
    BY <2>4, <2>5, <2>6
  <2> QED BY <1>0, <2>1, <2>3, <2>7, <2>8 DEF Computed
<1>8. ASSUME SettlesComputed(e) PROVE Whole(e)'
  <2>1. section' = section /\ entry' = entry
    BY <1>8, SettlesLeaves DEF Settles
  <2> QED BY <1>0, <1>8, <2>1, ComputedLeaves DEF Computed, Provisional, NoExc
<1> QED
  BY <1>1, <1>2, <1>3, <1>4, <1>5, <1>6, <1>7, <1>8, SerialCases DEF Settles

(* With one request at a time on each entry, a SUBMITTED form is complete  *)
(* in every section; what is empty in it has been corrected.  Its computed *)
(* value has an exception if it is out of range, and is what the entered   *)
(* values give unless one of them, or itself, has been corrected.          *)
THEOREM SubmittedFormsAreComplete == ~MayOverlap => (Spec => []SubmittedComplete)
<1> SUFFICES ASSUME ~MayOverlap PROVE Spec => []SubmittedComplete
  OBVIOUS
<1>1. Init => SubmittedComplete
  BY DEF Init, SubmittedComplete, Absent
<1>2. Spec => [](Serially /\ VoidsFirst)
  BY VoidsFirstInit, VoidsFirstStep, ReadsAreCurrent, PTL DEF Spec
<1> QED BY <1>1, <1>2, SubmittedStep, PTL DEF Spec

(* ExceptionsMatchValues in its two parts: what holds of an entry that is  *)
(* in use, and of one that is VOID and done with.                          *)
Tracked(x, alarms, sealed) ==
  /\ alarms => x # NoExc
  /\ x.status = "OPEN" => alarms
  /\ sealed /\ x # NoExc => x.stamped
Tracks ==
  \A e \in Entries : entry[e].status \in {"DRAFT", "SUBMITTED"} =>
    /\ \A s \in Sections : Tracked(exc[e][s], Alarms(s, value[e][s]), entry[e].sealed)
    /\ entry[e].sealed /\ computed[e].exc # NoExc => computed[e].exc.stamped
LeftClean ==
  \A e \in Entries : entry[e].status = "VOID" /\ (\A r \in Requests : req[r].e # e) =>
    /\ \A s \in Sections : ~Provisional(exc[e][s])
    /\ ~Provisional(computed[e].exc)

(* Reconciling a field makes its exception track the value, whatever the   *)
(* exception was; a seal stamps it.                                        *)
LEMMA ReconcileTracks ==
  ASSUME NEW x \in ExcRow, NEW a \in BOOLEAN, NEW b \in BOOLEAN
  PROVE  /\ (b /\ x # NoExc => x.stamped) => Tracked(Reconcile(x, a, b), a, b)
         /\ Tracked(Stamp(Reconcile(x, a, TRUE)), a, TRUE)
  BY DEF Tracked, Reconcile, Stamp, NoExc, ExcRow

LEMMA EnteredTracks ==
  ASSUME Serially, VoidsFirst, Tracks, [Next]_vars,
         NEW e \in Entries, entry'[e].status \in {"DRAFT", "SUBMITTED"},
         NEW s \in Sections
  PROVE  Tracked(exc'[e][s], Alarms(s, value'[e][s]), entry'[e].sealed)
<1> DEFINE Goal == Tracked(exc'[e][s], Alarms(s, value'[e][s]), entry'[e].sealed)
<1>0. /\ entry[e].status \in {"DRAFT", "SUBMITTED"} =>
           Tracked(exc[e][s], Alarms(s, value[e][s]), entry[e].sealed)
      /\ exc[e][s] \in ExcRow /\ entry[e].sealed \in BOOLEAN
      /\ value[e] \in Reading /\ Alarms(s, value[e][s]) \in BOOLEAN
  BY DEF Tracks, Serially, IInv, TypeInv, TypeOK, EntryRow, Alarms
<1>1. CASE Untouched(e)
  BY <1>0, <1>1 DEF Untouched
<1>2. ASSUME NEW r, (\E d \in Date : Create(e, d)) \/ StartCreate(r, e) PROVE Goal
  <2>1. s # DateSection => value'[e][s] = None
    BY <1>2, CreateLeaves
  <2>2. exc'[e][s] = NoExc
    BY <1>2, CreateLeaves
  <2> QED BY <2>1, <2>2, TemplateAssumption, NoneAssumption DEF Tracked, Alarms, NoExc
<1>3. ASSUME NEW r \in Requests, req[r].e = e, CommitSave(r) PROVE Goal
  <2> PICK x : x = req[r].op.s
    OBVIOUS
  <2>1. /\ x \in Sections /\ entry'[e].sealed = entry[e].sealed
        /\ Seen(req[r]) = [value[e] EXCEPT ![x] = req[r].op.v] /\ value'[e] = Seen(req[r])
    BY <1>3, SaveLeaves
  <2>2. OnlyAt(x, exc[e], exc'[e], SavedExc(exc[e][x], req[r]))
    BY <1>3, SaveLeaves
  <2>3. /\ entry[e].status = "DRAFT" /\ req[r].ent = entry[e] /\ req[r].op.s = x
    BY <1>3, WriterKnows DEF Writes, CommitSave, VoidPurge, Step
  <2>4. CASE s = x
    <3>1. value'[e][s] = req[r].op.v
      BY <1>0, <2>1, <2>4 DEF Reading
    <3>2. exc'[e][s] = Reconcile(exc[e][s], Alarms(s, req[r].op.v), entry[e].sealed)
      BY <2>2, <2>3, <2>4 DEF OnlyAt, SavedExc
    <3>3. Alarms(s, req[r].op.v) \in BOOLEAN
      BY DEF Alarms
    <3>4. entry[e].sealed /\ exc[e][s] # NoExc => exc[e][s].stamped
      BY <1>0, <2>3 DEF Tracked
    <3>5. Tracked(Reconcile(exc[e][s], Alarms(s, req[r].op.v), entry[e].sealed),
                  Alarms(s, req[r].op.v), entry[e].sealed)
      BY <2>3, <3>3, <3>4, ReconcileTracks DEF EntryRow, Serially, IInv, TypeInv, TypeOK
    <3> QED BY <2>1, <3>1, <3>2, <3>5
  <2>5. CASE s # x
    <3>1. value'[e][s] = value[e][s]
      BY <1>0, <2>1, <2>5 DEF Reading
    <3>2. exc'[e][s] = exc[e][s]
      BY <2>2, <2>5 DEF OnlyAt
    <3> QED BY <1>0, <2>1, <2>3, <3>1, <3>2
  <2> QED BY <2>4, <2>5
<1>4. ASSUME NEW r \in Requests, req[r].e = e,
             CommitSubmit(r) \/ (CommitTransition(r) /\ SealsHere(req[r]))
      PROVE  Goal
  <2>1. entry'[e].sealed /\ value'[e] = value[e]
    BY <1>4, SealLeaves
  <2>2. exc'[e] = [x \in Sections |->
                     Stamp(Reconcile(exc[e][x], Alarms(x, value[e][x]), TRUE))]
    BY <1>4, SealLeaves
  <2>3. exc'[e][s] = Stamp(Reconcile(exc[e][s], Alarms(s, value[e][s]), TRUE))
    BY <2>2
  <2>4. Tracked(exc'[e][s], Alarms(s, value[e][s]), TRUE)
    BY <1>0, <2>3, ReconcileTracks
  <2> QED BY <2>1, <2>4 DEF Tracked
<1>5. ASSUME NEW r \in Requests, req[r].e = e, CommitTransition(r), ~SealsHere(req[r])
      PROVE  Goal
  <2>1. /\ entry'[e].sealed /\ entry[e].sealed /\ exc'[e] = exc[e] /\ value'[e] = value[e]
    BY <1>5, TransitionLeaves
  <2>2. entry[e].status = "DRAFT"
    BY <1>5, WriterKnows DEF Writes, CommitTransition, VoidPurge, Step
  <2> QED BY <1>0, <2>1, <2>2 DEF Tracked
<1>6. ASSUME NEW r \in Requests, req[r].e = e, CommitDefer(r) PROVE Goal
  <2> PICK d : d = req[r].op.d
    OBVIOUS
  <2>1. /\ entry[e].status = "DRAFT" /\ ~entry[e].sealed /\ ~entry'[e].sealed
        /\ exc'[e] = exc[e]
    BY <1>6, DeferLeaves
  <2>2. value'[e][s] = IF s = DateSection /\ d # None THEN d ELSE value[e][s]
    BY <1>6, DeferLeaves
  <2>3. Alarms(s, value'[e][s]) = Alarms(s, value[e][s])
    BY <2>2 DEF Alarms
  <2> QED BY <1>0, <2>1, <2>3 DEF Tracked
<1>7. ASSUME NEW r \in Requests, req[r].e = e, VoidRow(r) \/ VoidPurge(r) PROVE FALSE
  <2>1. CASE VoidRow(r)
    BY <1>7, <2>1, VoidLeaves
  <2>2. CASE VoidPurge(r)
    <3>1. entry[e].status = "VOID"
      BY <1>7, <2>2 DEF VoidPurge, Step, VoidsFirst, Voiding
    <3> QED BY <1>7, <2>2, <3>1, VoidLeaves
  <2> QED BY <1>7, <2>1, <2>2
<1>8. ASSUME SettlesEntered(e) PROVE Goal
  <2>1. entry' = entry
    BY <1>8, SettlesLeaves DEF Settles
  <2>2. PICK x \in Sections :
          /\ Provisional(exc[e][x])
          /\ \E status \in {"ACKNOWLEDGED", "DISMISSED", "CORRECTED"} :
               exc'[e] = [exc[e] EXCEPT ![x] = [exc[e][x] EXCEPT !.status = status]]
          /\ \/ value'[e] = value[e]
             \/ \E v \in Values \cup {None} : value'[e] = [value[e] EXCEPT ![x] = v]
    BY <1>8, EnteredLeaves
  <2>3. PICK status \in {"ACKNOWLEDGED", "DISMISSED", "CORRECTED"} :
          exc'[e] = [exc[e] EXCEPT ![x] = [exc[e][x] EXCEPT !.status = status]]
    BY <2>2
  <2>4. exc[e] \in [Sections -> ExcRow]
    BY DEF Serially, IInv, TypeInv, TypeOK
  <2>5. CASE s = x
    <3>1. exc'[e][s] = [exc[e][s] EXCEPT !.status = status]
      BY <2>3, <2>4, <2>5
    <3>2. exc'[e][s].status = status /\ exc'[e][s].stamped = exc[e][s].stamped
      BY <1>0, <3>1 DEF ExcRow
    <3>3. exc[e][s] # NoExc
      BY <2>2, <2>5 DEF Provisional, NoExc
    <3> QED BY <1>0, <2>1, <3>2, <3>3 DEF Tracked, NoExc
  <2>6. CASE s # x
    <3>1. exc'[e][s] = exc[e][s]
      BY <2>3, <2>4, <2>6
    <3>2. value'[e][s] = value[e][s]
      BY <1>0, <2>2, <2>6 DEF Reading
    <3> QED BY <1>0, <2>1, <3>1, <3>2
  <2> QED BY <2>5, <2>6
<1>9. ASSUME SettlesComputed(e) PROVE Goal
  BY <1>0, <1>9, SettlesLeaves, ComputedLeaves DEF Settles
<1> QED
  BY <1>1, <1>2, <1>3, <1>4, <1>5, <1>6, <1>7, <1>8, <1>9, SerialCases DEF Settles

(* The exception of the computed value carries the seal of its entry, also *)
(* one that a save raises in a later stage.                                *)
LEMMA ComputedTracks ==
  ASSUME Serially, VoidsFirst, Tracks, [Next]_vars,
         NEW e \in Entries, entry'[e].status \in {"DRAFT", "SUBMITTED"},
         entry'[e].sealed, computed'[e].exc # NoExc
  PROVE  computed'[e].exc.stamped
<1>0. /\ entry[e].status \in {"DRAFT", "SUBMITTED"} /\ entry[e].sealed =>
           computed[e].exc = NoExc \/ computed[e].exc.stamped
      /\ computed[e] \in ComputedRow /\ computed[e].exc \in ExcRow
  BY DEF Tracks, Serially, IInv, TypeInv, TypeOK, ComputedRow
<1>1. CASE Untouched(e)
  BY <1>0, <1>1 DEF Untouched
<1>2. ASSUME NEW r, (\E d \in Date : Create(e, d)) \/ StartCreate(r, e) PROVE FALSE
  BY <1>2, CreateLeaves
<1>3. ASSUME NEW r \in Requests, req[r].e = e, CommitSave(r)
      PROVE  computed'[e].exc.stamped
  <2> PICK x : x = req[r].op.s
    OBVIOUS
  <2>1. /\ entry'[e].sealed = entry[e].sealed
        /\ computed'[e] = SavedComputed(computed[e], req[r])
    BY <1>3, SaveLeaves
  <2>2. entry[e].status = "DRAFT" /\ req[r].ent = entry[e]
    BY <1>3, WriterKnows DEF Writes, CommitSave, VoidPurge, Step
  <2>3. Stamped(computed[e], req[r], Seen(req[r])) = computed[e]
    BY <2>1, <2>2 DEF Stamped
  <2>4. computed'[e].exc \in {computed[e].exc, NoExc, [status |-> "OPEN", stamped |-> TRUE]}
    <3>1. computed'[e].exc =
            IF req[r].op.s = CalcSection
            THEN Reconcile(computed[e].exc, Computed(Seen(req[r])) \in Alarming, TRUE)
            ELSE computed[e].exc
      <4>1. req[r].ent.sealed = TRUE
        BY <2>1, <2>2 DEF EntryRow, Serially, IInv, TypeInv, TypeOK
      <4>2. computed'[e] =
              [computed[e] EXCEPT !.exc =
                 IF req[r].op.s = CalcSection
                 THEN Reconcile(computed[e].exc, Computed(Seen(req[r])) \in Alarming, TRUE)
                 ELSE computed[e].exc]
        BY <2>1, <2>3, <4>1, Zenon DEF SavedComputed
      <4> QED BY <1>0, <4>2 DEF ComputedRow
    <3> QED BY <3>1 DEF Reconcile
  <2> QED BY <1>0, <2>1, <2>2, <2>4
<1>4. ASSUME NEW r \in Requests, req[r].e = e,
             CommitSubmit(r) \/ (CommitTransition(r) /\ SealsHere(req[r]))
      PROVE  computed'[e].exc.stamped
  <2>1. computed'[e].exc =
          Stamp(Reconcile(computed[e].exc, Computed(value[e]) \in Alarming, TRUE))
    BY <1>4, SealLeaves
  <2> QED BY <1>0, <2>1 DEF Stamp, Reconcile, NoExc, ExcRow
<1>5. ASSUME NEW r \in Requests, req[r].e = e, CommitTransition(r), ~SealsHere(req[r])
      PROVE  computed'[e].exc.stamped
  <2>1. entry[e].sealed /\ computed'[e] = computed[e]
    BY <1>5, TransitionLeaves
  <2>2. entry[e].status = "DRAFT"
    BY <1>5, WriterKnows DEF Writes, CommitTransition, VoidPurge, Step
  <2> QED BY <1>0, <2>1, <2>2
<1>6. ASSUME NEW r \in Requests, req[r].e = e, CommitDefer(r) PROVE FALSE
  BY <1>6, DeferLeaves
<1>7. ASSUME NEW r \in Requests, req[r].e = e, VoidRow(r) \/ VoidPurge(r) PROVE FALSE
  <2>1. CASE VoidRow(r)
    BY <1>7, <2>1, VoidLeaves
  <2>2. CASE VoidPurge(r)
    <3>1. entry[e].status = "VOID"
      BY <1>7, <2>2 DEF VoidPurge, Step, VoidsFirst, Voiding
    <3> QED BY <1>7, <2>2, <3>1, VoidLeaves
  <2> QED BY <1>7, <2>1, <2>2
<1>8. CASE Settles(e)
  <2>1. entry' = entry
    BY <1>8, SettlesLeaves
  <2>2. \/ computed' = computed
        \/ /\ computed[e].exc # NoExc
           /\ computed'[e].exc.stamped = computed[e].exc.stamped
    BY <1>8, EnteredLeaves, ComputedLeaves DEF Settles, Provisional, NoExc
  <2> QED BY <1>0, <2>1, <2>2
<1> QED
  BY <1>1, <1>2, <1>3, <1>4, <1>5, <1>6, <1>7, <1>8, SerialCases

LEMMA TracksStep ==
  ASSUME Serially, VoidsFirst, Tracks, [Next]_vars PROVE Tracks'
  BY EnteredTracks, ComputedTracks DEF Tracks, Tracked, Alarms

(* A VOID entry whose request is over has been purged, unless the process  *)
(* stopped before its last write.                                          *)
LEMMA LeftCleanStep ==
  ASSUME ~MayCrash, Serially, VoidsFirst, LeftClean, [Next]_vars PROVE LeftClean'
<1> DEFINE Clean(e) == /\ \A s \in Sections : ~Provisional(exc[e][s])
                       /\ ~Provisional(computed[e].exc)
<1> SUFFICES ASSUME NEW e \in Entries, entry'[e].status = "VOID",
                    \A r \in Requests : req'[r].e # e
             PROVE  Clean(e)'
  BY DEF LeftClean, Provisional
<1>0. req \in [Requests -> InFlight \cup {Idle}]
  BY DEF Serially, IInv, TypeInv, TypeOK
<1>1. entry[e].status = "VOID"
  <2>1. ASSUME NEW r \in Requests, req[r].e = e, VoidRow(r) PROVE FALSE
    <3>1. req'[r].e = e
      BY <1>0, <2>1, AdvanceKeeps DEF Serially, IInv
    <3> QED BY <3>1
  <2> QED BY <2>1, BecomesVoid
<1>2. ASSUME NEW r \in Requests, req[r].e = e PROVE Clean(e)'
  <2>1. Voiding(req[r])
    BY <1>1, <1>2, VoidHolder
  <2>2. CASE VoidPurge(r)
    BY <1>2, <2>2, VoidLeaves DEF Provisional, NoExc
  <2>3. CASE req'[r] = req[r]
    BY <1>2, <2>3
  <2>4. CASE VoidUnlink(r)
    BY <1>0, <1>2, <2>4, AdvanceKeeps DEF Serially, IInv
  <2> QED BY <2>1, <2>2, <2>3, <2>4, VoidingGoesOn
<1>3. CASE \A r \in Requests : req[r].e # e
  <2>1. Clean(e)
    BY <1>1, <1>3 DEF LeftClean
  <2>2. Untouched(e) \/ \E r : (\E d \in Date : Create(e, d)) \/ StartCreate(r, e)
    <3>1. Flags(e) = {}
      BY <2>1 DEF Flags
    <3> QED BY <1>3, <3>1, SettlesLeaves, SerialCases
  <2>3. Untouched(e)
    BY <1>1, <2>2, CreatedRow DEF Serially, IInv
  <2> QED BY <2>1, <2>3 DEF Untouched, Provisional
<1> QED BY <1>2, <1>3

(* With one request at a time on each entry, and although it may stop, an  *)
(* entered value that is out of range has an exception, an untriaged       *)
(* exception of an entered value is of one out of range, and those of a    *)
(* sealed entry carry the seal, that of the computed value too.            *)
THEOREM ValuesHaveExceptions == ~MayOverlap => (Spec => []Tracks)
<1> SUFFICES ASSUME ~MayOverlap PROVE Spec => []Tracks
  OBVIOUS
<1>1. Init => Tracks
  BY DEF Init, Tracks, Absent
<1>2. Spec => [](Serially /\ VoidsFirst)
  BY VoidsFirstInit, VoidsFirstStep, ReadsAreCurrent, PTL DEF Spec
<1> QED BY <1>1, <1>2, TracksStep, PTL DEF Spec

(* If moreover no process stops between the writes of a void, a VOID entry *)
(* is left with no provisional exception: exceptions follow the values.    *)
THEOREM ExceptionsFollowValues ==
  ~MayOverlap /\ ~MayCrash => (Spec => []ExceptionsMatchValues)
<1> SUFFICES ASSUME ~MayOverlap, ~MayCrash PROVE Spec => []ExceptionsMatchValues
  OBVIOUS
<1>1. Init => LeftClean
  BY DEF Init, LeftClean, Absent
<1>2. Tracks /\ LeftClean => ExceptionsMatchValues
  BY DEF Tracks, Tracked, LeftClean, ExceptionsMatchValues
<1>3. Spec => [](Serially /\ VoidsFirst)
  BY VoidsFirstInit, VoidsFirstStep, ReadsAreCurrent, PTL DEF Spec
<1> QED BY <1>1, <1>2, <1>3, ValuesHaveExceptions, LeftCleanStep, PTL DEF Spec

-----------------------------------------------------------------------------
(* Occurrences and their entries                                           *)

(* An entry is sealed by the step that fulfils its occurrence, and only    *)
(* then.                                                                   *)
LEMMA SealedTogether ==
  ASSUME Serially, VoidsFirst, [Next]_vars, NEW e \in Entries
  PROVE  \/ entry'[e].sealed = entry[e].sealed
         \/ ~entry[e].sealed /\ entry'[e].sealed /\ round' = FulfilRound(e)
<1>1. CASE Untouched(e) \/ Settles(e)
  BY <1>1, SettlesLeaves DEF Untouched
<1>2. ASSUME NEW r, (\E d \in Date : Create(e, d)) \/ StartCreate(r, e)
      PROVE  entry'[e].sealed = entry[e].sealed
  <2>1. entry[e].status = "ABSENT" /\ ~entry'[e].sealed
    BY <1>2, CreatedRow DEF Serially, IInv
  <2>2. entry[e] = Absent /\ entry'[e].sealed = FALSE
    <3>1. entry'[e] \in EntryRow
      BY TypeStep DEF Serially, IInv, TypeInv, TypeOK
    <3> QED BY <2>1, <3>1 DEF Serially, IInv, SealInv, AbsentIsBlank, EntryRow
  <2>3. Absent.sealed = FALSE
    BY DEF Absent
  <2> QED BY <2>2, <2>3
<1>3. ASSUME NEW r \in Requests, req[r].e = e, CommitSave(r)
      PROVE  entry'[e].sealed = entry[e].sealed
  BY <1>3, SaveLeaves
<1>4. ASSUME NEW r \in Requests, req[r].e = e,
             CommitSubmit(r) \/ (CommitTransition(r) /\ SealsHere(req[r]))
      PROVE  ~entry[e].sealed /\ entry'[e].sealed /\ round' = FulfilRound(e)
  BY <1>4, SealLeaves
<1>5. ASSUME NEW r \in Requests, req[r].e = e, CommitTransition(r), ~SealsHere(req[r])
      PROVE  entry'[e].sealed = entry[e].sealed
  <2>1. entry'[e] = MovedRow(entry[e], req[r])
    BY <1>5 DEF CommitTransition, Serially, IInv, TypeInv, TypeOK
  <2>2. entry[e] \in EntryRow
    BY DEF Serially, IInv, TypeInv, TypeOK
  <2> QED BY <2>1, <2>2 DEF MovedRow, EntryRow
<1>6. ASSUME NEW r \in Requests, req[r].e = e,
             CommitDefer(r) \/ VoidRow(r) \/ VoidPurge(r)
      PROVE  entry'[e].sealed = entry[e].sealed
  <2>1. entry[e] \in EntryRow
    BY DEF Serially, IInv, TypeInv, TypeOK
  <2>2. CASE CommitDefer(r)
    <3>1. entry'[e] = [entry[e] EXCEPT !.declared = req[r].op.d, !.eff = DeferredEff(req[r])]
      BY <1>6, <2>2 DEF CommitDefer, Serially, IInv, TypeInv, TypeOK
    <3> QED BY <2>1, <3>1 DEF EntryRow
  <2>3. CASE VoidRow(r) \/ VoidPurge(r)
    BY <1>6, <2>3, VoidLeaves
  <2> QED BY <1>6, <2>2, <2>3
<1> QED BY <1>1, <1>2, <1>3, <1>4, <1>5, <1>6, SerialCases

LEMMA RoundFollowsStep ==
  ASSUME Serially, VoidsFirst, RoundFollowsEntry, [Next]_vars PROVE RoundFollowsEntry'
<1> DEFINE Follows(o) ==
      /\ round'[o].link # None =>
           (round'[o].status = "COMPLETED" <=> entry'[round'[o].link].sealed)
      /\ round'[o].status = "SKIPPED" => round'[o].link = None
<1> SUFFICES ASSUME NEW o \in Rounds PROVE Follows(o)
  BY DEF RoundFollowsEntry
<1>0. /\ round[o] \in RoundRow /\ round \in [Rounds -> RoundRow]
      /\ round[o].link # None =>
           (round[o].status = "COMPLETED" <=> entry[round[o].link].sealed)
      /\ round[o].status = "SKIPPED" => round[o].link = None
  BY DEF RoundFollowsEntry, Serially, IInv, TypeInv, TypeOK
<1>1. ASSUME NEW e \in Entries, round[o].link = e, round' = FulfilRound(e),
             entry'[e].sealed
      PROVE  Follows(o)
  <2>1. round'[o] = IF round[o].status = "PENDING"
                    THEN [round[o] EXCEPT !.status = "COMPLETED"] ELSE round[o]
    BY <1>1 DEF FulfilRound
  <2>2. round'[o].link = e /\ round'[o].status = "COMPLETED"
    BY <1>0, <1>1, <2>1, NoneAssumption DEF RoundRow
  <2> QED BY <1>1, <2>2
<1>2. CASE round'[o] = round[o] /\ round[o].link = None
  BY <1>0, <1>2
<1>3. CASE round'[o] = round[o] /\ round[o].link # None
  <2>1. PICK e \in Entries : e = round[o].link
    BY <1>0, <1>3 DEF RoundRow
  <2>2. CASE entry'[e].sealed = entry[e].sealed
    BY <1>0, <1>3, <2>1, <2>2
  <2>3. CASE entry'[e].sealed /\ round' = FulfilRound(e)
    BY <1>1, <2>1, <2>3
  <2> QED BY <2>2, <2>3, SealedTogether
<1>4. ASSUME NEW r \in Requests, req[r].e \in Entries, round[o].link = req[r].e,
             round' = FulfilRound(req[r].e), CommitSubmit(r) \/ CommitTransition(r)
      PROVE  Follows(o)
  <2>1. entry'[req[r].e].sealed
    BY <1>4, SealLeaves, TransitionLeaves
  <2> QED BY <1>1, <1>4, <2>1
<1>5. ASSUME NEW r \in Requests, round[o].link = req[r].e, VoidUnlink(r) PROVE Follows(o)
  <2>1. round'[o] = [status |-> "PENDING", link |-> None]
    BY <1>5 DEF VoidUnlink, ReleasedRounds
  <2> QED BY <2>1
<1>6. ASSUME NEW r \in Requests, req[r].o = o, StartLink(r) PROVE Follows(o)
  <2>1. RoundHeld(req[r]) /\ req[r].pc = "link"
    BY <1>6 DEF StartLink, Step, OnRound, Serially, TargetInv, RoundsHeld
  <2>2. round'[o] = [round[o] EXCEPT !.link = req[r].e] /\ entry' = entry
    BY <1>0, <1>6 DEF StartLink
  <2>3. round'[o].link = req[r].e /\ round'[o].status = "PENDING"
    BY <1>0, <1>6, <2>1, <2>2 DEF RoundRow, RoundHeld
  <2> QED BY <2>1, <2>2, <2>3 DEF RoundHeld
<1>7. ASSUME NEW r \in Requests, req[r].o = o, CommitSkip(r) PROVE Follows(o)
  <2>1. RoundHeld(req[r])
    BY <1>7 DEF CommitSkip, Step, OnRound, Serially, TargetInv, RoundsHeld
  <2>2. round'[o] = [round[o] EXCEPT !.status = "SKIPPED"]
    BY <1>0, <1>7 DEF CommitSkip
  <2>3. round'[o].link = None
    BY <1>0, <1>7, <2>1, <2>2 DEF RoundRow, RoundHeld
  <2> QED BY <2>3
<1> QED
  BY <1>2, <1>3, <1>4, <1>5, <1>6, <1>7, RoundCases DEF Serially, IInv

(* With one request at a time on each entry and occurrence, a linked       *)
(* occurrence is COMPLETED exactly when its entry is sealed, and a skipped *)
(* one has no entry, although starting one takes two writes.               *)
THEOREM RoundsFollowEntries == ~MayOverlap => (Spec => []RoundFollowsEntry)
<1> SUFFICES ASSUME ~MayOverlap PROVE Spec => []RoundFollowsEntry
  OBVIOUS
<1>1. Init => RoundFollowsEntry
  BY DEF Init, RoundFollowsEntry
<1>2. Spec => [](Serially /\ VoidsFirst)
  BY VoidsFirstInit, VoidsFirstStep, ReadsAreCurrent, PTL DEF Spec
<1> QED BY <1>1, <1>2, RoundFollowsStep, PTL DEF Spec

(* A round whose entry is VOID is about to be released by the request that *)
(* voided it.                                                              *)
Releasing ==
  \A o \in Rounds : round[o].link # None /\ entry[round[o].link].status = "VOID" =>
    \E r \in Requests : req[r].e = round[o].link /\ req[r].pc = "unlink"

LEMMA ReleasingStep ==
  ASSUME ~MayCrash, Serially, VoidsFirst, Releasing, [Next]_vars PROVE Releasing'
<1> SUFFICES ASSUME NEW o \in Rounds, round'[o].link # None,
                    entry'[round'[o].link].status = "VOID"
             PROVE  \E r \in Requests : req'[r].e = round'[o].link /\ req'[r].pc = "unlink"
  BY DEF Releasing
<1>0. /\ round[o] \in RoundRow /\ round \in [Rounds -> RoundRow]
      /\ req \in [Requests -> InFlight \cup {Idle}] /\ TypeInv
  BY DEF Serially, IInv, TypeInv, TypeOK
<1>1. CASE round'[o].link = round[o].link
  <2> PICK e \in Entries : e = round[o].link
    BY <1>0, <1>1 DEF RoundRow
  <2>1. CASE entry[e].status # "VOID"
    <3>1. PICK r \in Requests : req[r].e = e /\ VoidRow(r)
      BY <1>1, <2>1, BecomesVoid
    <3>2. req'[r].e = e /\ req'[r].pc = "unlink"
      BY <1>0, <3>1, AdvanceKeeps
    <3> QED BY <1>1, <3>2
  <2>2. CASE entry[e].status = "VOID"
    <3>1. PICK r \in Requests : req[r].e = e /\ req[r].pc = "unlink"
      BY <1>1, <2>2 DEF Releasing
    <3>2. ~VoidUnlink(r)
      <4>1. ASSUME VoidUnlink(r) PROVE round'[o] = [status |-> "PENDING", link |-> None]
        BY <3>1, <4>1 DEF VoidUnlink, ReleasedRounds
      <4> QED BY <4>1
    <3>3. ~VoidPurge(r)
      BY <3>1 DEF VoidPurge, Step
    <3>4. req'[r] = req[r]
      BY <3>1, <3>2, <3>3, VoidingGoesOn DEF Voiding
    <3> QED BY <1>1, <3>1, <3>4
  <2> QED BY <2>1, <2>2
<1>2. ASSUME NEW e \in Entries, round' = FulfilRound(e)
      PROVE  round'[o].link = round[o].link
  BY <1>0, <1>2 DEF FulfilRound, RoundRow
<1>3. ASSUME NEW r \in Requests, round[o].link = req[r].e, VoidUnlink(r) PROVE FALSE
  <2>1. round'[o] = [status |-> "PENDING", link |-> None]
    BY <1>3 DEF VoidUnlink, ReleasedRounds
  <2> QED BY <2>1
<1>4. ASSUME NEW r \in Requests, req[r].o = o, StartLink(r) PROVE FALSE
  <2>1. RoundHeld(req[r]) /\ req[r].pc = "link"
    BY <1>4 DEF StartLink, Step, OnRound, Serially, TargetInv, RoundsHeld
  <2>2. round'[o] = [round[o] EXCEPT !.link = req[r].e] /\ entry' = entry
    BY <1>0, <1>4 DEF StartLink
  <2>3. round'[o].link = req[r].e
    BY <1>0, <2>2 DEF RoundRow
  <2> QED BY <2>1, <2>2, <2>3 DEF RoundHeld
<1>5. ASSUME NEW r \in Requests, req[r].o = o, CommitSkip(r)
      PROVE  round'[o].link = round[o].link
  <2>1. round'[o] = [round[o] EXCEPT !.status = "SKIPPED"]
    BY <1>0, <1>5 DEF CommitSkip
  <2> QED BY <1>0, <2>1 DEF RoundRow
<1> QED BY <1>0, <1>1, <1>2, <1>3, <1>4, <1>5, RoundCases

(* With one request at a time on each entry and no stop of the process     *)
(* between its writes, no occurrence is left pointing at a VOID entry.     *)
THEOREM VoidsReleaseRounds == ~MayOverlap /\ ~MayCrash => (Spec => []VoidReleasesRound)
<1> SUFFICES ASSUME ~MayOverlap, ~MayCrash PROVE Spec => []VoidReleasesRound
  OBVIOUS
<1>1. Init => Releasing
  BY DEF Init, Releasing
<1>2. Releasing => VoidReleasesRound
  BY DEF Releasing, VoidReleasesRound
<1>3. Spec => [](Serially /\ VoidsFirst)
  BY VoidsFirstInit, VoidsFirstStep, ReadsAreCurrent, PTL DEF Spec
<1> QED BY <1>1, <1>2, <1>3, ReleasingStep, PTL DEF Spec

-----------------------------------------------------------------------------
(* The series of folios                                                    *)

(* Every number the counter gave is on an entry.                           *)
FoliosGiven == \A n \in 1..counter : \E e \in Entries : entry[e].folio = n

(* As the record that it implements, an entry takes its number once, and   *)
(* it is the next one.                                                     *)
LEMMA FoliosGivenStep ==
  ASSUME IInv, FoliosGiven, [Record!Next]_(Record!vars) PROVE FoliosGiven'
<1>0. /\ counter \in Nat /\ entry \in [Entries -> EntryRow]
      /\ \A e \in Entries : entry[e].folio # 0 => entry[e].sealed
  BY DEF IInv, TypeInv, TypeOK, SealInv, SealGate
<1>1. CASE UNCHANGED Record!vars
  <2>1. counter' = counter /\ \A e \in Entries : entry'[e].folio = entry[e].folio
    BY <1>1 DEF Record!vars
  <2> QED BY <2>1 DEF FoliosGiven
<1>2. ASSUME NEW r \in Entries, Record!Only(r), Record!Numberless(r) PROVE FoliosGiven'
  <2>1. \A x \in Entries \ {r} : entry'[x].folio = entry[x].folio
    BY <1>2 DEF Record!Only, Record!Row
  <2>2. counter' = counter /\ entry'[r].folio = entry[r].folio
    BY <1>2 DEF Record!Numberless
  <2> QED BY <2>1, <2>2 DEF FoliosGiven
<1>3. ASSUME NEW r \in Entries, Record!Only(r), RecordState(r) = "open",
             counter' = counter + 1, entry'[r].folio = counter'
      PROVE  FoliosGiven'
  <2>1. \A x \in Entries \ {r} : entry'[x].folio = entry[x].folio
    BY <1>3 DEF Record!Only, Record!Row
  <2>2. entry[r].folio = 0
    <3>1. entry[r].status = "DRAFT" /\ ~entry[r].sealed
      BY <1>0, <1>3 DEF RecordState, EntryRow
    <3> QED BY <1>0, <3>1
  <2> SUFFICES ASSUME NEW n \in 1..counter'
               PROVE  \E e \in Entries : entry'[e].folio = n
    BY DEF FoliosGiven
  <2>3. CASE n = counter'
    BY <1>3, <2>3
  <2>4. CASE n # counter'
    <3>1. n \in 1..counter
      BY <1>0, <1>3, <2>4
    <3>2. PICK e \in Entries : entry[e].folio = n
      BY <3>1 DEF FoliosGiven
    <3>3. e # r
      BY <2>2, <3>1, <3>2
    <3> QED BY <2>1, <3>2, <3>3
  <2> QED BY <2>3, <2>4
<1>4. ASSUME NEW r \in Entries, Record!Seal(r) PROVE FoliosGiven'
  <2>1. Record!Only(r) /\ RecordState(r) = "open"
    BY <1>4 DEF Record!Seal, Record!Moves
  <2> QED BY <1>2, <1>3, <1>4, <2>1 DEF Record!Seal
<1>5. ASSUME NEW r \in Entries,
             \/ Record!Open(r) \/ Record!Amend(r) \/ Record!Void(r) \/ Record!Fill(r)
             \/ Record!Close(r) \/ Record!Settle(r)
      PROVE  Record!Only(r) /\ Record!Numberless(r)
  BY <1>5 DEF Record!Open, Record!Amend, Record!Void, Record!Fill, Record!Close,
     Record!Settle, Record!Moves
<1> QED BY <1>1, <1>2, <1>4, <1>5 DEF Record!Next

(* Numbers that are all given, and given once, are as many as the entries  *)
(* that have one.                                                          *)
LEMMA GivenOnce ==
  ASSUME IInv, FoliosGiven PROVE FolioGapless
<1> DEFINE Numbered == {e \in Entries : entry[e].folio # 0}
           holder == [n \in 1..counter |-> CHOOSE e \in Entries : entry[e].folio = n]
<1>0. /\ counter \in Nat /\ FolioUnique
      /\ \A e \in Entries : entry[e].folio \in Nat
  BY DEF IInv, TypeInv, TypeOK, SealInv, EntryRow
<1>1. \A n \in 1..counter : holder[n] \in Entries /\ entry[holder[n]].folio = n
  BY DEF FoliosGiven
<1> HIDE DEF holder
<1>2. holder \in [1..counter -> Numbered]
  <2>1. holder = [n \in 1..counter |-> holder[n]]
    BY DEF holder
  <2>2. \A n \in 1..counter : holder[n] \in Numbered
    BY <1>0, <1>1
  <2> QED BY <2>1, <2>2, Zenon
<1>3. IsInjective(holder)
  BY <1>1, <1>2 DEF IsInjective
<1>4. \A e \in Numbered : \E n \in 1..counter : holder[n] = e
  <2> SUFFICES ASSUME NEW e \in Entries, entry[e].folio # 0
               PROVE  \E n \in 1..counter : holder[n] = e
    OBVIOUS
  <2>1. entry[e].folio \in 1..counter
    BY <1>0 DEF FolioUnique
  <2>2. entry[holder[entry[e].folio]].folio = entry[e].folio
    BY <1>1, <2>1
  <2>3. holder[entry[e].folio] = e
    BY <1>0, <1>1, <2>1, <2>2 DEF FolioUnique
  <2> QED BY <2>1, <2>3
<1>5. ExistsBijection(1..counter, Numbered)
  <2>1. holder \in Bijection(1..counter, Numbered)
    BY <1>2, <1>3, <1>4, Zenon DEF Bijection, Injection, Surjection
  <2> QED BY <2>1 DEF ExistsBijection
<1>6. IsFiniteSet(1..counter) /\ Cardinality(1..counter) = counter
  BY <1>0, FS_Interval
<1>7. Cardinality(Numbered) = counter
  BY <1>5, <1>6, FS_Bijection
<1> QED BY <1>7 DEF FolioGapless

(* With one request at a time on each entry, the series has no gap: the    *)
(* counter counts the entries that carry a folio.                          *)
THEOREM SeriesHasNoGap == ~MayOverlap => (Spec => []FolioGapless)
<1> SUFFICES ASSUME ~MayOverlap PROVE Spec => []FolioGapless
  OBVIOUS
<1>1. Init => FoliosGiven
  BY DEF Init, FoliosGiven
<1>2. Serially /\ [Next]_vars => [Record!Next]_(Record!vars)
  BY StepRefines DEF Serially, Refined
<1>3. Serially /\ FoliosGiven /\ [Next]_vars => FoliosGiven'
  BY <1>2, FoliosGivenStep DEF Serially
<1>4. Serially /\ FoliosGiven => FolioGapless
  BY GivenOnce DEF Serially
<1> QED BY <1>1, <1>3, <1>4, ReadsAreCurrent, PTL DEF Spec

-----------------------------------------------------------------------------
(* With one request at a time on each entry, a save is applied to the      *)
(* version of the section that it checked: what overlapping saves can      *)
(* lose is lost to the overlap alone, no other step comes between.         *)
THEOREM SavesAreOnCheckedVersion == ~MayOverlap => (Spec => SaveOnCheckedVersion)
<1> SUFFICES ASSUME ~MayOverlap PROVE Spec => SaveOnCheckedVersion
  OBVIOUS
<1> DEFINE OnChecked ==
      \A r \in Requests :
        Step(r, "save", "ready") /\ req'[r] = Idle /\ section' # section =>
          section[req[r].e][req[r].op.s] = req[r].sec[req[r].op.s]
<1>1. Serially => OnChecked
  BY DEF Serially, ReadsInv, Uncommitted, Holds, OnRound, Step, ReadsStored
<1>2. Spec => [][OnChecked]_vars
  BY <1>1, ReadsAreCurrent, PTL DEF Spec
<1> QED BY <1>2 DEF SaveOnCheckedVersion
=============================================================================
