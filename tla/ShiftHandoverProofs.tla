------------------------- MODULE ShiftHandoverProofs -------------------------
(***************************************************************************)
(* What holds of the handovers of an area whatever the numbers of shifts,  *)
(* handovers, notes, objects, users and requests are, as long as the       *)
(* requests come one after the other.                                      *)
(***************************************************************************)
EXTENDS ShiftHandover, TLAPS

USE SetAssumption, NoneAssumption

(* What each kind of request carries.                                      *)
LEMMA OpParts ==
  ASSUME NEW op \in Op
  PROVE  /\ op.kind \in {"compile", "signOut", "acknowledge", "cancel", "addItem", "updateItem"}
         /\ op.kind \in {"compile", "signOut", "acknowledge"} => op.u \in Users
         /\ op.kind = "compile" => op.shift \in Shifts
         /\ op.kind = "addItem" => op.line \in Notes
         /\ op.kind = "updateItem" => op.line \in Lines /\ op.status \in ItemStatus \ {"ABSENT"}
  BY DEF Op

LEMMA RequestParts ==
  ASSUME IInv, NEW r \in Clerks, clerk[r].pc # "idle"
  PROVE  /\ clerk[r] \in InFlight /\ clerk[r] # Idle
         /\ clerk[r].op \in Op /\ clerk[r].seen \in SUBSET Refs
         /\ clerk[r].pc # "create" => clerk[r].h \in Handovers /\ Exists(clerk[r].h)
  <1>1. clerk[r] \in InFlight /\ clerk[r] # Idle
    BY DEF IInv, TypeOK, Idle
  <1>2. /\ clerk[r].op \in Op /\ clerk[r].seen \in SUBSET Refs
        /\ clerk[r].pc \in {"create", "roll", "cockpit", "add", "close", "write"}
    BY <1>1 DEF InFlight
  <1>3. clerk[r].pc # "create" => clerk[r].h \in Handovers /\ Exists(clerk[r].h)
    BY <1>2 DEF IInv, RequestInv
  <1> QED  BY <1>1, <1>2, <1>3

LEMMA NoRow == NoHandover \in HandoverRow
  BY DEF NoHandover, HandoverRow

-----------------------------------------------------------------------------
(* What a step leaves alone *)

(* A step that changes no row keeps what holds of the rows when it creates *)
(* or changes items, of handovers not acknowledged, and removes none.      *)
LEMMA ItemsStep ==
  ASSUME IInv, handover' = handover,
         \A h \in Handovers, l \in Lines :
           /\ item[h][l] # "ABSENT" => item'[h][l] # "ABSENT"
           /\ handover[h].status = "ACKNOWLEDGED" => item'[h][l] = item[h][l]
  PROVE  OnePerShift' /\ TwoPersons' /\ NotesRoll' /\ \A h \in Handovers : RowInv(h)'
  <1>1. OnePerShift' /\ TwoPersons' /\ \A h \in Handovers : RowInv(h)'
    BY DEF IInv, OnePerShift, TwoPersons, RowInv, Live, Exists
  <1>2. ASSUME NEW h \in Handovers \ {1}, handover[h].rolled,
               handover[h - 1].status = "ACKNOWLEDGED", h - 1 \in handover[h].acked,
               NEW n \in Notes, item'[h - 1][n] \in {"OPEN", "CARRIED"}
        PROVE  item'[h][n] # "ABSENT"
    <2>1. h - 1 \in Handovers /\ n \in Lines
      BY DEF Handovers, Lines
    <2>2. item[h - 1][n] \in {"OPEN", "CARRIED"}
      BY <1>2, <2>1
    <2> QED  BY <1>2, <2>1, <2>2 DEF IInv, NotesRoll
  <1>3. NotesRoll'
    BY <1>2 DEF NotesRoll
  <1> QED  BY <1>1, <1>3

LEMMA RowsKept ==
  ASSUME IInv, handover' = handover, item' = item
  PROVE  OnePerShift' /\ TwoPersons' /\ NotesRoll' /\ \A h \in Handovers : RowInv(h)'
  BY ItemsStep

(* Nothing is checked of a clerk that is idle.                             *)
LEMMA IdleHolds ==
  ASSUME NEW x \in Clerks, clerk'[x] = Idle
  PROVE  RequestInv(x)'
  BY DEF RequestInv, Idle

(* A request that ends leaves every clerk idle.                            *)
LEMMA FinishInv ==
  ASSUME IInv, NEW r \in Clerks, clerk[r] # Idle, Finish(r)
  PROVE  /\ clerk' \in [Clerks -> InFlight \cup {Idle}]
         /\ \A x \in Clerks : RequestInv(x)'
  <1>1. \A x \in Clerks : clerk'[x] = Idle
    BY DEF Finish, IInv, TypeOK, RequestInv
  <1>2. \A x \in Clerks : RequestInv(x)'
    BY <1>1, IdleHolds
  <1>3. clerk \in [Clerks -> InFlight \cup {Idle}] /\ clerk' = [clerk EXCEPT ![r] = Idle]
    BY Zenon DEF Finish, IInv, TypeOK
  <1> QED  BY <1>2, <1>3

(* A request that begins, or goes on, is alone.                            *)
LEMMA AloneInv ==
  ASSUME IInv, NEW r \in Clerks, NEW q \in InFlight,
         clerk' = [clerk EXCEPT ![r] = q],
         \A x \in Clerks \ {r} : clerk[x] = Idle,
         clerk'[r] = q => RequestInv(r)'
  PROVE  /\ clerk' \in [Clerks -> InFlight \cup {Idle}]
         /\ \A x \in Clerks : RequestInv(x)'
  <1>1. clerk'[r] = q /\ \A x \in Clerks \ {r} : clerk'[x] = Idle
    BY DEF IInv, TypeOK
  <1>2. ASSUME NEW x \in Clerks \ {r}
        PROVE  RequestInv(x)'
    <2>1. clerk'[x] = Idle
      BY <1>1
    <2> QED  BY <2>1, IdleHolds
  <1>3. clerk' \in [Clerks -> InFlight \cup {Idle}]
    BY DEF IInv, TypeOK
  <1>4. ASSUME NEW x \in Clerks
        PROVE  RequestInv(x)'
    <2>1. CASE x = r
      BY <1>1, <2>1
    <2>2. CASE x # r
      BY <1>2, <2>2
    <2> QED  BY <2>1, <2>2
  <1> QED  BY <1>3, <1>4

LEMMA OthersIdle ==
  ASSUME IInv, NEW r \in Clerks, clerk[r] # Idle
  PROVE  \A x \in Clerks \ {r} : clerk[x] = Idle
  BY DEF IInv, RequestInv

-----------------------------------------------------------------------------
(* The writes *)

(* A handover is created after the others, and for a shift without one.    *)
LEMMA CreateInv ==
  ASSUME IInv, NEW r \in Clerks, Create(r)
  PROVE  IInv'
  <1> DEFINE q == clerk[r]
  <1>1. q \in InFlight /\ q # Idle /\ q.op \in Op
    BY RequestParts DEF Create
  <1>2. q.op.kind = "compile" /\ q.op.shift \in Shifts
    BY <1>1, OpParts DEF Create, IInv, RequestInv
  <1>3. PICK h \in Fresh :
          /\ \A g \in Fresh : h <= g
          /\ handover' = [handover EXCEPT ![h] =
               [NoHandover EXCEPT !.status = "COMPILING", !.shift = q.op.shift,
                  !.acked = {g \in Handovers : handover[g].status = "ACKNOWLEDGED"}]]
          /\ clerk' = [clerk EXCEPT ![r].pc = "roll", ![r].h = h]
    BY DEF Create
  <1> DEFINE row == [NoHandover EXCEPT !.status = "COMPILING", !.shift = q.op.shift,
                       !.acked = {g \in Handovers : handover[g].status = "ACKNOWLEDGED"}]
  <1>4. h \in Handovers /\ handover[h].status = "ABSENT"
    BY DEF Fresh, Exists
  <1>5. /\ row \in HandoverRow /\ row.status = "COMPILING" /\ row.shift = q.op.shift
        /\ row.acked = {g \in Handovers : handover[g].status = "ACKNOWLEDGED"}
        /\ row.rolled = FALSE
    BY <1>2, NoRow DEF NoHandover, HandoverRow
  <1>6. handover'[h] = row /\ \A g \in Handovers \ {h} : handover'[g] = handover[g]
    BY <1>3, <1>4 DEF IInv, TypeOK
  <1>7. \A g \in Handovers : g > h => handover[g] = NoHandover /\ ~Exists(g)
    BY <1>4 DEF IInv, RowInv, Exists
  <1> HIDE DEF row
  <1>8. open' \in SUBSET Refs /\ handover' \in [Handovers -> HandoverRow]
        /\ item' \in [Handovers -> [Lines -> ItemStatus]]
    BY <1>3, <1>5, <1>4 DEF Create, IInv, TypeOK, row
  <1>9. OnePerShift'
    <2>1. \A g \in Handovers : Live(g) => handover[g].shift # q.op.shift
      BY <1>1 DEF Create, IInv, RequestInv
    <2> QED  BY <1>5, <1>6, <2>1 DEF OnePerShift, IInv, Live
  <1>10. TwoPersons'
    BY <1>5, <1>6 DEF TwoPersons, IInv
  <1>11. NotesRoll'
    <2> SUFFICES ASSUME NEW k \in Handovers \ {1}, handover'[k].rolled,
                        handover'[k - 1].status = "ACKNOWLEDGED",
                        k - 1 \in handover'[k].acked,
                        NEW n \in Notes, item'[k - 1][n] \in {"OPEN", "CARRIED"}
                 PROVE  item'[k][n] # "ABSENT"
      BY DEF NotesRoll
    <2>1. k # h /\ k - 1 # h /\ k - 1 \in Handovers
      BY <1>5, <1>6 DEF Handovers
    <2>2. handover'[k] = handover[k] /\ handover'[k - 1] = handover[k - 1] /\ item' = item
      BY <1>6, <2>1 DEF Create
    <2> QED  BY <2>2 DEF IInv, NotesRoll
  <1>12. ASSUME NEW k \in Handovers
         PROVE  RowInv(k)'
    <2>1. CASE k = h
      <3>1. ASSUME NEW g \in row.acked
            PROVE  g < h /\ handover'[g].status = "ACKNOWLEDGED"
        <4>1. g \in Handovers /\ handover[g].status = "ACKNOWLEDGED" /\ g # h
          BY <3>1, <1>5, <1>4
        <4>2. ~(g > h)
          BY <4>1, <1>7 DEF NoHandover
        <4> QED  BY <4>1, <4>2, <1>4, <1>6 DEF Handovers
      <3> QED  BY <2>1, <1>5, <1>6, <3>1 DEF RowInv, Exists
    <2>2. CASE k # h
      <3>1. ~Exists(k) => k > h
        BY <2>2, <1>3, <1>4 DEF Fresh, Handovers
      <3>2. \A g \in handover[k].acked : g < k /\ handover'[g].status = "ACKNOWLEDGED"
        BY <1>4, <1>6, <1>8 DEF IInv, RowInv, TypeOK, HandoverRow
      <3>3. ~Exists(k) => \A g \in Handovers : g > k => g # h /\ ~Exists(g)
        BY <3>1, <1>4 DEF Handovers, IInv, RowInv
      <3>4. handover'[k] = handover[k] /\ RowInv(k)
        BY <2>2, <1>6 DEF IInv
      <3>5. Exists(k)' <=> Exists(k)
        BY <3>4 DEF Exists
      <3>6. ~Exists(k) => \A g \in Handovers : g > k => ~Exists(g)'
        BY <3>3, <1>6 DEF Exists
      <3>7. /\ handover[k].status \in {"SIGNED_OUT", "ACKNOWLEDGED"} => handover[k].out # None
            /\ ~Exists(k) => handover[k] = NoHandover
        BY <3>4 DEF RowInv
      <3> QED  BY <3>2, <3>4, <3>5, <3>6, <3>7 DEF RowInv
    <2> QED  BY <2>1, <2>2
  <1>13. /\ clerk' \in [Clerks -> InFlight \cup {Idle}]
         /\ \A x \in Clerks : RequestInv(x)'
    <2> DEFINE p == [q EXCEPT !.pc = "roll", !.h = h]
    <2>1. p \in InFlight /\ p.pc = "roll" /\ p.h = h /\ p.op = q.op
      BY <1>1, <1>4 DEF InFlight
    <2>2. clerk' = [clerk EXCEPT ![r] = p]
      BY <1>3 DEF IInv, TypeOK
    <2>3. \A x \in Clerks \ {r} : clerk[x] = Idle
      BY <1>1, OthersIdle
    <2> HIDE DEF p
    <2>4. clerk'[r] = p /\ \A x \in Clerks \ {r} : clerk'[x] = Idle
      BY <2>2, <2>3 DEF IInv, TypeOK
    <2>5. \A g \in Handovers : g > h => ~Exists(g)'
      BY <1>4, <1>6, <1>7 DEF Exists, Handovers
    <2>6. RequestInv(r)'
      BY <2>1, <2>4, <2>5, <1>2, <1>4, <1>5, <1>6 DEF RequestInv, Exists
    <2> QED  BY <2>1, <2>2, <2>3, <2>6, AloneInv
  <1> QED  BY <1>8, <1>9, <1>10, <1>11, <1>12, <1>13 DEF IInv, TypeOK

(* The notes that are open in the latest handover before this one go with  *)
(* it.                                                                     *)
LEMMA RollInv ==
  ASSUME IInv, NEW r \in Clerks, Roll(r)
  PROVE  IInv'
  <1> DEFINE q == clerk[r]
             h == clerk[r].h
  <1>1. q \in InFlight /\ q # Idle /\ q.op \in Op /\ h \in Handovers
    BY RequestParts DEF Roll
  <1>2. /\ handover[h].status = "COMPILING" /\ q.op.kind = "compile"
        /\ \A g \in Handovers : g > h => ~Exists(g)
    BY <1>1 DEF Roll, IInv, RequestInv
  <1>3. /\ handover' = [handover EXCEPT ![h].rolled = TRUE]
        /\ item' = [item EXCEPT ![h] =
                      [l \in Lines |-> IF l \in Carried(h) THEN "CARRIED" ELSE @[l]]]
        /\ clerk' = [clerk EXCEPT ![r].pc = "cockpit"] /\ open' = open
    BY DEF Roll, Goto
  <1>4. \A g \in Handovers : /\ g # h => handover'[g] = handover[g] /\ item'[g] = item[g]
                             /\ handover'[g].status = handover[g].status
                             /\ handover'[g].shift = handover[g].shift
                             /\ handover'[g].out = handover[g].out
                             /\ handover'[g].in = handover[g].in
                             /\ handover'[g].acked = handover[g].acked
    BY <1>1, <1>3 DEF IInv, TypeOK, HandoverRow
  <1>5. \A l \in Lines : item'[h][l] = IF l \in Carried(h) THEN "CARRIED" ELSE item[h][l]
    BY <1>1, <1>3 DEF IInv, TypeOK
  <1>6. open' \in SUBSET Refs /\ handover' \in [Handovers -> HandoverRow]
        /\ item' \in [Handovers -> [Lines -> ItemStatus]]
    <2>1. [handover[h] EXCEPT !.rolled = TRUE] \in HandoverRow
      <3>1. handover[h] \in HandoverRow
        BY <1>1 DEF IInv, TypeOK
      <3> QED  BY <3>1 DEF HandoverRow
    <2>2. [l \in Lines |-> IF l \in Carried(h) THEN "CARRIED" ELSE item[h][l]]
            \in [Lines -> ItemStatus]
      BY <1>1 DEF IInv, TypeOK, ItemStatus
    <2> QED  BY <1>1, <1>3, <2>1, <2>2 DEF IInv, TypeOK
  <1>7. OnePerShift' /\ TwoPersons'
    BY <1>4 DEF IInv, OnePerShift, TwoPersons, Live
  <1>8. NotesRoll'
    <2> SUFFICES ASSUME NEW k \in Handovers \ {1}, handover'[k].rolled,
                        handover'[k - 1].status = "ACKNOWLEDGED",
                        k - 1 \in handover'[k].acked,
                        NEW n \in Notes, item'[k - 1][n] \in {"OPEN", "CARRIED"}
                 PROVE  item'[k][n] # "ABSENT"
      BY DEF NotesRoll
    <2>1. k - 1 \in Handovers /\ k - 1 # h /\ n \in Lines
      BY <1>2, <1>4 DEF Handovers, Lines
    <2>2. handover[k - 1].status = "ACKNOWLEDGED" /\ item[k - 1][n] \in {"OPEN", "CARRIED"}
      BY <2>1, <1>4
    <2>3. CASE k # h
      BY <2>1, <2>2, <2>3, <1>4 DEF IInv, NotesRoll
    <2>4. CASE k = h
      <3> DEFINE before == {g \in Handovers \ {h} : Live(g)}
      <3>1. k - 1 \in before /\ \A g \in before : g <= k - 1
        <4>1. \A g \in before : g \in Handovers /\ g # h /\ Exists(g)
          BY DEF Live, Exists
        <4> QED  BY <4>1, <2>1, <2>2, <2>4, <1>1, <1>2 DEF Handovers, Live
      <3> HIDE DEF before
      <3>2. before \subseteq Handovers
        BY DEF before
      <3>3. Latest(before) = k - 1
        <4>1. ASSUME NEW g \in before, \A f \in before : f <= g
              PROVE  g = k - 1
          <5>1. g <= k - 1 /\ k - 1 <= g
            BY <3>1, <4>1
          <5>2. g \in Int /\ k - 1 \in Int
            BY <3>2 DEF Handovers
          <5> QED  BY <5>1, <5>2
        <4> QED  BY <3>1, <4>1 DEF Latest
      <3>4. before # {}
        BY <3>1
      <3>5. n \in Carried(h)
        BY <3>3, <3>4, <2>2 DEF Carried, before, IsOpen
      <3> QED  BY <3>5, <2>1, <2>4, <1>5
    <2> QED  BY <2>3, <2>4
  <1>9. \A k \in Handovers : RowInv(k)'
    <2> SUFFICES ASSUME NEW k \in Handovers PROVE RowInv(k)'
      OBVIOUS
    <2>1. \A g \in Handovers : Exists(g)' <=> Exists(g)
      BY <1>4 DEF Exists
    <2>2. ~Exists(k) => handover'[k] = handover[k]
      BY <1>2, <1>4 DEF Exists
    <2>3. RowInv(k) /\ handover[k].acked \subseteq Handovers
      BY DEF IInv, TypeOK, HandoverRow
    <2> QED  BY <1>4, <2>1, <2>2, <2>3 DEF RowInv
  <1>10. /\ clerk' \in [Clerks -> InFlight \cup {Idle}]
         /\ \A x \in Clerks : RequestInv(x)'
    <2> DEFINE p == [q EXCEPT !.pc = "cockpit"]
    <2>1. p \in InFlight /\ p.pc = "cockpit" /\ p.h = h /\ p.op = q.op
      BY <1>1 DEF InFlight
    <2>2. clerk' = [clerk EXCEPT ![r] = p]
      BY <1>3 DEF IInv, TypeOK
    <2>3. \A x \in Clerks \ {r} : clerk[x] = Idle
      BY <1>1, OthersIdle
    <2> HIDE DEF p
    <2>4. clerk'[r] = p /\ \A x \in Clerks \ {r} : clerk'[x] = Idle
      BY <2>2, <2>3 DEF IInv, TypeOK
    <2>5. RequestInv(r)'
      BY <2>1, <2>4, <1>1, <1>2, <1>4 DEF RequestInv, Exists
    <2> QED  BY <2>1, <2>2, <2>3, <2>5, AloneInv
  <1> QED  BY <1>6, <1>7, <1>8, <1>9, <1>10 DEF IInv, TypeOK

(* A signature or a cancellation: of a draft, or of what was handed over   *)
(* by someone else.                                                        *)
LEMMA SignInv ==
  ASSUME IInv, NEW r \in Clerks, CommitHandover(r)
  PROVE  IInv'
  <1> DEFINE q == clerk[r]
             h == clerk[r].h
             row == SignedBy(handover[h], q)
  <1>1. /\ q.pc = "write" /\ q.op.kind \in {"signOut", "acknowledge", "cancel"}
        /\ handover' = [handover EXCEPT ![h] = row]
        /\ Finish(r) /\ open' = open /\ item' = item
    BY DEF CommitHandover, At
  <1>2. /\ q # Idle /\ q.op \in Op /\ h \in Handovers /\ q.seen \in SUBSET Refs
        /\ Allows(h, q.op)
    BY <1>1, RequestParts DEF IInv, RequestInv
  <1>3. q.op.kind \in {"signOut", "acknowledge"} => q.op.u \in Users
    BY <1>2, OpParts
  <1>4. handover[h] \in HandoverRow
    <2>1. handover \in [Handovers -> HandoverRow]
      BY Zenon DEF IInv, TypeOK
    <2> QED  BY <1>2, <2>1
  <1>5. /\ row \in HandoverRow /\ row.shift = handover[h].shift
        /\ row.acked = handover[h].acked /\ row.rolled = handover[h].rolled
    BY <1>1, <1>2, <1>3, <1>4 DEF SignedBy, HandoverRow
  <1>6. /\ q.op.kind = "signOut" =>
             row.status = "SIGNED_OUT" /\ row.out = q.op.u /\ handover[h].status = "COMPILING"
        /\ q.op.kind = "acknowledge" =>
             /\ row.status = "ACKNOWLEDGED" /\ row.out = handover[h].out /\ row.in = q.op.u
             /\ handover[h].status = "SIGNED_OUT" /\ handover[h].out # q.op.u
        /\ q.op.kind = "cancel" =>
             /\ row.status = "CANCELED"
             /\ handover[h].status \in {"COMPILING", "SIGNED_OUT"}
    BY <1>1, <1>2, <1>3, <1>4 DEF SignedBy, HandoverRow, Allows
  <1> HIDE DEF row
  <1>7. handover'[h] = row /\ \A g \in Handovers \ {h} : handover'[g] = handover[g]
    BY <1>1, <1>2 DEF IInv, TypeOK
  <1>8. TypeOK'
    BY <1>1, <1>2, <1>5, FinishInv DEF IInv, TypeOK
  <1>9. \A g \in Handovers : /\ Exists(g)' <=> Exists(g)
                             /\ Live(g)' => Live(g)
                             /\ handover'[g].shift = handover[g].shift
    BY <1>1, <1>5, <1>6, <1>7 DEF Exists, Live
  <1>10. OnePerShift'
    BY <1>9 DEF IInv, OnePerShift
  <1>11. ASSUME NEW g \in Handovers, handover'[g].status = "ACKNOWLEDGED"
         PROVE  /\ handover'[g].out # None /\ handover'[g].in # None
                /\ handover'[g].in # handover'[g].out
    <2>1. CASE g = h
      <3>1. q.op.kind = "acknowledge" /\ handover[h].out # None
        BY <2>1, <1>1, <1>2, <1>6, <1>7, <1>11 DEF IInv, RowInv
      <3> QED  BY <2>1, <3>1, <1>3, <1>6, <1>7
    <2>2. CASE g # h
      BY <2>2, <1>7, <1>11 DEF IInv, TwoPersons
    <2> QED  BY <2>1, <2>2
  <1>12. NotesRoll'
    <2> SUFFICES ASSUME NEW k \in Handovers \ {1}, handover'[k].rolled,
                        handover'[k - 1].status = "ACKNOWLEDGED",
                        k - 1 \in handover'[k].acked,
                        NEW n \in Notes, item'[k - 1][n] \in {"OPEN", "CARRIED"}
                 PROVE  item'[k][n] # "ABSENT"
      BY DEF NotesRoll
    <2>1. k \in Handovers /\ k - 1 \in Handovers
      BY DEF Handovers
    <2>2. handover[k].rolled /\ k - 1 \in handover[k].acked
      BY <2>1, <1>5, <1>7
    <2>3. handover[k - 1].status = "ACKNOWLEDGED"
      BY <2>1, <2>2 DEF IInv, RowInv
    <2> QED  BY <2>1, <2>2, <2>3, <1>1 DEF IInv, NotesRoll
  <1>13. ASSUME NEW k \in Handovers
         PROVE  RowInv(k)'
    <2>1. \A g \in handover'[k].acked : g < k /\ handover'[g].status = "ACKNOWLEDGED"
      <3> SUFFICES ASSUME NEW g \in handover'[k].acked
                   PROVE  g < k /\ handover'[g].status = "ACKNOWLEDGED"
        OBVIOUS
      <3>1. g \in handover[k].acked
        BY <1>5, <1>7
      <3>2. g < k /\ handover[g].status = "ACKNOWLEDGED" /\ g \in Handovers
        BY <3>1 DEF IInv, RowInv, TypeOK, HandoverRow
      <3>3. g # h
        BY <3>2, <1>1, <1>6
      <3> QED  BY <3>2, <3>3, <1>7
    <2>2. ~Exists(k) => handover'[k] = NoHandover
      <3>1. Exists(h)
        BY <1>1, <1>6 DEF Exists
      <3> QED  BY <3>1, <1>7 DEF IInv, RowInv
    <2>3. handover'[k].status \in {"SIGNED_OUT", "ACKNOWLEDGED"} => handover'[k].out # None
      <3>1. CASE k # h
        BY <3>1, <1>7 DEF IInv, RowInv
      <3>2. CASE k = h
        BY <3>2, <1>1, <1>3, <1>6, <1>7, <1>11
      <3> QED  BY <3>1, <3>2
    <2>4. ~Exists(k) => \A g \in Handovers : g > k => ~Exists(g)
      BY DEF IInv, RowInv
    <2> QED  BY <2>1, <2>2, <2>3, <2>4, <1>9 DEF RowInv
  <1>14. \A x \in Clerks : RequestInv(x)'
    BY <1>1, <1>2, FinishInv
  <1>15. TwoPersons'
    BY <1>11 DEF TwoPersons
  <1> QED  BY <1>8, <1>10, <1>12, <1>13, <1>14, <1>15 DEF IInv

(* A step that writes items only: of a handover still being compiled, or   *)
(* of one not yet acknowledged, and removes none.                          *)
LEMMA ItemWriteInv ==
  ASSUME IInv, NEW r \in Clerks,
         AddMissing(r) \/ CloseStale(r) \/ CommitItem(r)
  PROVE  /\ open' = open /\ handover' = handover
         /\ item' \in [Handovers -> [Lines -> ItemStatus]]
         /\ \A h \in Handovers, l \in Lines :
              /\ item[h][l] # "ABSENT" => item'[h][l] # "ABSENT"
              /\ handover[h].status = "ACKNOWLEDGED" => item'[h][l] = item[h][l]
  <1> DEFINE q == clerk[r]
             h == clerk[r].h
  <1>1. q \in InFlight /\ q # Idle /\ q.op \in Op /\ h \in Handovers /\ q.seen \in SUBSET Refs
    BY RequestParts DEF AddMissing, CloseStale, CommitItem, At
  <1>2. CASE AddMissing(r) \/ CloseStale(r)
    <2>1. handover[h].status = "COMPILING"
      BY <1>1, <1>2 DEF AddMissing, CloseStale, IInv, RequestInv
    <2>2. PICK line \in [Lines -> ItemStatus] :
            /\ item' = [item EXCEPT ![h] = line]
            /\ \A l \in Lines : item[h][l] # "ABSENT" => line[l] # "ABSENT"
      <3>1. item[h] \in [Lines -> ItemStatus]
        BY <1>1 DEF IInv, TypeOK
      <3>2. CASE AddMissing(r)
        <4> DEFINE row == [l \in Lines |-> IF l \in q.seen /\ item[h][l] = "ABSENT"
                                           THEN "OPEN" ELSE item[h][l]]
        <4>1. row \in [Lines -> ItemStatus] /\ \A l \in Lines :
                                                item[h][l] # "ABSENT" => row[l] # "ABSENT"
          BY <3>1 DEF ItemStatus
        <4>2. item' = [item EXCEPT ![h] = row]
          BY <3>2 DEF AddMissing
        <4> QED  BY <4>1, <4>2
      <3>3. CASE CloseStale(r)
        <4> DEFINE row == [l \in Lines |-> IF l \in Refs \ q.seen /\ IsOpen(item[h][l])
                                           THEN "CLOSED" ELSE item[h][l]]
        <4>1. row \in [Lines -> ItemStatus] /\ \A l \in Lines :
                                                item[h][l] # "ABSENT" => row[l] # "ABSENT"
          BY <3>1 DEF ItemStatus
        <4>2. item' = [item EXCEPT ![h] = row]
          BY <3>3 DEF CloseStale
        <4> QED  BY <4>1, <4>2
      <3> QED  BY <1>2, <3>2, <3>3
    <2>3. item'[h] = line /\ \A g \in Handovers \ {h} : item'[g] = item[g]
      BY <2>2, <1>1 DEF IInv, TypeOK
    <2>4. item' \in [Handovers -> [Lines -> ItemStatus]]
      BY <2>2, <1>1 DEF IInv, TypeOK
    <2> QED  BY <1>2, <2>1, <2>2, <2>3, <2>4 DEF AddMissing, CloseStale
  <1>3. CASE CommitItem(r)
    <2>1. q.op.kind \in {"addItem", "updateItem"} /\ q.pc = "write"
      BY <1>3 DEF CommitItem, At
    <2>2. Allows(h, q.op) /\ q.op.line \in Lines
      BY <1>1, <2>1, OpParts DEF IInv, RequestInv, Lines
    <2>3. handover[h].status # "ACKNOWLEDGED"
      BY <2>1, <2>2 DEF Allows
    <2>4. PICK status \in ItemStatus \ {"ABSENT"} :
            item' = [item EXCEPT ![h][q.op.line] = status]
      <3>1. CASE q.op.kind = "addItem"
        BY <1>3, <3>1 DEF CommitItem, ItemStatus
      <3>2. CASE q.op.kind = "updateItem"
        BY <1>1, <1>3, <3>2, OpParts DEF CommitItem
      <3> QED  BY <2>1, <3>1, <3>2
    <2>5. /\ \A g \in Handovers \ {h} : item'[g] = item[g]
          /\ item'[h] = [item[h] EXCEPT ![q.op.line] = status]
      BY <2>4, <1>1 DEF IInv, TypeOK
    <2>6. item[h] \in [Lines -> ItemStatus]
      BY <1>1 DEF IInv, TypeOK
    <2>7. \A l \in Lines : item'[h][l] = IF l = q.op.line THEN status ELSE item[h][l]
      BY <2>2, <2>5, <2>6
    <2>8. item' \in [Handovers -> [Lines -> ItemStatus]]
      BY <2>2, <2>4, <2>6, <1>1 DEF IInv, TypeOK
    <2> QED  BY <1>3, <2>3, <2>4, <2>5, <2>7, <2>8 DEF CommitItem
  <1> QED  BY <1>2, <1>3

-----------------------------------------------------------------------------
LEMMA InitInv == Init => IInv
  <1> SUFFICES ASSUME Init PROVE IInv
    OBVIOUS
  <1>1. TypeOK
    BY NoRow DEF Init, TypeOK, ItemStatus
  <1>2. OnePerShift /\ TwoPersons /\ NotesRoll
    BY DEF Init, OnePerShift, TwoPersons, NotesRoll, Live, NoHandover
  <1>3. \A h \in Handovers : RowInv(h)
    BY DEF Init, RowInv, Exists, NoHandover
  <1>4. \A r \in Clerks : RequestInv(r)
    BY DEF Init, RequestInv, Idle
  <1> QED  BY <1>1, <1>2, <1>3, <1>4 DEF IInv

(* A step that moves the request on and writes nothing, or only items.     *)
LEMMA GoesOn ==
  ASSUME IInv, NEW r \in Clerks, NEW q \in InFlight, handover' = handover,
         clerk' = [clerk EXCEPT ![r] = q],
         \A x \in Clerks \ {r} : clerk[x] = Idle,
         q.pc \notin {"create", "roll"},
         q.h \in Handovers /\ Exists(q.h),
         q.pc \in {"add", "close"} =>
           handover[q.h].status = "COMPILING" /\ q.op.kind = "compile",
         q.pc = "cockpit" => q.op.kind \in {"compile", "signOut"},
         q.pc = "write" => q.op.kind # "compile",
         q.op.kind # "compile" => Allows(q.h, q.op)
  PROVE  /\ clerk' \in [Clerks -> InFlight \cup {Idle}]
         /\ \A x \in Clerks : RequestInv(x)'
  <1>1. clerk'[r] = q /\ \A x \in Clerks \ {r} : clerk'[x] = Idle
    BY DEF IInv, TypeOK
  <1>2. Exists(q.h)' /\ (q.op.kind # "compile" => Allows(q.h, q.op)')
    BY DEF Exists, Allows
  <1>3. RequestInv(r)'
    BY <1>1, <1>2 DEF RequestInv
  <1> QED  BY <1>3, AloneInv

LEMMA BeginInv ==
  ASSUME ~MayOverlap, IInv, NEW r \in Clerks, NEW h \in Handovers, NEW op \in Op,
         Begin(r, h, op)
  PROVE  IInv'
  <1> DEFINE q == [pc |-> IF op.kind = "signOut" THEN "cockpit" ELSE "write",
                   op |-> op, h |-> h, seen |-> {}]
  <1>1. q \in InFlight
    BY DEF InFlight
  <1>2. /\ clerk' = [clerk EXCEPT ![r] = q] /\ \A x \in Clerks : clerk[x] = Idle
        /\ op.kind # "compile" /\ Allows(h, op)
        /\ open' = open /\ handover' = handover /\ item' = item
    BY DEF Begin, Start
  <1>3. Exists(h)
    BY <1>2, OpParts DEF Allows, Exists
  <1>4. /\ clerk' \in [Clerks -> InFlight \cup {Idle}]
        /\ \A x \in Clerks : RequestInv(x)'
    <2>1. /\ q.pc \in {"cockpit", "write"} /\ q.h = h /\ q.op = op
          /\ q.pc = "cockpit" => op.kind = "signOut"
      OBVIOUS
    <2> HIDE DEF q
    <2> QED  BY <1>1, <1>2, <1>3, <2>1, GoesOn
  <1> QED  BY <1>2, <1>4, RowsKept DEF IInv, TypeOK

LEMMA BeginCompileInv ==
  ASSUME ~MayOverlap, IInv, NEW r \in Clerks, NEW u \in Users, NEW shift \in Shifts,
         BeginCompile(r, u, shift)
  PROVE  IInv'
  <1> DEFINE op == [kind |-> "compile", u |-> u, shift |-> shift]
  <1>1. op \in Op /\ op.kind = "compile" /\ op.shift = shift
    BY DEF Op
  <1> HIDE DEF op
  <1>2. open' = open /\ handover' = handover /\ item' = item
    BY DEF BeginCompile
  <1>3. \A x \in Clerks : clerk[x] = Idle
    BY DEF BeginCompile, Start
  <1>4. /\ clerk' \in [Clerks -> InFlight \cup {Idle}]
        /\ \A x \in Clerks : RequestInv(x)'
    <2>1. CASE OfShift(shift) = {}
      <3> DEFINE q == [pc |-> "create", op |-> op, h |-> None, seen |-> {}]
      <3>1. q \in InFlight /\ q.pc = "create" /\ q.op = op
        BY <1>1 DEF InFlight
      <3>2. clerk' = [clerk EXCEPT ![r] = q]
        BY <2>1 DEF BeginCompile, Start, op
      <3> HIDE DEF q
      <3>3. clerk'[r] = q /\ \A x \in Clerks \ {r} : clerk'[x] = Idle
        BY <3>2, <1>3 DEF IInv, TypeOK
      <3>4. \A h \in Handovers : Live(h)' => handover'[h].shift # shift
        BY <2>1, <1>2 DEF OfShift, Live
      <3>5. RequestInv(r)'
        BY <3>1, <3>3, <3>4, <1>1 DEF RequestInv
      <3> QED  BY <3>1, <3>2, <3>5, <1>3, AloneInv
    <2>2. CASE OfShift(shift) # {}
      <3>1. PICK h \in OfShift(shift) : clerk' = [clerk EXCEPT ![r] =
              [pc |-> "cockpit", op |-> op, h |-> h, seen |-> {}]]
        BY <2>2 DEF BeginCompile, Start, op
      <3> DEFINE q == [pc |-> "cockpit", op |-> op, h |-> h, seen |-> {}]
      <3>2. h \in Handovers /\ Exists(h)
        BY DEF OfShift, Live, Exists
      <3>3. q \in InFlight /\ q.pc = "cockpit" /\ q.op = op /\ q.h = h
        BY <1>1, <3>2 DEF InFlight
      <3>4. clerk' = [clerk EXCEPT ![r] = q]
        BY <3>1
      <3> HIDE DEF q
      <3> QED  BY <1>1, <1>2, <1>3, <3>2, <3>3, <3>4, GoesOn
    <2> QED  BY <2>1, <2>2
  <1> QED  BY <1>2, <1>4, RowsKept DEF IInv, TypeOK

LEMMA CockpitInv ==
  ASSUME IInv, NEW r \in Clerks, Cockpit(r)
  PROVE  IInv'
  <1> DEFINE q == clerk[r]
  <1>1. /\ q \in InFlight /\ q # Idle /\ q.op \in Op /\ q.h \in Handovers /\ Exists(q.h)
        /\ open' = open /\ handover' = handover /\ item' = item
    BY RequestParts DEF Cockpit
  <1>2. /\ clerk' \in [Clerks -> InFlight \cup {Idle}]
        /\ \A x \in Clerks : RequestInv(x)'
    <2>1. CASE Finish(r)
      BY <2>1, <1>1, FinishInv
    <2>2. CASE ~Finish(r)
      <3> DEFINE found == open \cap Scope(q.op)
      <3>0. PICK incidents \in Page(found \cap Incidents),
                 actions \in Page(found \cap Actions), reports \in Page(found \cap Reports) :
              /\ clerk' = [clerk EXCEPT ![r].seen = incidents \cup actions \cup reports,
                             ![r].pc = IF q.op.kind = "compile" THEN "add" ELSE "write"]
              /\ q.op.kind = "compile" => handover[q.h].status = "COMPILING"
        BY <2>2, <1>1 DEF Cockpit
      <3> DEFINE seen == incidents \cup actions \cup reports
                 p == [q EXCEPT !.seen = seen,
                         !.pc = IF q.op.kind = "compile" THEN "add" ELSE "write"]
      <3>1. /\ clerk' = [clerk EXCEPT ![r] = p]
            /\ q.op.kind = "compile" => handover[q.h].status = "COMPILING"
        BY <3>0, <1>1 DEF IInv, TypeOK
      <3>2. p \in InFlight /\ p.h = q.h /\ p.op = q.op
        <4>1. seen \in SUBSET Refs
          BY DEF Page, Refs
        <4> HIDE DEF seen
        <4> QED  BY <1>1, <4>1 DEF InFlight
      <3>3. /\ p.pc \in {"add", "write"} /\ (p.pc = "add" <=> q.op.kind = "compile")
        BY <1>1 DEF InFlight
      <3>4. q.op.kind # "compile" => Allows(q.h, q.op)
        BY DEF Cockpit, IInv, RequestInv
      <3>5. \A x \in Clerks \ {r} : clerk[x] = Idle
        BY <1>1, OthersIdle
      <3> HIDE DEF p
      <3> QED  BY <1>1, <3>1, <3>2, <3>3, <3>4, <3>5, GoesOn
    <2> QED  BY <2>1, <2>2
  <1> QED  BY <1>1, <1>2, RowsKept DEF IInv, TypeOK

LEMMA ItemsInv ==
  ASSUME IInv, NEW r \in Clerks,
         AddMissing(r) \/ CloseStale(r) \/ CommitItem(r)
  PROVE  IInv'
  <1>1. /\ clerk[r] \in InFlight /\ clerk[r] # Idle /\ clerk[r].h \in Handovers
        /\ Exists(clerk[r].h)
    BY RequestParts DEF AddMissing, CloseStale, CommitItem, At
  <1>2. /\ clerk' \in [Clerks -> InFlight \cup {Idle}]
        /\ \A x \in Clerks : RequestInv(x)'
    <2>1. CASE AddMissing(r)
      <3> DEFINE p == [clerk[r] EXCEPT !.pc = "close"]
      <3>1. clerk' = [clerk EXCEPT ![r] = p]
        BY <2>1 DEF AddMissing, Goto, IInv, TypeOK
      <3>2. p \in InFlight /\ p.h = clerk[r].h /\ p.op = clerk[r].op /\ p.pc = "close"
        BY <1>1 DEF InFlight
      <3>3. handover[p.h].status = "COMPILING" /\ p.op.kind = "compile"
        BY <2>1, <3>2 DEF AddMissing, IInv, RequestInv
      <3>4. \A x \in Clerks \ {r} : clerk[x] = Idle
        BY <1>1, OthersIdle
      <3> HIDE DEF p
      <3> QED  BY <1>1, <2>1, <3>1, <3>2, <3>3, <3>4, ItemWriteInv, GoesOn
    <2>2. CASE CloseStale(r) \/ CommitItem(r)
      BY <1>1, <2>2, FinishInv DEF CloseStale, CommitItem
    <2> QED  BY <2>1, <2>2
  <1> QED  BY <1>2, ItemWriteInv, ItemsStep DEF IInv, TypeOK

LEMMA StepInv ==
  ASSUME ~MayOverlap, IInv, [Next]_vars
  PROVE  IInv'
  <1>1. CASE Domain \/ UNCHANGED vars
    <2>1. open' \in SUBSET Refs /\ handover' = handover /\ item' = item /\ clerk' = clerk
      BY <1>1 DEF Domain, vars, IInv, TypeOK
    <2>2. \A x \in Clerks : RequestInv(x)'
      <3>1. \A x \in Clerks : RequestInv(x)
        BY DEF IInv
      <3> QED  BY <2>1, <3>1, ZenonT(30) DEF RequestInv, Live, Exists, Allows
    <2> QED  BY <2>1, <2>2, RowsKept DEF IInv, TypeOK
  <1>2. ASSUME NEW r \in Clerks, Abandon(r)
        PROVE  IInv'
    <2>1. clerk[r] # Idle /\ Finish(r) /\ UNCHANGED <<open, handover, item>>
      BY <1>2 DEF Abandon, At, Idle
    <2> QED  BY <2>1, FinishInv, RowsKept DEF IInv, TypeOK
  <1> QED  BY <1>1, <1>2, BeginCompileInv, BeginInv, CreateInv, RollInv, CockpitInv,
              ItemsInv, SignInv DEF Next, Handle, Work

(* As long as requests come one after the other: a shift has one handover, *)
(* who received it is not who handed it over, and the notes that were open *)
(* when it was acknowledged are in the next one.                           *)
THEOREM HandoverInvariant ==
  ASSUME ~MayOverlap
  PROVE  Spec => []IInv
  <1>1. IInv /\ [Next]_vars => IInv'
    BY StepInv
  <1> QED  BY <1>1, InitInv, PTL DEF Spec

(* The promises of the area's handovers, one by one (OnePerShift,          *)
(* TwoPersons, NotesRoll).                                                 *)
THEOREM HandoversKept ==
  ASSUME ~MayOverlap
  PROVE  Spec => [](OnePerShift /\ TwoPersons /\ NotesRoll)
  <1>1. IInv => OnePerShift /\ TwoPersons /\ NotesRoll
    BY DEF IInv
  <1> QED  BY <1>1, HandoverInvariant, PTL

(* An acknowledged handover, its frozen cockpit and its items never change *)
(* again, whichever requests come, one after the other.                    *)
THEOREM AcknowledgedIsFinal ==
  ASSUME ~MayOverlap
  PROVE  Spec => AcknowledgedFinal
  <1> DEFINE Kept == \A h \in Handovers : handover[h].status = "ACKNOWLEDGED" =>
                       handover'[h] = handover[h] /\ item'[h] = item[h]
  <1>1. IInv /\ IInv' /\ [Next]_vars => [Kept]_vars
    <2> SUFFICES ASSUME IInv, IInv', Next PROVE Kept
      BY DEF vars
    <2>1. ASSUME NEW r \in Clerks, AddMissing(r) \/ CloseStale(r) \/ CommitItem(r)
          PROVE  Kept
      <3>1. \A h \in Handovers : handover[h].status = "ACKNOWLEDGED" =>
              /\ item[h] \in [Lines -> ItemStatus] /\ item'[h] \in [Lines -> ItemStatus]
              /\ \A l \in Lines : item'[h][l] = item[h][l]
        BY <2>1, ItemWriteInv DEF IInv, TypeOK
      <3>2. \A h \in Handovers : handover[h].status = "ACKNOWLEDGED" => item'[h] = item[h]
        BY <3>1
      <3> QED  BY <2>1, <3>2, ItemWriteInv
    <2>2. ASSUME NEW r \in Clerks, Create(r) \/ Roll(r) \/ CommitHandover(r)
          PROVE  Kept
      <3>1. clerk[r].pc # "create" => clerk[r].h \in Handovers
        BY <2>2, RequestParts DEF Create, Roll, CommitHandover, At
      <3>2. CASE Create(r)
        BY <3>2 DEF Create, Fresh, Exists, IInv, TypeOK
      <3>3. CASE Roll(r)
        <4>1. handover[clerk[r].h].status = "COMPILING"
          BY <3>3 DEF Roll, IInv, RequestInv
        <4> QED  BY <3>1, <3>3, <4>1 DEF Roll, IInv, TypeOK
      <3>4. CASE CommitHandover(r)
        <4>1. handover[clerk[r].h].status # "ACKNOWLEDGED"
          BY <3>4 DEF CommitHandover, At, IInv, RequestInv, Allows
        <4> QED  BY <3>1, <3>4, <4>1 DEF CommitHandover, IInv, TypeOK
      <3> QED  BY <2>2, <3>2, <3>3, <3>4
    <2>3. ASSUME UNCHANGED <<handover, item>>
          PROVE  Kept
      BY <2>3
    <2> QED  BY <2>1, <2>2, <2>3 DEF Next, Handle, Work, Domain, Begin, BeginCompile,
                Cockpit, Abandon
  <1>2. Spec => []IInv /\ [][Next]_vars
    BY HandoverInvariant, PTL DEF Spec
  <1> QED  BY <1>1, <1>2, PTL DEF AcknowledgedFinal
=============================================================================
