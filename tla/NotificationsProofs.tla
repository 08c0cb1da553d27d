------------------------ MODULE NotificationsProofs ------------------------
(***************************************************************************)
(* Proofs about Notifications: for any events, addresses, administrators   *)
(* and stops, and whatever fails, the types hold and an event is only      *)
(* marked DISPATCHED once each recipient it was resolved to has a message. *)
(* What was sent is queued again by administrators only.                   *)
(***************************************************************************)
EXTENDS Notifications, TLAPS

(* The outbox starts empty and the workers at rest.                        *)
LEMMA InitInv == Init => IInv
<1> SUFFICES ASSUME Init PROVE IInv
  OBVIOUS
<1>1. dispatch \in DispatchRow /\ DispatchInv
  BY DEF Init, DispatchInv, DispatchRow, NoDispatch
<1>2. sender \in SenderRow /\ SenderInv
  BY DEF Init, SenderInv, SenderRow, NoSend
<1>3. attempts \in [Messages -> 0 .. MaxAttempts] /\ stops \in 0 .. MaxStops
  BY BoundAssumption DEF Init
<1>4. event \in [Events -> EventStatus] /\ row \in [Messages -> RowStatus]
  BY DEF Init, EventStatus, RowStatus
<1> QED BY <1>1, <1>2, <1>3, <1>4 DEF Init, IInv, TypeOK, NoRetry

(* Taking up the next event starts it with nothing inserted.               *)
LEMMA TakeUpInv ==
  ASSUME NEW batch \in SUBSET Events, TakeUp(batch)
  PROVE  dispatch' \in DispatchRow /\ DispatchInv'
<1>1. CASE batch = {}
  BY <1>1 DEF TakeUp, NoDispatch, DispatchRow, DispatchInv
<1>2. CASE batch # {}
  <2>1. PICK e \in batch : dispatch' = [NoDispatch EXCEPT !.pc = "resolve", !.cur = e,
                                                          !.rest = batch \ {e}]
    BY <1>2 DEF TakeUp
  <2>2. dispatch' = [pc |-> "resolve", cur |-> e, rest |-> batch \ {e},
                     all |-> {}, left |-> {}]
    BY <2>1 DEF NoDispatch
  <2> QED BY <2>2 DEF DispatchRow, DispatchInv
<1> QED BY <1>1, <1>2

(* The sender's next message comes from its batch.                         *)
LEMMA SendNextInv ==
  ASSUME NEW batch \in SUBSET Messages, SendNext(batch)
  PROVE  sender' \in SenderRow /\ SenderInv'
  BY DEF SendNext, NoSend, SenderRow, SenderInv

(* A step that leaves the dispatcher alone and takes no row away keeps what *)
(* the dispatcher relies on.                                               *)
LEMMA DispatchUndisturbed ==
  ASSUME IInv, dispatch' = dispatch,
         \A m \in Messages : row[m] # "NONE" => row'[m] # "NONE"
  PROVE  dispatch' \in DispatchRow /\ DispatchInv'
  BY DEF IInv, TypeOK, DispatchInv, DispatchRow

(* Every step of the dispatcher.                                           *)
LEMMA DispatchingInv == ASSUME IInv, Dispatching PROVE IInv'
<1>1. CASE DispatchStart
  <2>1. dispatch' \in DispatchRow /\ DispatchInv'
    <3>1. {e \in Events : Dispatchable(e)} \in SUBSET Events
      OBVIOUS
    <3> QED BY <1>1, <3>1, TakeUpInv DEF DispatchStart
  <2> QED BY <1>1, <2>1 DEF IInv, TypeOK, SenderInv, DispatchStart, queue, setting
<1>2. CASE DispatchResolve
  <2>1. PICK to \in SUBSET Reach[dispatch.cur] :
          dispatch' = [dispatch EXCEPT !.pc = "insert", !.all = {dispatch.cur} \X to,
                                       !.left = {dispatch.cur} \X to]
    BY <1>2 DEF DispatchResolve
  <2>2. dispatch.cur \in Events /\ dispatch \in DispatchRow
    BY <1>2 DEF IInv, TypeOK, DispatchInv, DispatchResolve
  <2>3. {dispatch.cur} \X to \in SUBSET Messages
    BY <2>2, NoticeAssumption DEF Messages
  <2> DEFINE all == {dispatch.cur} \X to
  <2> HIDE DEF all
  <2>4. dispatch' = [dispatch EXCEPT !.pc = "insert", !.all = all, !.left = all]
    BY <2>1 DEF all
  <2>5. dispatch' \in DispatchRow /\ dispatch'.cur \in Events
        /\ dispatch'.all \ dispatch'.left = {}
    BY <2>2, <2>3, <2>4 DEF DispatchRow, all
  <2>6. DispatchInv'
    BY <2>5 DEF DispatchInv
  <2> QED BY <1>2, <2>5, <2>6 DEF IInv, TypeOK, SenderInv, DispatchResolve, queue, setting
<1>3. CASE DispatchInsert
  <2>1. PICK m \in dispatch.left :
          /\ row' = Inserted(m)
          /\ dispatch' = [dispatch EXCEPT !.left = @ \ {m}]
    BY <1>3 DEF DispatchInsert
  <2>2. dispatch \in DispatchRow /\ m \in Messages /\ dispatch.cur \in Events
    BY <1>3, <2>1 DEF IInv, TypeOK, DispatchInv, DispatchInsert, DispatchRow
  <2>3. row' \in [Messages -> RowStatus] /\ row'[m] # "NONE"
        /\ \A n \in Messages : row[n] # "NONE" => row'[n] # "NONE"
    BY <2>1, <2>2 DEF IInv, TypeOK, RowStatus, Inserted
  <2>4. /\ dispatch' \in DispatchRow /\ dispatch'.cur = dispatch.cur
        /\ dispatch'.all = dispatch.all /\ dispatch'.left = dispatch.left \ {m}
    BY <2>1, <2>2 DEF DispatchRow
  <2>5. \A n \in dispatch.all \ dispatch.left : row[n] # "NONE" /\ n \in Messages
    BY <1>3, <2>2 DEF IInv, DispatchInv, DispatchInsert, DispatchRow
  <2>6. DispatchInv'
    BY <2>2, <2>3, <2>4, <2>5 DEF DispatchInv
  <2> QED BY <1>3, <2>3, <2>4, <2>6 DEF IInv, TypeOK, SenderInv, DispatchInsert, setting
<1>4. ASSUME NEW st \in {"DISPATCHED", "FAILED"}, dispatch.pc # "idle",
             event' = [event EXCEPT ![dispatch.cur] = st], TakeUp(dispatch.rest),
             UNCHANGED <<row, attempts, backoff, sender, retry, setting>>
      PROVE  IInv'
  <2>1. dispatch' \in DispatchRow /\ DispatchInv'
    BY <1>4, TakeUpInv DEF IInv, TypeOK, DispatchRow
  <2>2. event' \in [Events -> EventStatus]
    BY <1>4 DEF IInv, TypeOK, EventStatus
  <2> QED BY <1>4, <2>1, <2>2 DEF IInv, TypeOK, SenderInv, setting
<1>5. CASE DispatchMark
  BY <1>4, <1>5 DEF DispatchMark, ReadyToMark
<1>6. CASE DispatchFail
  BY <1>4, <1>6 DEF DispatchFail
<1> QED BY <1>1, <1>2, <1>3, <1>5, <1>6 DEF Dispatching

(* Counting an attempt stays within the limit.                             *)
LEMMA AttemptedType ==
  ASSUME IInv, NEW m \in Messages
  PROVE  Attempted(m) \in [Messages -> 0 .. MaxAttempts]
  BY BoundAssumption DEF IInv, TypeOK, Attempted

(* Every step of the sender.                                               *)
LEMMA SendingInv == ASSUME IInv, Sending PROVE IInv'
<1>1. CASE SendStart
  <2>1. sender' \in SenderRow /\ SenderInv'
    BY <1>1 DEF SendStart, NoSend, SenderRow, SenderInv
  <2>2. DispatchInv'
    BY <1>1, DispatchUndisturbed DEF SendStart, queue
  <2> QED BY <1>1, <2>1, <2>2 DEF IInv, TypeOK, SendStart, queue, setting
<1>2. CASE SendMail
  <2>1. PICK mails \in {{}, sender.rest \cap Mails} :
          /\ row' = [m \in Messages |-> IF m \in mails THEN "SUPPRESSED" ELSE row[m]]
          /\ SendNext(sender.rest \ mails)
    BY <1>2 DEF SendMail
  <2>2. sender' \in SenderRow /\ SenderInv'
    BY <2>1, SendNextInv DEF IInv, TypeOK, SenderRow
  <2>3. row' \in [Messages -> RowStatus]
        /\ \A m \in Messages : row[m] # "NONE" => row'[m] # "NONE"
    BY <2>1 DEF IInv, TypeOK, RowStatus
  <2>4. DispatchInv'
    BY <1>2, <2>3, DispatchUndisturbed DEF SendMail
  <2> QED BY <1>2, <2>2, <2>3, <2>4 DEF IInv, TypeOK, SendMail, setting
<1>3. CASE SendDeliver
  <2>1. sender' \in SenderRow /\ SenderInv'
    BY <1>3 DEF IInv, TypeOK, SendDeliver, SenderRow, SenderInv
  <2>2. DispatchInv'
    BY <1>3, DispatchUndisturbed DEF SendDeliver, queue
  <2> QED BY <1>3, <2>1, <2>2 DEF IInv, TypeOK, SendDeliver, queue, setting
<1>4. ASSUME NEW st \in RowStatus \ {"NONE"}, sender.pc \in {"send", "mark"},
             row' = [row EXCEPT ![sender.cur] = st], backoff' \subseteq Messages,
             attempts' = Attempted(sender.cur), SendNext(sender.rest),
             UNCHANGED <<event, dispatch, retry, setting>>
      PROVE  IInv'
  <2>1. sender.cur \in Messages
    BY <1>4 DEF IInv, SenderInv
  <2>2. sender' \in SenderRow /\ SenderInv'
    BY <1>4, SendNextInv DEF IInv, TypeOK, SenderRow
  <2>3. row' \in [Messages -> RowStatus]
        /\ \A m \in Messages : row[m] # "NONE" => row'[m] # "NONE"
    BY <1>4, <2>1 DEF IInv, TypeOK
  <2>4. DispatchInv'
    BY <1>4, <2>3, DispatchUndisturbed
  <2> QED BY <1>4, <2>1, <2>2, <2>3, <2>4, AttemptedType DEF IInv, TypeOK, setting
<1>5. CASE SendMark
  BY <1>4, <1>5 DEF SendMark, RowStatus, IInv, TypeOK
<1>6. CASE SendFail
  <2>1. AfterFailure(sender.cur) \in RowStatus \ {"NONE"} /\ sender.cur \in Messages
    BY <1>6 DEF SendFail, AfterFailure, RowStatus, IInv, SenderInv
  <2>2. backoff' \subseteq Messages
    BY <1>6, <2>1 DEF SendFail, IInv, TypeOK
  <2> QED BY <1>4, <1>6, <2>1, <2>2 DEF SendFail
<1> QED BY <1>1, <1>2, <1>3, <1>5, <1>6 DEF Sending

(* Every step keeps the invariant.                                         *)
LEMMA StepInv == ASSUME IInv, [Next]_vars PROVE IInv'
<1>1. ASSUME NEW e \in Events, Emit(e) PROVE IInv'
  BY <1>1, DispatchUndisturbed DEF IInv, TypeOK, SenderInv, Emit, EventStatus, setting
<1>2. ASSUME NEW m \in Messages, Elapse(m) PROVE IInv'
  BY <1>2, DispatchUndisturbed DEF IInv, TypeOK, SenderInv, Elapse, setting
<1>3. ASSUME NEW m \in Messages, Purge(m) PROVE IInv'
  <2>1. row' \in [Messages -> RowStatus] /\ attempts' \in [Messages -> 0 .. MaxAttempts]
        /\ \A n \in Messages : row[n] # "NONE" => row'[n] # "NONE"
    BY <1>3, BoundAssumption DEF IInv, TypeOK, Purge, RowStatus
  <2>2. DispatchInv'
    BY <1>3, <2>1, DispatchUndisturbed DEF Purge
  <2> QED BY <1>3, <2>1, <2>2 DEF IInv, TypeOK, SenderInv, Purge, setting
<1>4. ASSUME NEW a \in Admins, RetryWrite(a) PROVE IInv'
  <2>1. PICK found \in SUBSET (Messages \cup {None}) :
          /\ row' = [m \in Messages |-> IF m \in found THEN "PENDING" ELSE row[m]]
          /\ backoff' = backoff \ found
    <3> DEFINE found == {retry[a]} \ {m \in Messages : row[m] \in {"NONE", "PURGED"}}
    <3>1. found \in SUBSET (Messages \cup {None})
      BY DEF IInv, TypeOK
    <3>2. /\ row' = [m \in Messages |-> IF m \in found THEN "PENDING" ELSE row[m]]
          /\ backoff' = backoff \ found
      BY <1>4 DEF RetryWrite
    <3> QED BY <3>1, <3>2
  <2>2. row' \in [Messages -> RowStatus] /\ backoff' \subseteq Messages
        /\ \A m \in Messages : row[m] # "NONE" => row'[m] # "NONE"
    BY <2>1 DEF IInv, TypeOK, RowStatus
  <2>3. retry' \in [Admins -> Messages \cup {None}]
    BY <1>4 DEF IInv, TypeOK, RetryWrite
  <2>4. DispatchInv'
    BY <1>4, <2>2, DispatchUndisturbed DEF RetryWrite
  <2> QED BY <1>4, <2>2, <2>3, <2>4 DEF IInv, TypeOK, SenderInv, RetryWrite, setting
<1>5. ASSUME NEW a \in Admins, NEW m \in Messages, RetryCheck(a, m) PROVE IInv'
  BY <1>5, DispatchUndisturbed DEF IInv, TypeOK, SenderInv, RetryCheck, queue, setting
<1>6. CASE Relicense
  BY <1>6, DispatchUndisturbed DEF IInv, TypeOK, SenderInv, Relicense, queue
<1>7. CASE Stop
  BY <1>7, BoundAssumption DEF IInv, TypeOK, DispatchInv, SenderInv, Stop, NoDispatch,
     DispatchRow, NoSend, SenderRow, NoRetry, queue
<1>8. CASE UNCHANGED vars
  BY <1>8, DispatchUndisturbed DEF IInv, TypeOK, SenderInv, vars, queue, setting
<1> QED
  BY <1>1, <1>2, <1>3, <1>4, <1>5, <1>6, <1>7, <1>8, DispatchingInv, SendingInv DEF Next

-----------------------------------------------------------------------------
(* The invariant holds of every behaviour.                                 *)
THEOREM Inductive == Spec => []IInv
<1>1. IInv /\ [Next]_vars => IInv'
  BY StepInv
<1> QED BY InitInv, <1>1, PTL DEF Spec

(* No event is marked DISPATCHED while a recipient it was resolved to has  *)
(* no message, whatever stopped or failed before.                          *)
THEOREM AudienceIsQueued == Spec => AudienceQueued
<1> DEFINE Marks == \A e \in Events :
                      event[e] = "PENDING" /\ event'[e] = "DISPATCHED" =>
                        \A m \in dispatch.all : row[m] # "NONE"
<1>1. IInv /\ [Next]_vars => [Marks]_vars
  <2> SUFFICES ASSUME IInv, Next, NEW e \in Events,
                      event[e] = "PENDING", event'[e] = "DISPATCHED"
               PROVE  \A m \in dispatch.all : row[m] # "NONE"
    OBVIOUS
  <2>1. DispatchMark
    BY DEF Next, IInv, TypeOK, Emit, Dispatching, DispatchStart, DispatchResolve,
       DispatchInsert, DispatchFail, Sending, SendStart, SendMail, SendDeliver, SendMark,
       SendFail, Elapse, Purge, RetryWrite, RetryCheck, Relicense, Stop, queue
  <2> QED BY <2>1 DEF DispatchMark, ReadyToMark, IInv, DispatchInv
<1> QED BY Inductive, <1>1, PTL DEF Spec, AudienceQueued

-----------------------------------------------------------------------------
(* What the sender still has in hand is pending, each message once:        *)
(* nothing settles a message behind its back, and whoever retries one      *)
(* leaves it pending.                                                      *)
SenderHolds ==
  /\ sender.pc # "idle" => \A m \in sender.rest : row[m] = "PENDING"
  /\ sender.pc \in {"send", "mark"} =>
       row[sender.cur] = "PENDING" /\ sender.cur \notin sender.rest

(* Messages that stay pending leave it so.                                 *)
LEMMA Unsettled ==
  ASSUME IInv, SenderHolds, UNCHANGED sender,
         \A m \in Messages : row[m] = "PENDING" => row'[m] = row[m]
  PROVE  SenderHolds'
<1>1. /\ sender.rest \in SUBSET Messages
      /\ sender.pc \in {"send", "mark"} => sender.cur \in Messages
  BY DEF IInv, TypeOK, SenderInv, SenderRow
<1> QED BY <1>1 DEF SenderHolds

(* The next of a batch that is pending.                                    *)
LEMMA NextHolds ==
  ASSUME NEW batch \in SUBSET Messages, SendNext(batch),
         \A m \in batch : row'[m] = "PENDING"
  PROVE  SenderHolds'
<1>1. CASE batch = {}
  BY <1>1 DEF SendNext, NoSend, SenderHolds
<1>2. CASE batch # {}
  <2>1. PICK m \in batch : sender' = [pc |-> "send", cur |-> m, rest |-> batch \ {m}]
    BY <1>2 DEF SendNext
  <2> QED BY <2>1 DEF SenderHolds
<1> QED BY <1>1, <1>2

(* The sender settles the message in hand, and no other.                   *)
LEMMA SendingSettles == ASSUME IInv, SenderHolds, Sending PROVE SenderHolds'
<1>1. sender \in SenderRow /\ row \in [Messages -> RowStatus]
  BY DEF IInv, TypeOK
<1>2. CASE SendStart
  BY <1>2 DEF SendStart, Sendable, NoSend, SenderHolds, queue
<1>3. CASE SendMail
  <2>1. PICK mails \in {{}, sender.rest \cap Mails} :
          /\ row' = [m \in Messages |-> IF m \in mails THEN "SUPPRESSED" ELSE row[m]]
          /\ SendNext(sender.rest \ mails)
    BY <1>3 DEF SendMail
  <2>2. sender.pc = "mail" /\ sender.rest \in SUBSET Messages
        /\ \A m \in sender.rest : row[m] = "PENDING"
    BY <1>1, <1>3 DEF SendMail, SenderRow, SenderHolds
  <2> QED BY <2>1, <2>2, NextHolds
<1>4. CASE SendDeliver
  <2>1. /\ sender'.pc = "mark" /\ sender'.cur = sender.cur /\ sender'.rest = sender.rest
        /\ sender.pc = "send" /\ row' = row
    BY <1>1, <1>4 DEF SendDeliver, SenderRow, queue
  <2> QED BY <2>1 DEF SenderHolds
<1>5. CASE SendMark \/ SendFail
  <2>1. PICK st : row' = [row EXCEPT ![sender.cur] = st]
    BY <1>5 DEF SendMark, SendFail
  <2>2. /\ sender.pc \in {"send", "mark"} /\ SendNext(sender.rest)
        /\ sender.cur \in Messages /\ sender.rest \in SUBSET Messages
        /\ row[sender.cur] = "PENDING" /\ sender.cur \notin sender.rest
        /\ \A m \in sender.rest : row[m] = "PENDING"
    BY <1>1, <1>5 DEF SendMark, SendFail, IInv, SenderInv, SenderRow, SenderHolds
  <2> QED BY <1>1, <2>1, <2>2, NextHolds
<1> QED BY <1>2, <1>3, <1>4, <1>5 DEF Sending

(* Nobody else takes a pending message out of its hands.                   *)
LEMMA StepHolds == ASSUME IInv, SenderHolds, [Next]_vars PROVE SenderHolds'
<1>1. row \in [Messages -> RowStatus]
  BY DEF IInv, TypeOK
<1>2. ASSUME NEW m \in Messages, Purge(m) PROVE SenderHolds'
  BY <1>1, <1>2, Unsettled DEF Purge
<1>3. CASE DispatchInsert
  <2>1. PICK m \in dispatch.left : row' = Inserted(m)
    BY <1>3 DEF DispatchInsert
  <2> QED BY <1>1, <1>3, <2>1, Unsettled DEF DispatchInsert, Inserted
<1>4. ASSUME NEW a \in Admins, RetryWrite(a) PROVE SenderHolds'
  BY <1>1, <1>4, Unsettled DEF RetryWrite
<1>5. CASE Stop
  BY <1>5 DEF Stop, NoSend, SenderHolds
<1>6. ASSUME UNCHANGED <<row, sender>> PROVE SenderHolds'
  BY <1>6, Unsettled
<1>7. \/ UNCHANGED <<row, sender>> \/ DispatchInsert \/ Sending \/ Stop
      \/ \E m \in Messages : Purge(m)
      \/ \E a \in Admins : RetryWrite(a)
  BY DEF Next, Emit, Dispatching, DispatchStart, DispatchResolve, DispatchMark,
     DispatchFail, Elapse, RetryCheck, Relicense, vars, queue
<1> QED BY <1>2, <1>3, <1>4, <1>5, <1>6, <1>7, SendingSettles

(* What was sent is queued again by an administrator only: neither the     *)
(* dispatcher, that takes up an event again after a stop, nor a late       *)
(* failure of the sender finds a message that was delivered meanwhile.     *)
THEOREM SentStaysSent == Spec => NotResent
<1> DEFINE ByHand == \A m \in Messages : row[m] = "SENT" /\ row'[m] = "PENDING" =>
                       \E a \in Admins : retry[a] = m /\ retry'[a] = None
<1>1. Init => SenderHolds
  BY DEF Init, NoSend, SenderHolds
<1>2. IInv /\ SenderHolds /\ [Next]_vars => SenderHolds'
  BY StepHolds
<1>3. IInv /\ SenderHolds /\ [Next]_vars => [ByHand]_vars
  <2> SUFFICES ASSUME IInv, SenderHolds, Next, NEW m \in Messages,
                      row[m] = "SENT", row'[m] = "PENDING"
               PROVE  \E a \in Admins : retry[a] = m /\ retry'[a] = None
    OBVIOUS
  <2>1. row \in [Messages -> RowStatus] /\ retry \in [Admins -> Messages \cup {None}]
    BY DEF IInv, TypeOK
  <2>2. ASSUME NEW a \in Admins, RetryWrite(a)
        PROVE  retry[a] = m /\ retry'[a] = None
    BY <2>1, <2>2 DEF RetryWrite
  <2>3. CASE SendFail
    BY <2>1, <2>3 DEF SendFail, SenderHolds
  <2>4. CASE SendMark
    BY <2>1, <2>4 DEF SendMark
  <2>5. CASE DispatchInsert
    BY <2>1, <2>5 DEF DispatchInsert, Inserted
  <2>6. CASE SendMail
    BY <2>6 DEF SendMail
  <2>7. ASSUME NEW n \in Messages, Purge(n) PROVE FALSE
    BY <2>1, <2>7 DEF Purge
  <2>8. \/ UNCHANGED row \/ SendFail \/ SendMark \/ DispatchInsert \/ SendMail
        \/ (\E n \in Messages : Purge(n)) \/ (\E a \in Admins : RetryWrite(a))
    BY DEF Next, Emit, Dispatching, DispatchStart, DispatchResolve, DispatchMark,
       DispatchFail, Sending, SendStart, SendDeliver, Elapse, RetryCheck, Relicense, Stop,
       queue
  <2> QED BY <2>2, <2>3, <2>4, <2>5, <2>6, <2>7, <2>8
<1> QED BY Inductive, <1>1, <1>2, <1>3, PTL DEF Spec, NotResent
=============================================================================
