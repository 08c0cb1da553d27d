--------------------------- MODULE Notifications ---------------------------
(***************************************************************************)
(* The notification pipeline: the emitter queues events, the dispatcher    *)
(* resolves each into messages of the outbox, and the sender delivers      *)
(* them.  Dispatcher and sender are loops of the worker, each protected by *)
(* a lock in memory, each a sequence of writes of which any may fail.      *)
(*                                                                         *)
(* A message is an event with an address, and stands for its outbox row    *)
(* (unique by dedupeKey).  While the licence is restricted, or lacks the   *)
(* module, only the notices of the licence itself go through.  A run takes *)
(* all that is pending: the batch of 100 is assumed to hold it.  An order  *)
(* among the events of a run, or its messages, makes no difference here.   *)
(***************************************************************************)
EXTENDS Integers

CONSTANTS
  Events,         \* ids of notification events
  LicenseEvents,  \* those whose key starts with "license."
  Addresses,      \* a recipient on a channel
  Mail,           \* those on the EMAIL channel; the others are in-app
  Reach,          \* event -> addresses it may be resolved to
  Admins,         \* administrators who can retry a message at the same time
  None,           \* null
  MaxAttempts,    \* MAX_SEND_ATTEMPTS
  MaxStops        \* bound: times the process stops

ASSUME NoticeAssumption ==
  /\ LicenseEvents \subseteq Events /\ Mail \subseteq Addresses
  /\ Reach \in [Events -> SUBSET Addresses]
  /\ None \notin Events \cup (Events \X Addresses)
ASSUME BoundAssumption == MaxAttempts \in Nat \ {0} /\ MaxStops \in Nat

VARIABLES
  event,        \* NotificationEvent.status of each event
  row,          \* NotificationOutbox.status of each message
  attempts,     \* NotificationOutbox.attempts, capped at MaxAttempts
  backoff,      \* messages whose nextAttemptAt is still to come
  dispatch,     \* the run of dispatchPending
  sender,       \* the run of sendPending
  retry,        \* administrator -> message whose retryOutbox passed its check
  operational,  \* is the licence in force, with the module "notifications"?
  stops         \* times the process has stopped

queue == <<event, row, attempts, backoff>>
setting == <<operational, stops>>
vars == <<queue, dispatch, sender, retry, setting>>

-----------------------------------------------------------------------------
Messages == {m \in Events \X Addresses : m[2] \in Reach[m[1]]}
Mails == {m \in Messages : m[2] \in Mail}
OfLicense == {m \in Messages : m[1] \in LicenseEvents}

EventStatus == {"NONE", "PENDING", "DISPATCHED", "FAILED"}
RowStatus == {"NONE", "PENDING", "SENT", "FAILED", "SUPPRESSED", "PURGED"}

(* The current event, the rest of the batch, the messages it was resolved  *)
(* to and those still to be inserted                                       *)
DispatchRow == [pc : {"idle", "resolve", "insert"}, cur : Events \cup {None},
                rest : SUBSET Events, all : SUBSET Messages, left : SUBSET Messages]
NoDispatch == [pc |-> "idle", cur |-> None, rest |-> {}, all |-> {}, left |-> {}]

(* The current message and the rest of the batch *)
SenderRow == [pc : {"idle", "mail", "send", "mark"}, cur : Messages \cup {None},
              rest : SUBSET Messages]
NoSend == [pc |-> "idle", cur |-> None, rest |-> {}]

NoRetry == [a \in Admins |-> None]

TypeOK ==
  /\ event \in [Events -> EventStatus]
  /\ row \in [Messages -> RowStatus]
  /\ attempts \in [Messages -> 0 .. MaxAttempts]
  /\ backoff \subseteq Messages
  /\ dispatch \in DispatchRow
  /\ sender \in SenderRow
  /\ retry \in [Admins -> Messages \cup {None}]
  /\ operational \in BOOLEAN /\ stops \in 0 .. MaxStops

Init ==
  /\ event = [e \in Events |-> "NONE"]
  /\ row = [m \in Messages |-> "NONE"]
  /\ attempts = [m \in Messages |-> 0]
  /\ backoff = {}
  /\ dispatch = NoDispatch /\ sender = NoSend /\ retry = NoRetry
  /\ operational = TRUE /\ stops = 0

-----------------------------------------------------------------------------
(* NotificationEmitterService.emit: the domain or the sweeper queues an     *)
(* event, once by dedupeKey                                                *)
Emit(e) ==
  /\ event[e] = "NONE"
  /\ event' = [event EXCEPT ![e] = "PENDING"]
  /\ UNCHANGED <<row, attempts, backoff, dispatch, sender, retry, setting>>

-----------------------------------------------------------------------------
(* dispatchPending                                                         *)

DispatchableWhenOperational(e) == event[e] = "PENDING" /\ operational

Dispatchable(e) == event[e] = "PENDING" /\ (operational \/ e \in LicenseEvents)

(* Take up one event of a batch, or end the run *)
TakeUp(batch) ==
  IF batch = {} THEN dispatch' = NoDispatch
  ELSE \E e \in batch : dispatch' = [NoDispatch EXCEPT !.pc = "resolve", !.cur = e,
                                                       !.rest = batch \ {e}]

DispatchStart ==
  /\ dispatch.pc = "idle"
  /\ LET batch == {e \in Events : Dispatchable(e)}
     IN  batch # {} /\ TakeUp(batch)
  /\ UNCHANGED <<queue, sender, retry, setting>>

(* The resolver finds the recipients of the moment, perhaps nobody *)
DispatchResolve ==
  /\ dispatch.pc = "resolve"
  /\ \E to \in SUBSET Reach[dispatch.cur] :
       LET all == {dispatch.cur} \X to
       IN  dispatch' = [dispatch EXCEPT !.pc = "insert", !.all = all, !.left = all]
  /\ UNCHANGED <<queue, sender, retry, setting>>

InsertedMailOnly(m) ==
  IF m \in Mails /\ row[m] = "NONE" THEN [row EXCEPT ![m] = "PENDING"] ELSE row

InsertedAgain(m) == [row EXCEPT ![m] = "PENDING"]

(* A row that is there already (dedupeKey) is left as it is *)
Inserted(m) ==
  IF row[m] \in {"NONE", "PURGED"} THEN [row EXCEPT ![m] = "PENDING"] ELSE row

DispatchInsert ==
  /\ dispatch.pc = "insert"
  /\ \E m \in dispatch.left :
       /\ row' = Inserted(m)
       /\ dispatch' = [dispatch EXCEPT !.left = @ \ {m}]
  /\ UNCHANGED <<event, attempts, backoff, sender, retry, setting>>

ReadyToMarkEarly == dispatch.pc = "insert"

ReadyToMark == dispatch.pc = "insert" /\ dispatch.left = {}

DispatchMark ==
  /\ ReadyToMark
  /\ event' = [event EXCEPT ![dispatch.cur] = "DISPATCHED"]
  /\ TakeUp(dispatch.rest)
  /\ UNCHANGED <<row, attempts, backoff, sender, retry, setting>>

(* An error while resolving or inserting: the event is FAILED for good *)
DispatchFail ==
  /\ dispatch.pc # "idle"
  /\ event' = [event EXCEPT ![dispatch.cur] = "FAILED"]
  /\ TakeUp(dispatch.rest)
  /\ UNCHANGED <<row, attempts, backoff, sender, retry, setting>>

-----------------------------------------------------------------------------
(* sendPending                                                             *)

Sendable(m) ==
  /\ row[m] = "PENDING" /\ m \notin backoff
  /\ operational \/ m \in OfLicense

SendStart ==
  /\ sender.pc = "idle"
  /\ LET batch == {m \in Messages : Sendable(m)}
     IN  batch # {} /\ sender' = [NoSend EXCEPT !.pc = "mail", !.rest = batch]
  /\ UNCHANGED <<queue, dispatch, retry, setting>>

SendNext(batch) ==
  IF batch = {} THEN sender' = NoSend
  ELSE \E m \in batch : sender' = [pc |-> "send", cur |-> m, rest |-> batch \ {m}]

(* Outgoing mail may be disabled at this moment: then the mails of the     *)
(* batch are suppressed in one write, and the loop skips them              *)
SendMail ==
  /\ sender.pc = "mail"
  /\ \E mails \in {{}, sender.rest \cap Mails} :
       /\ row' = [m \in Messages |-> IF m \in mails THEN "SUPPRESSED" ELSE row[m]]
       /\ SendNext(sender.rest \ mails)
  /\ UNCHANGED <<event, attempts, backoff, dispatch, retry, setting>>

(* channel.send succeeded: the message has left, and nothing says so yet *)
SendDeliver ==
  /\ sender.pc = "send"
  /\ sender' = [sender EXCEPT !.pc = "mark"]
  /\ UNCHANGED <<queue, dispatch, retry, setting>>

Attempted(m) ==
  [attempts EXCEPT ![m] = IF @ < MaxAttempts THEN @ + 1 ELSE @]

SendMark ==
  /\ sender.pc = "mark"
  /\ row' = [row EXCEPT ![sender.cur] = "SENT"]
  /\ attempts' = Attempted(sender.cur)
  /\ SendNext(sender.rest)
  /\ UNCHANGED <<event, backoff, dispatch, retry, setting>>

AfterFailureForever(m) == "PENDING"

AfterFailure(m) == IF attempts[m] + 1 >= MaxAttempts THEN "FAILED" ELSE "PENDING"

(* The send failed, or the write that marks the message SENT did *)
SendFail ==
  /\ sender.pc \in {"send", "mark"}
  /\ LET m == sender.cur IN
       /\ row' = [row EXCEPT ![m] = AfterFailure(m)]
       /\ backoff' = IF AfterFailure(m) = "FAILED" THEN backoff \ {m}
                     ELSE backoff \cup {m}
       /\ attempts' = Attempted(m)
  /\ SendNext(sender.rest)
  /\ UNCHANGED <<event, dispatch, retry, setting>>

(* nextAttemptAt comes *)
Elapse(m) ==
  /\ m \in backoff
  /\ backoff' = backoff \ {m}
  /\ UNCHANGED <<event, row, attempts, dispatch, sender, retry, setting>>

-----------------------------------------------------------------------------
(* retryOutbox: an administrator asks again for a message that FAILED      *)

Retryable(m) == row[m] = "FAILED"

RetryCheck(a, m) ==
  /\ retry[a] = None /\ Retryable(m)
  /\ retry' = [retry EXCEPT ![a] = m]
  /\ UNCHANGED <<queue, dispatch, sender, setting>>

(* The update goes by id, and fails if the row is gone *)
RetryWrite(a) ==
  /\ retry[a] # None
  /\ LET found == {retry[a]} \ {m \in Messages : row[m] \in {"NONE", "PURGED"}}
     IN  /\ row' = [m \in Messages |-> IF m \in found THEN "PENDING" ELSE row[m]]
         /\ backoff' = backoff \ found
  /\ retry' = [retry EXCEPT ![a] = None]
  /\ UNCHANGED <<event, attempts, dispatch, sender, setting>>

(* purgeReadInApp: an in-app message that was read, long ago *)
Purge(m) ==
  /\ m \notin Mails /\ row[m] = "SENT"
  /\ row' = [row EXCEPT ![m] = "PURGED"]
  /\ attempts' = [attempts EXCEPT ![m] = 0]
  /\ UNCHANGED <<event, backoff, dispatch, sender, retry, setting>>

(* The licence, or its entitlement, changes *)
Relicense ==
  /\ operational' = ~operational
  /\ UNCHANGED <<queue, dispatch, sender, retry, stops>>

(* The process stops, or the database goes away and a failure cannot be    *)
(* recorded: the runs end where they are                                   *)
Stop ==
  /\ stops < MaxStops /\ stops' = stops + 1
  /\ dispatch' = NoDispatch /\ sender' = NoSend /\ retry' = NoRetry
  /\ UNCHANGED <<queue, operational>>

-----------------------------------------------------------------------------
Dispatching ==
  \/ DispatchStart \/ DispatchResolve \/ DispatchInsert \/ DispatchMark \/ DispatchFail
Sending ==
  \/ SendStart \/ SendMail \/ SendDeliver \/ SendMark \/ SendFail

Next ==
  \/ \E e \in Events : Emit(e)
  \/ Dispatching \/ Sending
  \/ \E m \in Messages : Elapse(m) \/ Purge(m)
  \/ \E a \in Admins : RetryWrite(a) \/ \E m \in Messages : RetryCheck(a, m)
  \/ Relicense \/ Stop

(* The timers of the worker run for ever, their awaits settle, time passes *)
Spec ==
  /\ Init /\ [][Next]_vars
  /\ WF_vars(Dispatching) /\ WF_vars(Sending)
  /\ \A m \in Messages : WF_vars(Elapse(m))

-----------------------------------------------------------------------------
(* An event is only marked DISPATCHED once every recipient it was resolved *)
(* to has its message, also when an earlier run stopped half way or an     *)
(* earlier message was purged meanwhile.                                   *)
AudienceQueued ==
  [][\A e \in Events : event[e] = "PENDING" /\ event'[e] = "DISPATCHED" =>
       \A m \in dispatch.all : row[m] # "NONE"]_vars

(* Its inductive strengthening: what a run has inserted stays inserted.    *)
DispatchInv ==
  dispatch.pc # "idle" =>
    /\ dispatch.cur \in Events
    /\ \A m \in dispatch.all \ dispatch.left : row[m] # "NONE"

SenderInv == sender.pc \in {"send", "mark"} => sender.cur \in Messages

IInv == TypeOK /\ DispatchInv /\ SenderInv

(* The alarm of the licence is never silenced: none of its events waits    *)
(* for ever to be dispatched, and none of its messages to be delivered or  *)
(* given up, however long the licence stays restricted, the very state     *)
(* that stops everything else.                                             *)
LicenseNoticed ==
  /\ \A e \in LicenseEvents : []<>(event[e] # "PENDING")
  /\ \A m \in OfLicense : []<>(row[m] # "PENDING")

(* Nothing is forgotten once the licence is in force for good: no event    *)
(* and no message stays pending for ever, through failures, stops, backoff *)
(* and retries.                                                            *)
AllSettled ==
  (<>[]operational) =>
    /\ \A e \in Events : []<>(event[e] # "PENDING")
    /\ \A m \in Messages : []<>(row[m] # "PENDING")

(* What was SENT is not queued again by the pipeline itself: neither an    *)
(* event that is taken up again after a stop half way through its          *)
(* recipients, nor a late failure of the sender.  Only an administrator    *)
(* does, whose check found the message FAILED.                             *)
NotResent ==
  [][\A m \in Messages : row[m] = "SENT" /\ row'[m] = "PENDING" =>
       \E a \in Admins : retry[a] = m /\ retry'[a] = None]_vars

(* "Solo se puede reintentar un envío fallido": what was SENT is not       *)
(* queued again at all.                                                    *)
SentIsNotRetried ==
  [][\A m \in Messages : row[m] = "SENT" => row'[m] # "PENDING"]_vars

=============================================================================
