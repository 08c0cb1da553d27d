-------------------------- MODULE MCNotifications --------------------------
(* Small instances of Notifications: a notice of the licence that is       *)
(* mailed, and an operational one that goes to a mailbox and to an in-app  *)
(* inbox, so that a run can fail or stop between its two messages.  In     *)
(* notices one administrator retries; in notice_resent two do.             *)
EXTENDS Notifications

CONSTANTS lic, op, mail, bell

MCReach == [e \in {lic, op} |-> IF e = lic THEN {mail} ELSE {mail, bell}]
=============================================================================
