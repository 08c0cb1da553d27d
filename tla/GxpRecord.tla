------------------------------ MODULE GxpRecord ------------------------------
(***************************************************************************)
(* What a logbook entry promises as a regulated record, without a word on  *)
(* how its requests read, check and write: it is open until it is sealed,  *)
(* once, which gives it the next number of its series and fixes its date;  *)
(* what is derived from its content is fixed then too, although it may be  *)
(* filled in further until it is closed; and from then on its content      *)
(* changes only where a field is flagged, by settling the flag.            *)
(*                                                                         *)
(* LogEntry implements it when requests on one entry follow each other     *)
(* (LogEntry!RecordKept).                                                  *)
(***************************************************************************)
EXTENDS Integers

CONSTANTS
  Records,   \* the records
  Numbered,  \* those of the series
  Fields,    \* fields of a record
  Derived    \* those nobody fills in

VARIABLES
  state,    \* none, open, sealed, closed or void
  number,   \* its number in the series, 0 without one
  date,     \* the dates it counts for
  content,  \* its fields' values
  flagged,  \* its fields that are flagged and not settled
  issued    \* the last number given

vars == <<state, number, date, content, flagged, issued>>

Row(r) == <<state[r], number[r], date[r], content[r], flagged[r]>>

Init ==
  /\ state = [r \in Records |-> "none"] /\ number = [r \in Records |-> 0]
  /\ flagged = [r \in Records |-> {}] /\ issued = 0

-----------------------------------------------------------------------------
(* A step is of one record *)
Only(r) == \A x \in Records \ {r} : Row(x)' = Row(x)

Moves(r, from, to) == state[r] = from /\ state'[r] = to /\ Only(r)

Numberless(r) == number'[r] = number[r] /\ issued' = issued

Open(r)  == Moves(r, "none", "open") /\ Numberless(r)
Amend(r) == Moves(r, "open", "open") /\ Numberless(r)
Void(r)  == Moves(r, "open", "void") /\ Numberless(r) /\ content'[r] = content[r]

Seal(r) ==
  /\ Moves(r, "open", "sealed") \/ Moves(r, "open", "closed")
  /\ IF r \in Numbered THEN issued' = issued + 1 /\ number'[r] = issued'
                       ELSE Numberless(r)
  /\ \A f \in Fields \ Derived : content'[r][f] = content[r][f]

Fill(r)  ==
  /\ Moves(r, "sealed", "sealed") /\ Numberless(r) /\ date'[r] = date[r]
  /\ \A f \in Derived : content'[r][f] = content[r][f]
Close(r) ==
  /\ Moves(r, "sealed", "closed") /\ Numberless(r)
  /\ date'[r] = date[r] /\ content'[r] = content[r]

(* A flag is settled, with or without correcting its field *)
Settle(r) ==
  /\ Moves(r, state[r], state[r]) /\ Numberless(r) /\ date'[r] = date[r]
  /\ flagged'[r] \subseteq flagged[r]
  /\ \A f \in Fields : content'[r][f] # content[r][f] => f \in flagged[r] \ flagged'[r]

Next ==
  \E r \in Records :
    Open(r) \/ Amend(r) \/ Void(r) \/ Seal(r) \/ Fill(r) \/ Close(r) \/ Settle(r)

Spec == Init /\ [][Next]_vars
=============================================================================
