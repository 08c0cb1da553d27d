---------------------------- MODULE MCSchedules -----------------------------
(* Instances of Schedules for TLC: the grids of MCRecurrences divide the   *)
(* day, as the intervals of whole fractions of a day do; the interval of   *)
(* MCOddRecurrences does not.                                              *)
EXTENDS Schedules

MCRecurrences ==
  {[kind |-> "INTERVAL", every |-> 1, anchor |-> 0, times |-> {}],
   [kind |-> "DAILY", every |-> 1, anchor |-> 0, times |-> {1}]}

MCOddRecurrences ==
  {[kind |-> "INTERVAL", every |-> 3, anchor |-> 0, times |-> {}]}

MCAllRecurrences == MCRecurrences \cup MCOddRecurrences
=============================================================================
