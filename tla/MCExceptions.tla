---------------------------- MODULE MCExceptions ----------------------------
(* Small instances of Exceptions.  In rule_triage one exception of a rule  *)
(* and one of a reading are worked on by users while the worker runs; in   *)
(* rule_settles two orders share batches of one, so that the second waits  *)
(* behind the first.                                                       *)
EXTENDS Exceptions, TLC

(* Requests are interchangeable: no property of rule_triage names one, and *)
(* none is a liveness property                                             *)
RequestSymmetry == Permutations(Requests)
=============================================================================
