---------------------------- MODULE MCIncidents -----------------------------
(* A small instance of Incidents: the workflow reported -> closed with a   *)
(* stage of work that can be repeated, a type that asks for everything and *)
(* one that asks for nothing, an obligation for every incident and one for *)
(* the severe ones only.                                                   *)
EXTENDS Incidents

CONSTANTS reported, work, closed

MCFlow == {<<reported, work>>, <<work, reported>>, <<work, closed>>}

MCTypes ==
  {[capa |-> TRUE,  investigation |-> TRUE],
   [capa |-> FALSE, investigation |-> FALSE]}
=============================================================================
