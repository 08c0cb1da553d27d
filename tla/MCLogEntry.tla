----------------------------- MODULE MCLogEntry -----------------------------
(* Small instances of LogEntry: a template with two sections and a workflow *)
(* draft -> review -> closed in which review can be sent back to draft and  *)
(* closing is signed.                                                       *)
EXTENDS LogEntry, TLC

CONSTANTS s1, s2, draft, review, check, closed, e1, e2

MCTransitions ==
  { [from |-> draft,  to |-> review, sign |-> FALSE],
    [from |-> review, to |-> draft,  sign |-> FALSE],
    [from |-> review, to |-> closed, sign |-> TRUE] }

(* Two stages to go to from draft, both left by a signature                *)
MCForked ==
  { [from |-> draft,  to |-> review, sign |-> FALSE],
    [from |-> draft,  to |-> check,  sign |-> FALSE],
    [from |-> check,  to |-> closed, sign |-> TRUE],
    [from |-> review, to |-> closed, sign |-> TRUE] }

(* s1 is filled in draft; s2, with the effective date, in every stage *)
MCEditableIn == (s1 :> draft) @@ (s2 :> None)

(* s1 alone, filled in review; e2 is saved once and e1 never *)
MCOneSection == (s1 :> review)
MCOneSave == (e1 :> 0) @@ (e2 :> 1)

MCTwoSaves == (e1 :> 2)

(* e1 has a workflow, e2 is a form without one *)
MCMaxVersion == (e1 :> 3) @@ (e2 :> 1)

(* The computed field goes against s1: in range when s1 is not *)
MCFormula ==
  [val \in Reading |->
    IF val[s1] = None THEN None ELSE CHOOSE v \in Values : v # val[s1]]
MCNoFormula == [val \in Reading |-> None]

(* Requests are interchangeable *)
RequestSymmetry == Permutations(Requests)
=============================================================================
