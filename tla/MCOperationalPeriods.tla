------------------------ MODULE MCOperationalPeriods ------------------------
(* A small instance of OperationalPeriods: the first period belongs to the *)
(* year before that of the others, so that it may be generated late.       *)
EXTENDS OperationalPeriods, TLC

CONSTANTS y1, y2

MCYearOf == [p \in Periods |-> IF p = 1 THEN y1 ELSE y2]

(* The values are interchangeable *)
ContentSymmetry == Permutations(Contents)
=============================================================================
