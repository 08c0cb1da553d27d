-------------------------- MODULE MCShiftHandover ---------------------------
(* A small instance of ShiftHandover: u1 sees the whole organisation, u2   *)
(* nothing of it.                                                          *)
EXTENDS ShiftHandover, TLC

CONSTANTS u1, u2

MCSees == (u1 :> Refs) @@ (u2 :> {})

(* Shifts are interchangeable *)
ShiftSymmetry == Permutations(Shifts)
=============================================================================
