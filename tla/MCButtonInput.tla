---------------------------- MODULE MCButtonInput ---------------------------
(***************************************************************************)
(* TLC instances of ButtonInput: one configured port, and one that is not  *)
(* mapped but counts for the reading of all ones; and the frames of the    *)
(* button expander for every fifth content of one register and every       *)
(* third of the other.                                                     *)
(***************************************************************************)
EXTENDS ButtonInput

CONSTANTS p1, p2

MCRegister1 == {5 * n : n \in 0 .. 51}
MCRegister2 == {3 * n : n \in 0 .. 85}
=============================================================================
