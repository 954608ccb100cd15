------------------------------ MODULE MCIdxpyr ------------------------------
(***************************************************************************)
(* Idxpyr for TLC: the first and the last bit of blocks, and the indices   *)
(* on both sides of every size a pyramid grows from.                       *)
(***************************************************************************)
EXTENDS Idxpyr

MCMakeSizes == {0, 5}
MCTouched == {8, 63, 64, 127}
=============================================================================
