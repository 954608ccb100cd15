----------------------------- MODULE MCCircbuf -----------------------------
(* Circbuf for TLC: the elements are interchangeable, so a symmetry set. *)
EXTENDS Circbuf, TLC

ElemSymmetry == Permutations(Elem)
=============================================================================
