------------------------------- MODULE MCKvec -------------------------------
(* Kvec for TLC: the two arrays are interchangeable, and so are the values. *)
EXTENDS Kvec, TLC

Interchangeable == Permutations(Name) \cup Permutations(Val)
=============================================================================
