------------------------------- MODULE Powers -------------------------------
(***************************************************************************)
(* The powers of two that every size of the library is one of.             *)
(***************************************************************************)
EXTENDS Integers

(* (size_t) 1 << k, for the k below the width of size_t that callers pass. *)
Shl1[k \in Nat] == IF k = 0 THEN 1 ELSE 2 * Shl1[k - 1]
=============================================================================
