------------------------------ MODULE KvecOps ------------------------------
(***************************************************************************)
(* kvec.h: kvec_t as a record and its macros as operators on it.  The      *)
(* storage is a function from 0..(m - 1); realloc keeps what fits of it.   *)
(***************************************************************************)
EXTENDS Integers

CONSTANT NULL   \* what is in an entry that nothing was written to

(* kv_roundup32, for the sizes up to 2^32 that it was made for: the least  *)
(* power of two that holds x, and 0 for 0.                                 *)
RoundUp[x \in Nat] == IF x <= 1 THEN x ELSE 2 * RoundUp[(x + 1) \div 2]

KvInit == [n |-> 0, m |-> 0, a |-> [i \in {} |-> NULL]]

KvFull(v) == v.n >= v.m
KvEmpty(v) == v.n = 0

KvResize(v, m) ==
  [v EXCEPT !.m = m, !.a = [i \in 0..(m - 1) |-> IF i < v.m THEN @[i] ELSE NULL]]

(* kv_push and kv_pushp double the storage when n = m. *)
KvReady(v) == IF v.n = v.m THEN KvResize(v, IF v.m = 0 THEN 2 ELSE 2 * v.m) ELSE v
KvStaticPush(v, x) == [v EXCEPT !.a[v.n] = x, !.n = @ + 1]
KvPush(v, x) == KvStaticPush(KvReady(v), x)
KvPop(v) == [v EXCEPT !.n = @ - 1]

(* The storage and the size that kv_a makes for index i. *)
OutsideLate(v, i) == v.m < i                                   \* mutant
Outside(v, i) == v.m <= i
KvReach(v, i) ==
  IF Outside(v, i) THEN [KvResize(v, RoundUp[i + 1]) EXCEPT !.n = i + 1]
  ELSE IF v.n <= i THEN [v EXCEPT !.n = i + 1]
  ELSE v

(* kv_copy: the entries past those copied stay. *)
KvCopyUnsized(v1, v0) ==                                       \* mutant
  [(IF v1.m < v0.n THEN KvResize(v1, v0.n) ELSE v1) EXCEPT
     !.a = [i \in DOMAIN @ |-> IF i < v0.n THEN v0.a[i] ELSE @[i]]]
KvCopy(v1, v0) ==
  [(IF v1.m < v0.n THEN KvResize(v1, v0.n) ELSE v1) EXCEPT
     !.n = v0.n, !.a = [i \in DOMAIN @ |-> IF i < v0.n THEN v0.a[i] ELSE @[i]]]
=============================================================================
