-------------------------------- MODULE Kvec --------------------------------
(***************************************************************************)
(* The arrays of kvec.h and a caller that keeps their rules: it pops only  *)
(* from an array that is not empty, pushes statically only to one that is  *)
(* not full, and reserves no less than it has.  Memory never runs out.     *)
(***************************************************************************)
EXTENDS KvecOps, Sequences

CONSTANTS
  Name, Val,
  Reserved,   \* the capacities that kv_resize is called with
  Index,      \* the indices that kv_a is called with
  MaxSize     \* bound on n

ASSUME KvecAssumption ==
  /\ NULL \notin Val
  /\ Reserved \subseteq Nat
  /\ Index \subseteq Nat
  /\ MaxSize \in Nat

VARIABLE vec   \* the kvec_t of each name

Init == vec = [v \in Name |-> KvInit]

Becomes(v, record) == record.n <= MaxSize /\ vec' = [vec EXCEPT ![v] = record]

-----------------------------------------------------------------------------
Push(v, x) == Becomes(v, KvPush(vec[v], x))

(* kv_staticPush, as mempoolEbr.c uses it. *)
StaticPush(v, x) == ~KvFull(vec[v]) /\ Becomes(v, KvStaticPush(vec[v], x))

(* kv_pushp; the caller may write the element later, or never. *)
Pushp(v) == Becomes(v, [KvReady(vec[v]) EXCEPT !.n = @ + 1])

Pop(v) == ~KvEmpty(vec[v]) /\ Becomes(v, KvPop(vec[v]))

(* kv_a(type, v, i) = x *)
AssignAt(v, i, x) == Becomes(v, [KvReach(vec[v], i) EXCEPT !.a[i] = x])

Reserve(v, m) == m >= vec[v].n /\ Becomes(v, KvResize(vec[v], m))

Copy(v, w) == v # w /\ Becomes(v, KvCopy(vec[v], vec[w]))

(* kv_destroy, and kv_init for the next use. *)
DestroyInit(v) == Becomes(v, KvInit)

Next ==
  \E v \in Name :
    \/ \E x \in Val : Push(v, x) \/ StaticPush(v, x)
    \/ Pushp(v)
    \/ Pop(v)
    \/ \E i \in Index, x \in Val : AssignAt(v, i, x)
    \/ \E m \in Reserved : Reserve(v, m)
    \/ \E w \in Name : Copy(v, w)
    \/ DestroyInit(v)

Spec == Init /\ [][Next]_vec

-----------------------------------------------------------------------------
(* The values a kvec_t has: no more elements than storage. *)
IsVec(v) ==
  /\ v.m \in Nat
  /\ v \in [n : 0..v.m, m : Nat, a : [0..(v.m - 1) -> Val \cup {NULL}]]

(***************************************************************************)
(* Type invariant.  No array has more elements than storage, however       *)
(* pushes, assignments past the end, copies and reservations follow each   *)
(* other: kv_push tests n = m only, and would never notice.                *)
(***************************************************************************)
TypeOK ==
  /\ vec = [v \in Name |-> vec[v]]
  /\ \A v \in Name : IsVec(vec[v])

-----------------------------------------------------------------------------
Elements(v) == [k \in 1..v.n |-> v.a[k - 1]]

array == [v \in Name |-> Elements(vec[v])]

Arrays == INSTANCE Vector WITH Content <- Val \cup {NULL}

(***************************************************************************)
(* Refinement: each array is a sequence of its own.  Growing, reserving    *)
(* and assigning past the end keep every element, and a copy stays what it *)
(* was when its source changes.                                            *)
(***************************************************************************)
VectorSpec == Arrays!Spec
=============================================================================
