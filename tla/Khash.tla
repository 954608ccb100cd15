------------------------------- MODULE Khash -------------------------------
(***************************************************************************)
(* One hash table of khash.h and its caller.  Memory may run out whenever  *)
(* kh_resize asks for more.                                                *)
(***************************************************************************)
EXTENDS KhashOps

CONSTANTS
  Key, Val,
  Asked,       \* the sizes the caller asks kh_resize for
  MaxBuckets   \* bound on n_buckets after a kh_put that finds the memory

ASSUME KhashAssumption ==
  /\ Hash \in [Key -> Nat]
  /\ MISSING \notin Key \cup Val
  /\ MaxBuckets \in Nat \ (0..3)
  /\ Asked \subseteq 0..MaxBuckets

(***************************************************************************)
(* Every size up to the bound, and the next, fits khint_t.  The proofs are *)
(* about such tables.  One of 2^31 buckets cannot grow: the size that      *)
(* kh_put asks for wraps, kh_resize returns as if it were too small, and   *)
(* the table fills up.                                                     *)
(***************************************************************************)
NoWrap == 2 * MaxBuckets <= Shl1[KhintBits - 1]

VARIABLES
  h,    \* the kh_name_t
  call  \* the caller's last call, as KeyedStore labels it: no step reads it

vars == <<h, call>>

Init == h = NoTable /\ call = <<"keep">>   \* kh_init

-----------------------------------------------------------------------------
(* kh_value(h, kh_put(h, key)) = val, as in the example in khash.h. *)
PutVal(key, val) ==
  LET ready == Ready(h)
  IN  /\ ready.n_buckets <= MaxBuckets /\ h' = PutKey(ready, key, val)
      /\ call' = <<"put", key, val>>

(* kh_put without the memory to resize. *)
PutWithoutMemory(keysMoved) ==
  /\ NeedsResize(h)
  /\ ResizeFails(h, PutSize(h), keysMoved)
  /\ h' = FailedResize(h, PutSize(h), keysMoved) /\ call' = <<"keep">>

ResizeTo(asked) == h' = Resize(h, asked) /\ call' = <<"keep">>

ResizeWithoutMemory(asked, keysMoved) ==
  /\ ResizeFails(h, asked, keysMoved)
  /\ h' = FailedResize(h, asked, keysMoved) /\ call' = <<"keep">>

(* kh_del, of what kh_get found (kh_end, perhaps) or an iteration is at. *)
DelBucket(x) ==
  /\ x <= h.n_buckets /\ h' = Del(h, x)
  /\ call' = IF x # h.n_buckets /\ h.flags[x] = "live"
               THEN <<"del", h.keys[x]>> ELSE <<"keep">>

ClearTable == h' = Clear(h) /\ call' = <<"clear">>

Destroy == h' = NoTable /\ call' = <<"clear">>

Next ==
  \/ \E key \in Key, val \in Val : PutVal(key, val)
  \/ \E asked \in Asked : ResizeTo(asked)
  \/ \E keysMoved \in BOOLEAN :
       \/ PutWithoutMemory(keysMoved)
       \/ \E asked \in Asked : ResizeWithoutMemory(asked, keysMoved)
  \/ \E x \in 0..MaxBuckets : DelBucket(x)
  \/ ClearTable
  \/ Destroy

Spec == Init /\ [][Next]_vars

-----------------------------------------------------------------------------
Buckets == 0..(h.n_buckets - 1)
With(flags) == {i \in Buckets : h.flags[i] \in flags}

(* Type invariant: the arrays have room for every bucket. *)
TypeOK ==
  /\ h.n_buckets \in {0} \cup {Shl1[k] : k \in 2..MaxBuckets}
  /\ h.flags \in [Buckets -> {"empty", "deleted", "live"}]
  /\ Buckets \subseteq DOMAIN h.keys /\ Buckets \subseteq DOMAIN h.vals
  /\ \A i \in With({"live"}) : h.keys[i] \in Key /\ h.vals[i] \in Val

(***************************************************************************)
(* Every element is where kh_get looks for its key: no deletion, reuse of  *)
(* a deleted bucket or rehash cuts its probe short or enters a key twice.  *)
(***************************************************************************)
LiveIsFound == \A i \in With({"live"}) : Get(h, h.keys[i]) = i

(***************************************************************************)
(* kh_size and the count that decides when to rehash are right, also after *)
(* a deleted bucket was used again or a rehash dropped the deleted ones.   *)
(***************************************************************************)
CountsRight ==
  /\ h.size = Cardinality(With({"live"}))
  /\ h.n_occupied = Cardinality(With({"live", "deleted"}))

(***************************************************************************)
(* There is always a bucket that was never used: the probe of kh_resize,   *)
(* which has no other end, and the one of kh_put, which otherwise might    *)
(* take an element's bucket, rely on it.                                   *)
(***************************************************************************)
ProbeEnds == h.n_buckets # 0 => With({"empty"}) # {}

-----------------------------------------------------------------------------
MapOf(table) ==
  [key \in Key |-> LET x == Get(table, key)
                   IN  IF x = table.n_buckets THEN MISSING ELSE table.vals[x]]

Store == INSTANCE KeyedStore WITH map <- MapOf(h)

(***************************************************************************)
(* Refinement: a kh_put gives its key its value and a kh_del takes out the *)
(* key of its bucket, both with no other key touched; a kh_resize, and a   *)
(* call that returns for want of memory with its keys moved already,       *)
(* leaves every key its value.                                             *)
(***************************************************************************)
KeyedStoreSpec == Store!Spec

(***************************************************************************)
(* A rehash in place, in which elements evict each other from the buckets  *)
(* that old and new table share, leaves every key its own value, from any  *)
(* state the table can get into.                                           *)
(***************************************************************************)
RehashKeepsMap == \A asked \in Asked : MapOf(Resize(h, asked)) = MapOf(h)
=============================================================================
