---------------------------- MODULE KhashForeach ----------------------------
(***************************************************************************)
(* kh_foreach over a Khash.  The block of code that it runs for an element *)
(* may delete buckets and enter keys, as long as kh_put does not rehash;   *)
(* between loops the table is used in any way.                             *)
(***************************************************************************)
EXTENDS Khash

VARIABLES
  iter,  \* __i, or NONE outside a loop
  due,   \* keys there were when the loop began, not visited or deleted since
  done   \* keys visited in this loop, and not deleted since

loopVars == <<iter, due, done>>
foreachVars == <<vars, loopVars>>

NONE == -1

LiveKeys(t) == {t.keys[b] : b \in {c \in 0..(t.n_buckets - 1) : t.flags[c] = "live"}}

ForeachInit == Init /\ iter = NONE /\ due = {} /\ done = {}

-----------------------------------------------------------------------------
UseBetween == iter = NONE /\ Next /\ UNCHANGED loopVars

ForeachBegin ==
  /\ iter = NONE
  /\ iter' = 0 /\ due' = LiveKeys(h) /\ done' = {}
  /\ UNCHANGED vars

(* if (!kh_exist(h, __i)) continue; *)
ForeachSkip ==
  /\ iter # NONE /\ iter # h.n_buckets
  /\ h.flags[iter] # "live"
  /\ iter' = iter + 1
  /\ UNCHANGED <<vars, due, done>>

PutRehashes == TRUE                                            \* mutant
PutStays == ~NeedsResize(h)

Body ==
  \/ UNCHANGED vars
  \/ \E x \in 0..MaxBuckets : DelBucket(x)
  \/ PutStays /\ \E key \in Key, val \in Val : PutVal(key, val)

ForeachVisit ==
  /\ iter # NONE /\ iter # h.n_buckets
  /\ h.flags[iter] = "live"
  /\ Body
  /\ iter' = iter + 1
  /\ due' = (due \ {h.keys[iter]}) \cap LiveKeys(h')
  /\ done' = (done \cup {h.keys[iter]}) \cap LiveKeys(h')

ForeachEnd ==
  /\ iter # NONE /\ iter = h.n_buckets
  /\ iter' = NONE /\ due' = {} /\ done' = {}
  /\ UNCHANGED vars

ForeachNext ==
  UseBetween \/ ForeachBegin \/ ForeachSkip \/ ForeachVisit \/ ForeachEnd

ForeachSpec == ForeachInit /\ [][ForeachNext]_foreachVars

-----------------------------------------------------------------------------
(***************************************************************************)
(* kh_foreach visits every element once: whatever its code deletes or      *)
(* enters, those still due lie ahead and those done behind, so none is due *)
(* when the loop ends and none comes up a second time.                     *)
(***************************************************************************)
VisitedOnce ==
  iter # NONE =>
    /\ \A key \in due : Get(h, key) >= iter /\ Get(h, key) # h.n_buckets
    /\ \A key \in done : Get(h, key) < iter
=============================================================================
