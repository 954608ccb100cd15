----------------------------- MODULE KhashSteps -----------------------------
(***************************************************************************)
(* Khash with kh_resize as the loops it is, one bucket or one probe in a   *)
(* step: buckets of the old and of the new table are the same memory, told *)
(* apart by two arrays of flags.  The other calls are single steps.        *)
(***************************************************************************)
EXTENDS Khash

(* "No element" is told from an element. *)
ASSUME HandAssumption == MISSING \notin Key \X Val

VARIABLES
  pc,             \* "caller", or where in kh_resize: "scan" or "probe"
  new_n_buckets, newFlags, j,
  hand,           \* key and val: the element that has no bucket
  i, step,
  before,         \* the table when kh_resize was called
  put             \* the key and value of the kh_put that called it, or MISSING

locals == <<new_n_buckets, newFlags, j, hand, i, step, before, put>>
stepsVars == <<vars, pc, locals>>

StepsInit ==
  /\ Init /\ pc = "caller"
  /\ new_n_buckets = 0 /\ newFlags = AllEmpty(0) /\ j = 0 /\ hand = MISSING
  /\ i = 0 /\ step = 0 /\ before = NoTable /\ put = MISSING

-----------------------------------------------------------------------------
(* The caller's calls, one of which may get into the rehash. *)
Begin(asked, putFor) ==
  LET n == NewSize(asked)
  IN  /\ pc = "caller" /\ pc' = "scan"
      /\ ~TooSmall(h, asked)
      /\ n <= MaxBuckets
      /\ h' = IF h.n_buckets < n
                THEN [h EXCEPT !.keys = Realloc(@, n), !.vals = Realloc(@, n)] ELSE h
      /\ new_n_buckets' = n /\ newFlags' = AllEmpty(n)
      /\ j' = 0 /\ hand' = MISSING /\ i' = 0 /\ step' = 0
      /\ before' = h /\ put' = putFor
      /\ UNCHANGED call

PutBegins(key, val) == NeedsResize(h) /\ Begin(PutSize(h), <<key, val>>)

PutAtOnce(key, val) ==
  /\ NeedsResize(h) => TooSmall(h, PutSize(h))
  /\ PutVal(key, val)

AtOnce ==
  /\ pc = "caller"
  /\ \/ \E key \in Key, val \in Val : PutAtOnce(key, val)
     \/ \E keysMoved \in BOOLEAN :
          \/ PutWithoutMemory(keysMoved)
          \/ \E asked \in Asked : ResizeWithoutMemory(asked, keysMoved)
     \/ \E x \in 0..MaxBuckets : DelBucket(x)
     \/ ClearTable
     \/ Destroy
  /\ UNCHANGED <<pc, locals>>

Call ==
  \/ \E asked \in Asked : Begin(asked, MISSING)
  \/ \E key \in Key, val \in Val : PutBegins(key, val)
  \/ AtOnce

-----------------------------------------------------------------------------
(* for (j = 0; j != h->n_buckets; ++j) *)
PassBucket ==
  /\ pc = "scan" /\ j # h.n_buckets
  /\ h.flags[j] # "live"
  /\ j' = j + 1
  /\ UNCHANGED <<vars, pc, new_n_buckets, newFlags, hand, i, step, before, put>>

StartOldMask(element) == Probe(element[1], 0, h.n_buckets)     \* mutant
Start(element) == Probe(element[1], 0, new_n_buckets)

TakeUp ==
  /\ pc = "scan" /\ j # h.n_buckets
  /\ h.flags[j] = "live"
  /\ hand' = <<h.keys[j], h.vals[j]>>
  /\ h' = [h EXCEPT !.flags = MarkDeleted(@, j)]
  /\ pc' = "probe" /\ i' = Start(hand') /\ step' = 0
  /\ UNCHANGED <<call, new_n_buckets, newFlags, j, before, put>>

(* while (!__ac_isempty(new_flags, i)) i = (i + (++step)) & new_mask; *)
LongerSame(s) == s                                             \* mutant
Longer(s) == s + 1
ProbeOn ==
  /\ pc = "probe" /\ newFlags[i] # "empty"
  /\ step' = Longer(step)
  /\ i' = (i + step') % new_n_buckets
  /\ UNCHANGED <<vars, pc, new_n_buckets, newFlags, j, hand, before, put>>

Write(flags) ==
  h' = [h EXCEPT !.keys[i] = hand[1], !.vals[i] = hand[2], !.flags = flags]

(* Whether an element that has not moved yet is where the probe ended. *)
OccupiedIgnored == FALSE                                       \* mutant
OccupiedByOld == i < h.n_buckets /\ h.flags[i] = "live"

Evict ==
  /\ pc = "probe" /\ newFlags[i] = "empty" /\ OccupiedByOld
  /\ newFlags' = [newFlags EXCEPT ![i] = "live"]
  /\ Write(MarkDeleted(h.flags, i))
  /\ hand' = <<h.keys[i], h.vals[i]>>
  /\ i' = Start(hand') /\ step' = 0
  /\ UNCHANGED <<call, pc, new_n_buckets, j, before, put>>

Settle ==
  /\ pc = "probe" /\ newFlags[i] = "empty" /\ ~OccupiedByOld
  /\ newFlags' = [newFlags EXCEPT ![i] = "live"]
  /\ Write(h.flags)
  /\ pc' = "scan" /\ j' = j + 1 /\ hand' = MISSING
  /\ UNCHANGED <<call, new_n_buckets, i, step, before, put>>

(* The end of kh_resize, and of the kh_put that called it. *)
Rehashed ==
  LET n == new_n_buckets
      Shrink(a) == IF h.n_buckets > n THEN Realloc(a, n) ELSE a
  IN  [n_buckets |-> n, size |-> h.size, n_occupied |-> h.size,
       upper_bound |-> Upper(n), flags |-> newFlags,
       keys |-> Shrink(h.keys), vals |-> Shrink(h.vals)]

Finish ==
  /\ pc = "scan" /\ j = h.n_buckets
  /\ h' = IF put = MISSING THEN Rehashed ELSE PutKey(Rehashed, put[1], put[2])
  /\ call' = IF put = MISSING THEN <<"keep">> ELSE <<"put", put[1], put[2]>>
  /\ pc' = "caller"
  /\ UNCHANGED locals

RunResize == PassBucket \/ TakeUp \/ ProbeOn \/ Evict \/ Settle \/ Finish

StepsNext == Call \/ RunResize

(* A call that has begun runs on; whether there is a next one is open. *)
StepsSpec == StepsInit /\ [][StepsNext]_stepsVars /\ WF_stepsVars(RunResize)

-----------------------------------------------------------------------------
waiting == {b \in 0..(h.n_buckets - 1) : h.flags[b] = "live"}
moved == {b \in 0..(new_n_buckets - 1) : newFlags[b] = "live"}
ElementsAt(t, buckets) == {<<t.keys[b], t.vals[b]>> : b \in buckets}

(***************************************************************************)
(* Whenever the rehash is looked at, each element of the table is in one   *)
(* place: still in its old bucket, in its new one, or in hand; and no      *)
(* bucket is both (kh_resize).                                             *)
(***************************************************************************)
NothingLost ==
  pc # "caller" =>
    LET inHand == IF hand = MISSING THEN {} ELSE {hand}
    IN  /\ waiting \cap moved = {}
        /\ Cardinality(waiting) + Cardinality(moved) + Cardinality(inHand) = h.size
        /\ ElementsAt(h, waiting \cup moved) \cup inHand =
             ElementsAt(before, {b \in 0..(before.n_buckets - 1) :
                                   before.flags[b] = "live"})

(***************************************************************************)
(* kh_resize returns: the scan ends, evictions come to an end, and a probe *)
(* meets an empty bucket (kh_resize's nested loops have no other exit).    *)
(***************************************************************************)
Returns == pc # "caller" ~> pc = "caller"

-----------------------------------------------------------------------------
Atomic == INSTANCE Khash WITH h <- IF pc = "caller" THEN h ELSE before

(* Refinement: what the loops do is what the Resize of KhashOps computes. *)
KhashSpec == Atomic!Spec
=============================================================================
