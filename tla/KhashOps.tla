------------------------------ MODULE KhashOps ------------------------------
(***************************************************************************)
(* khash.h: kh_name_t and the functions of __KHASH_IMPL, as values and     *)
(* operators, for a table that has values (kh_is_map).  The two flag bits  *)
(* of a bucket are one of "empty", "deleted" and "live".                   *)
(***************************************************************************)
EXTENDS Powers, FiniteSetsExt

CONSTANTS
  Hash,      \* the hash function: a function on the keys
  MISSING,   \* what realloc'd memory holds
  KhintBits  \* width of khint_t: 32

ASSUME WidthAssumption == KhintBits \in Nat \ {0}

(* kroundup32: the least power of two that holds n, and 0 for 0 and for a  *)
(* power that is too wide.  In kh_put, size << 1 is too wide only when all *)
(* of 2^31 buckets are live; what kh_resize is then asked for is too small *)
(* either way, and the product is modelled without a width.                *)
RoundUpNot(n) == n                                             \* mutant
RoundUp(n) ==
  IF n = 0 THEN 0
  ELSE (CHOOSE p \in {Shl1[k] : k \in 0..n} : n <= p /\ p < 2 * n) % Shl1[KhintBits]

(* (khint_t) (n * __ac_HASH_UPPER + 0.5) *)
UpperFull(n) == n                                              \* mutant
Upper(n) == (154 * n + 100) \div 200

AllEmpty(n) == [i \in 0..(n - 1) |-> "empty"]

NoTable ==
  [n_buckets |-> 0, size |-> 0, n_occupied |-> 0, upper_bound |-> 0,
   flags |-> AllEmpty(0), keys |-> AllEmpty(0), vals |-> AllEmpty(0)]

(***************************************************************************)
(* A probe starts at the key's hash and lengthens its step by one each     *)
(* time, so after s steps it is s(s+1)/2 further.  It is back where it     *)
(* started after 2n - 1 steps.                                             *)
(***************************************************************************)
Probe(key, s, n) == (Hash[key] + (s * (s + 1)) \div 2) % n
LeastStep(n, stops) ==
  LET from[s \in 0..(2 * n - 1)] ==
        IF s \in stops \/ s = 2 * n - 1 THEN s ELSE from[s + 1]
  IN  from[0]

(* Where the probe for key ends, at an empty bucket, the key's or its start. *)
LastStep(h, key) ==
  LET start == Probe(key, 0, h.n_buckets)
      stops == {s \in Nat : LET i == Probe(key, s, h.n_buckets)
                            IN  \/ h.flags[i] = "empty"
                                \/ h.flags[i] = "live" /\ h.keys[i] = key
                                \/ s > 0 /\ i = start}
  IN  LeastStep(h.n_buckets, stops)

(* kh_get *)
Get(h, key) ==
  IF h.n_buckets = 0 THEN 0
  ELSE LET s == LastStep(h, key)
           i == Probe(key, s, h.n_buckets)
       IN  IF (s > 0 /\ i = Probe(key, 0, h.n_buckets)) \/ h.flags[i] # "live"
             THEN h.n_buckets ELSE i

(* kh_clear *)
Clear(h) ==
  [h EXCEPT !.flags = AllEmpty(h.n_buckets), !.size = 0, !.n_occupied = 0]

-----------------------------------------------------------------------------
(* realloc: what fits is kept. *)
Realloc(a, n) == [i \in 0..(n - 1) |-> IF i \in DOMAIN a THEN a[i] ELSE MISSING]

(***************************************************************************)
(* One round of the kick-out loop of kh_resize: the element in hand goes   *)
(* to the first bucket of the new table its probe finds empty; if that     *)
(* bucket still holds an element of the old table, that one is in hand     *)
(* next.                                                                   *)
(***************************************************************************)
ValKept(st, i) == st.val                                       \* mutant
ValKicked(st, i) == st.vals[i]
MarkNone(flags, i) == flags                                    \* mutant
MarkDeleted(flags, i) == [flags EXCEPT ![i] = "deleted"]
KickOut(st) ==
  LET free  == {s \in Nat : st.newFlags[Probe(st.key, s, st.n)] = "empty"}
      i     == Probe(st.key, LeastStep(st.n, free), st.n)
      kicks == i \in DOMAIN st.flags /\ st.flags[i] = "live"
  IN  IF st.done THEN st
      ELSE [st EXCEPT !.newFlags[i] = "live",
                      !.keys[i] = st.key, !.key = st.keys[i],
                      !.vals[i] = st.val, !.val = ValKicked(st, i),
                      !.flags = IF kicks THEN MarkDeleted(@, i) ELSE @,
                      !.done = ~kicks]

(* The rounds for one element: each but the last takes another one up. *)
KickOuts(st) ==
  LET after[round \in 0..(st.left + 1)] ==
        IF round = 0 THEN st ELSE KickOut(after[round - 1])
  IN  after[st.left + 1]

(* One step of the loop over the old buckets: the live element moves. *)
Move(st, j) ==
  IF st.flags[j] # "live" THEN st
  ELSE KickOuts([st EXCEPT !.flags = MarkDeleted(@, j), !.done = FALSE,
                           !.key = st.keys[j], !.val = st.vals[j]])

(* The loop over the n old buckets. *)
MoveEach(st, n) ==
  LET moved[j \in 0..n] == IF j = 0 THEN st ELSE Move(moved[j - 1], j - 1)
  IN  moved[n]

NewSize(asked) == IF RoundUp(asked) < 4 THEN 4 ELSE RoundUp(asked)
TooSmall(h, asked) == h.size >= Upper(NewSize(asked))

(* kh_resize: the rehash takes place in keys and vals themselves. *)
Resize(h, asked) ==
  LET n         == NewSize(asked)
      Grow(a)   == IF h.n_buckets < n THEN Realloc(a, n) ELSE a
      Shrink(a) == IF h.n_buckets > n THEN Realloc(a, n) ELSE a
      st        == MoveEach([key |-> MISSING, flags |-> h.flags, keys |-> Grow(h.keys),
                             vals |-> Grow(h.vals), val |-> MISSING, n |-> n,
                             newFlags |-> AllEmpty(n), done |-> TRUE,
                             left |-> h.size], h.n_buckets)
  IN  IF TooSmall(h, asked) THEN h
      ELSE [n_buckets |-> n, size |-> h.size, n_occupied |-> h.size,
            upper_bound |-> Upper(n), flags |-> st.newFlags,
            keys |-> Shrink(st.keys), vals |-> Shrink(st.vals)]

(* kh_resize without the memory for new flags, new_keys or, at last, for   *)
(* new_vals, when the keys have already moved: it returns -1.              *)
ResizeFails(h, asked, keysMoved) ==
  /\ ~TooSmall(h, asked)
  /\ keysMoved => h.n_buckets < NewSize(asked)
FailedResizeFlagless(h, asked, keysMoved) ==                   \* mutant
  IF keysMoved THEN [h EXCEPT !.keys = Realloc(@, NewSize(asked)),
                              !.flags = AllEmpty(h.n_buckets)] ELSE h
FailedResize(h, asked, keysMoved) ==
  IF keysMoved THEN [h EXCEPT !.keys = Realloc(@, NewSize(asked))] ELSE h

-----------------------------------------------------------------------------
(* Whether kh_put resizes, and to what: the same size to be rid of deleted *)
(* buckets, or the next.                                                   *)
NeedsResize(h) == h.n_occupied >= h.upper_bound
PutSize(h) == IF h.n_buckets > 2 * h.size THEN h.n_buckets - 1 ELSE h.n_buckets + 1
Ready(h) == IF NeedsResize(h) THEN Resize(h, PutSize(h)) ELSE h

(* The bucket kh_put returns: the last deleted one on the way to an empty  *)
(* one or to where it started, or else where the probe ends.               *)
PutBucket(h, key) ==
  LET s       == LastStep(h, key)
      at(r)   == Probe(key, r, h.n_buckets)
      deleted == {r \in 0..(s - 1) : h.flags[at(r)] = "deleted"}
      back    == s > 0 /\ at(s) = at(0)
  IN  IF deleted # {} /\ (back \/ h.flags[at(s)] = "empty")
        THEN at(Max(deleted)) ELSE at(s)

(* kh_put, past its resize, and the value that its caller then assigns. *)
OccupiedAlways(flag) == 1                                      \* mutant
Occupied(flag) == IF flag = "empty" THEN 1 ELSE 0
PutKey(h, key, val) ==
  LET x == PutBucket(h, key)
  IN  IF h.flags[x] = "live" THEN [h EXCEPT !.vals[x] = val]
      ELSE [h EXCEPT !.keys[x] = key, !.vals[x] = val, !.flags[x] = "live",
                     !.size = @ + 1, !.n_occupied = @ + Occupied(h.flags[x])]

(* kh_del *)
Del(h, x) ==
  IF x # h.n_buckets /\ h.flags[x] = "live"
    THEN [h EXCEPT !.flags[x] = "deleted", !.size = @ - 1] ELSE h
=============================================================================
