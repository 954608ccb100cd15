---------------------------- MODULE MCKhashSteps ----------------------------
(***************************************************************************)
(* KhashSteps for TLC, with the hashes of MCKhash.  States that differ     *)
(* only in what is left in buckets that hold no element, in kh_resize's    *)
(* variables after it has returned, or in call, are seen as one.           *)
(***************************************************************************)
EXTENDS KhashSteps

MCHash == [key \in Key |-> CASE key \in {"a", "b"} -> 3 [] key = "c" -> 7
                             [] OTHER -> 0]

Seen(t, buckets) ==
  <<t.n_buckets, t.size, t.n_occupied, t.flags, DOMAIN t.keys,
    [b \in buckets |-> <<t.keys[b], t.vals[b]>>]>>

WithoutLeftovers ==
  IF pc = "caller" THEN <<Seen(h, waiting)>>
  ELSE <<Seen(h, waiting \cup moved), pc, new_n_buckets, newFlags, j, hand, i, step,
         put, Seen(before, {b \in 0..(before.n_buckets - 1) : before.flags[b] = "live"})>>
=============================================================================
