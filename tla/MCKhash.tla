------------------------------ MODULE MCKhash ------------------------------
(***************************************************************************)
(* Khash and its loops for TLC: hashes that meet in a table of four        *)
(* buckets and in one of eight.  States that differ only in what is left   *)
(* in buckets that are not live, or in call, are seen as one: nothing      *)
(* reads either.                                                           *)
(***************************************************************************)
EXTENDS KhashForeach

MCHash == [key \in Key |-> CASE key \in {"a", "b"} -> 3 [] key = "c" -> 7
                             [] OTHER -> 0]

WithoutLeftovers ==
  <<h.n_buckets, h.size, h.n_occupied, h.upper_bound, h.flags,
    DOMAIN h.keys, [i \in With({"live"}) |-> <<h.keys[i], h.vals[i]>>], loopVars>>
=============================================================================
