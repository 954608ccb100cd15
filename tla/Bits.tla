-------------------------------- MODULE Bits --------------------------------
(***************************************************************************)
(* The bits of a word, which is a natural number, and C's operators on     *)
(* words of a width.  The community module Bitwise defines &, | and ^^ by  *)
(* RECURSIVE operators, which nothing could be proved about.               *)
(***************************************************************************)
EXTENDS Powers

BitOf(x, k) == (x \div Shl1[k]) % 2

(* The word of that width whose bit k is bits[k]. *)
FromBits(bits, width) ==
  LET sum[k \in 0..width] ==
        IF k = 0 THEN 0 ELSE sum[k - 1] + bits[k - 1] * Shl1[k - 1]
  IN  sum[width]

(* The word whose bits are those that table gives for the bits of x and y. *)
Combine(table, x, y, width) ==
  LET combine[w \in Nat] ==
        [pair \in Nat \X Nat |->
           IF w = 0 THEN 0
           ELSE 2 * combine[w - 1][<<pair[1] \div 2, pair[2] \div 2>>]
                + table[pair[1] % 2][pair[2] % 2]]
  IN  combine[width][<<x, y>>]

Both   == [a \in {0, 1} |-> [b \in {0, 1} |-> IF a = 0 THEN 0 ELSE b]]
Either == [a \in {0, 1} |-> [b \in {0, 1} |-> IF a = 0 THEN b ELSE 1]]
Differ == [a \in {0, 1} |-> [b \in {0, 1} |-> IF a = b THEN 0 ELSE 1]]

And(x, y, width) == Combine(Both, x, y, width)
Or(x, y, width)  == Combine(Either, x, y, width)
Xor(x, y, width) == Combine(Differ, x, y, width)
=============================================================================
