----------------------------- MODULE KhashFlags -----------------------------
(***************************************************************************)
(* The flags of khash.h as they are stored: two bits for each bucket, in   *)
(* words of WordBuckets buckets; flags is a function from 0 to words.      *)
(***************************************************************************)
EXTENDS Bits

CONSTANT WordBuckets   \* 16

ASSUME FlagsAssumption == WordBuckets \in Nat \ {0}

FlagBits == 2 * WordBuckets
Word(i) == i \div WordBuckets
Shift(i) == 2 * (i % WordBuckets)
AllBut(bits) == (Shl1[FlagBits] - 1) - bits

(* __ac_isempty, __ac_isdel, __ac_iseither *)
Pair(flags, i) == (flags[Word(i)] \div Shl1[Shift(i)]) % 4
IsEmpty(flags, i) == Pair(flags, i) \div 2 # 0
IsDel(flags, i) == Pair(flags, i) % 2 # 0
IsEither(flags, i) == Pair(flags, i) # 0

SetIsDelOnly(flags, i) == [flags EXCEPT ![Word(i)] = Shl1[Shift(i)]]   \* mutant
SetIsDelTrue(flags, i) ==
  [flags EXCEPT ![Word(i)] = Or(@, Shl1[Shift(i)], FlagBits)]
SetIsEmptyFalse(flags, i) ==
  [flags EXCEPT ![Word(i)] = And(@, AllBut(2 * Shl1[Shift(i)]), FlagBits)]
SetIsBothFalse(flags, i) ==
  [flags EXCEPT ![Word(i)] = And(@, AllBut(3 * Shl1[Shift(i)]), FlagBits)]

(* __ac_fsize, and the memset to 0xaa of kh_clear and kh_resize *)
Fsize(m) == IF m < WordBuckets THEN 1 ELSE m \div WordBuckets
Filled(m) ==
  [w \in 0..(Fsize(m) - 1) |->
     FromBits([k \in 0..(FlagBits - 1) |-> k % 2], FlagBits)]
=============================================================================
