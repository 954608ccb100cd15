----------------------------- MODULE IdxpyrOps -----------------------------
(***************************************************************************)
(* idxpyr_t and the functions of idxpyr.c, as values and operators.  A     *)
(* block is the set of the positions of its bits.  Row 0 has a bit for     *)
(* every index; a bit of row i + 1 says whether a block of row i has any   *)
(* bit, up to a row of one block.                                          *)
(***************************************************************************)
EXTENDS Shift

CONSTANT BlockLog2   \* UM_BIT_COUNT_LOG2(idxpyr_block_t): 4, a uint16_t

ASSUME BlockAssumption == BlockLog2 \in Nat \ {0} /\ BlockLog2 < SizeBits

BlockBits == Shl1[BlockLog2]
AllBits == 0..(BlockBits - 1)

IDXPYR_EMPTY == Shl1[SizeBits] - 1

(* n / d + !!(n % d) *)
CeilDiv(n, d) == n \div d + (IF n % d = 0 THEN 0 ELSE 1)

IDXPYR_MAX_INDEX_COUNT_LOG2 == SizeBits - 1
IDXPYR_MAX_LAST_ROW_BLOCK_COUNT_LOG2 == IDXPYR_MAX_INDEX_COUNT_LOG2 - BlockLog2
IDXPYR_MAX_HEIGHT == CeilDiv(IDXPYR_MAX_LAST_ROW_BLOCK_COUNT_LOG2, BlockLog2)

(* getHeight: the number of rows for 2^n indices. *)
GetHeightFloor(n) == 1 + (n - BlockLog2) \div BlockLog2        \* mutant
GetHeight(n) == 1 + CeilDiv(n - BlockLog2, BlockLog2)

(* The block of row i that index belongs to, and the bit in it. *)
BlockIndex(i, index) == index \div Shl1[(i + 1) * BlockLog2]
Bit(i, index) == (index \div Shl1[i * BlockLog2]) % BlockBits

(* 2^n >> (i + 1) * BlockLog2, as the loops over the rows compute it. *)
RowLength(n, i) == Shl1[n] \div Shl1[(i + 1) * BlockLog2]

(* Where row i starts in the one allocation that holds them all. *)
RowOffsetUnshifted(n, i) ==                                    \* mutant
  LET offset[j \in Nat] == IF j = 0 THEN 0 ELSE offset[j - 1] + RowLength(n, j)
  IN  offset[i]
RowOffset(n, i) ==
  LET offset[j \in Nat] == IF j = 0 THEN 0 ELSE offset[j - 1] + RowLength(n, j - 1)
  IN  offset[i]

(* The bits of the top block that stand for a block below it. *)
TopBitCount(n) == Shl1[(n - BlockLog2) % BlockLog2]

Top(pyr) == pyr.rows[pyr.height - 1][0]

-----------------------------------------------------------------------------
(* idxpyr_setAll: memset, then the top block is cut to the bits it needs. *)
SetAll(pyr, state) ==
  LET top    == pyr.height - 1
      filled == TopBitCount(pyr.indexCountLog2) = 1
  IN  [pyr EXCEPT !.rows = [i \in DOMAIN @ |-> [j \in DOMAIN @[i] |->
         IF ~state THEN {}
         ELSE IF i = top /\ ~filled THEN 0..(TopBitCount(pyr.indexCountLog2) - 1)
         ELSE AllBits]]]

(* idxpyr_make: the rows that idxpyr_set reaches, all in one state. *)
Make(indexCountLog2, stateInit) ==
  LET n == IF indexCountLog2 < BlockLog2 THEN BlockLog2 ELSE indexCountLog2
      h == GetHeight(n)
  IN  SetAll([indexCountLog2 |-> n,
              height         |-> h,
              rows           |-> [i \in 0..(h - 1) |->
                                    [j \in 0..BlockIndex(i, Shl1[n] - 1) |-> {}]],
              offset         |-> [i \in 0..(h - 1) |-> RowOffset(n, i)],
              storeSize      |-> RowOffset(n, h - 1) + 1,
              stateInit      |-> stateInit], stateInit)

(* countTrailingZeros *)
CountTrailingZerosTop(block) ==                                \* mutant
  IF block = {} THEN -1 ELSE CHOOSE b \in block : \A c \in block : c <= b
CountTrailingZeros(block) ==
  IF block = {} THEN -1 ELSE CHOOSE b \in block : \A c \in block : b <= c

(* idxpyr_getFirst: from the top down, each row's least bit. *)
GetFirst(pyr) ==
  LET lower[i \in 0..(pyr.height - 1)] ==
        IF i = pyr.height - 1 THEN CountTrailingZeros(Top(pyr))
        ELSE lower[i + 1] * BlockBits + CountTrailingZeros(pyr.rows[i][lower[i + 1]])
  IN  IF Top(pyr) = {} THEN IDXPYR_EMPTY ELSE lower[0]

(* idxpyr_get, past its assertion that the index exists. *)
Get(pyr, index) == Bit(0, index) \in pyr.rows[0][BlockIndex(0, index)]

(***************************************************************************)
(* idxpyr_set, past its assertion.  The loop carries lowerBlockState from  *)
(* a row to the next: the new state, and from then on whether the block it *)
(* has just written is empty, that is whether state was true or any block  *)
(* so far has a bit besides the one on the way.                            *)
(***************************************************************************)
SetSameState(pyr, index, state) ==                             \* mutant
  [pyr EXCEPT !.rows = [i \in DOMAIN @ |->
     [@[i] EXCEPT ![BlockIndex(i, index)] =
        IF state THEN @ \cup {Bit(i, index)} ELSE @ \ {Bit(i, index)}]]]
Set(pyr, index, state) ==
  LET others(i) == pyr.rows[i][BlockIndex(i, index)] \ {Bit(i, index)}
      lowerBlockState(i) == state \/ \E j \in 0..(i - 1) : others(j) # {}
  IN  [pyr EXCEPT !.rows = [i \in DOMAIN @ |->
         [@[i] EXCEPT ![BlockIndex(i, index)] =
            others(i) \cup (IF lowerBlockState(i) THEN {Bit(i, index)} ELSE {})]]]

(* idxpyr_popFirst *)
PopFirstPeek(pyr) == pyr                                       \* mutant
PopFirst(pyr) ==
  LET result == GetFirst(pyr)
  IN  IF result = IDXPYR_EMPTY THEN pyr ELSE Set(pyr, result, FALSE)

BiggerPyrFilled(pyr) == Make(pyr.indexCountLog2 + 1, TRUE)     \* mutant
BiggerPyr(pyr) == Make(pyr.indexCountLog2 + 1, pyr.stateInit)

(***************************************************************************)
(* idxpyr_increaseSize copies the full rows into a pyramid of twice the    *)
(* indices and puts the old top block's bits into the new top block, or,   *)
(* when the old top block has become a row of its own, one bit for it.     *)
(***************************************************************************)
IncreaseSize(pyr) ==
  LET bigger    == BiggerPyr(pyr)
      resetMask == 0..(TopBitCount(pyr.indexCountLog2) - 1)
      resetBits == IF resetMask # {0} THEN Top(pyr)
                   ELSE IF Top(pyr) = {} THEN {} ELSE {0}
  IN  [bigger EXCEPT !.rows = [i \in DOMAIN @ |-> [j \in DOMAIN @[i] |->
         IF i = bigger.height - 1 THEN (@[i][j] \ resetMask) \cup resetBits
         ELSE IF j < RowLength(pyr.indexCountLog2, i) THEN pyr.rows[i][j]
         ELSE @[i][j]]]]
=============================================================================
