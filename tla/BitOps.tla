------------------------------- MODULE BitOps -------------------------------
(***************************************************************************)
(* The bit tricks of mempoolEbr.c and idxpyr.c, on words of WordBits bits. *)
(* A word is a natural number; shifts are divisions by powers of two.      *)
(***************************************************************************)
EXTENDS Bits

CONSTANT WordLog2   \* log2 of the width: 6, a size_t; 5, a uint32_t

ASSUME WordAssumption == WordLog2 \in Nat \ {0}

WordBits == Shl1[WordLog2]
Words == 0..(Shl1[WordBits] - 1)

(* The widths a search by halving goes through: WordBits / 2 down to 1. *)
Halves == [i \in 1..WordLog2 |-> Shl1[WordLog2 - i]]

(* ~(val - 1), in a word. *)
NotDecrement(val) == (Shl1[WordBits] - 1) - ((val - 1) % Shl1[WordBits])

(* 0xFF00, 0xF0, 0xC, 0x2: the upper half of the lowest 2s bits. *)
UpperHalf(s) == Shl1[2 * s] - Shl1[s]

(* 0xFF00FF00, 0xF0F0F0F0, ...: every other run of s bits, from the second. *)
OddRuns == [s \in {Halves[i] : i \in DOMAIN Halves} |->
              FromBits([k \in 0..(WordBits - 1) |-> (k \div s) % 2], WordBits)]

(* findLastSet *)
UpperPartHighHalf(val, s) == val                               \* mutant
UpperPart(val, s) == val \div Shl1[s]
FindLastSet(val) ==
  LET search[i \in 0..WordLog2] ==
        IF i = 0 THEN [val |-> val, result |-> 0]
        ELSE LET acc == search[i - 1]
                 s   == Halves[i]
             IN  IF And(acc.val, UpperHalf(s), WordBits) = 0 THEN acc
                 ELSE [val |-> UpperPart(acc.val, s), result |-> acc.result + s]
  IN  IF val = 0 THEN -1 ELSE search[WordLog2].result

(* multipleBits *)
LeastBitNoComplement(val) == And(val, val - 1, WordBits)       \* mutant
LeastBit(val) == And(val, NotDecrement(val), WordBits)
MultipleBits(val) == LeastBit(val) # val

(* log2Envelope *)
Log2Envelope(val) ==
  IF val = 0 THEN 0
  ELSE FindLastSet(val) + (IF MultipleBits(val) THEN 1 ELSE 0)

(* countTrailingZeros of idxpyr.c *)
CountTrailingZeros(val) ==
  LET least == LeastBit(val)
      sum[i \in 0..WordLog2] ==
        IF i = 0 THEN 0
        ELSE sum[i - 1] + (IF And(least, OddRuns[Halves[i]], WordBits) = 0
                             THEN 0 ELSE Halves[i])
  IN  IF val = 0 THEN -1 ELSE sum[WordLog2]
=============================================================================
