------------------------------- MODULE Shift -------------------------------
(***************************************************************************)
(* The shifts that circbuf.c and idxpyr.c compute their sizes with.  Two C *)
(* types are involved: a size_t of SizeBits bits, and the int of IntBits   *)
(* bits that the literal 1 has in an expression such as 1 << capacityLog2. *)
(***************************************************************************)
EXTENDS Powers

CONSTANTS
  IntBits,   \* width of int (32 on the x86-64 build of the Makefile)
  SizeBits   \* width of size_t (64)

ASSUME WidthAssumption ==
  /\ IntBits \in Nat \ {0, 1}
  /\ SizeBits \in Nat
  /\ IntBits <= SizeBits

(***************************************************************************)
(* 1 << k computed in int and converted to size_t where it meets one.  The *)
(* language leaves it undefined from k = IntBits - 1 on; the build's shift *)
(* instruction takes the count modulo the width, and a result with the     *)
(* sign bit set is sign-extended.                                          *)
(***************************************************************************)
IntShl1(k) ==
  LET bits == Shl1[k % IntBits]
  IN  IF k % IntBits = IntBits - 1 THEN Shl1[SizeBits] - bits ELSE bits
=============================================================================
