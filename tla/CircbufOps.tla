---------------------------- MODULE CircbufOps ----------------------------
(***************************************************************************)
(* circbuf_t and the functions of circbuf.c, as values and operators: each *)
(* operator takes the buffer a function is called on and returns the       *)
(* buffer it leaves behind.  The storage a is a function from indices to   *)
(* pointers; a pointer is a member of Elem, or NULL.                       *)
(***************************************************************************)
EXTENDS Shift

CONSTANTS
  Elem,  \* the pointers a caller puts into a buffer
  NULL   \* what calloc leaves in a slot

ASSUME NullAssumption == NULL \notin Elem

(* n & rotationMask, for a mask of the form 2^k - 1. *)
Rotate(n, mask) == n % (mask + 1)

(* circbuf_make: zeroed storage for 2^k pointers. *)
Make(k) ==
  [a            |-> [i \in 0..(Shl1[k] - 1) |-> NULL],
   start        |-> 0,
   length       |-> 0,
   capacityLog2 |-> k,
   rotationMask |-> Shl1[k] - 1]

(* The values a circbuf_t has: the mask fits the capacity, the window too. *)
IsBuffer(buf) ==
  LET size == Shl1[buf.capacityLog2]
  IN  /\ buf.capacityLog2 \in Nat
      /\ buf \in [a            : [0..(size - 1) -> Elem \cup {NULL}],
                  start        : 0..(size - 1),
                  length       : 0..size,
                  capacityLog2 : Nat,
                  rotationMask : {size - 1}]

-----------------------------------------------------------------------------
(* CIRCBUF_FULL: the shift is an int. *)
FullOffByOne(buf) == buf.length > IntShl1(buf.capacityLog2)   \* mutant
Full(buf) == buf.length >= IntShl1(buf.capacityLog2)

(* CIRCBUF_FRONT_INDEX: the newest element; start when there is none. *)
FrontIndexPastEnd(buf) ==                                      \* mutant
  Rotate(buf.start + buf.length, buf.rotationMask)
FrontIndex(buf) ==
  Rotate(buf.start + buf.length - (IF buf.length = 0 THEN 0 ELSE 1),
         buf.rotationMask)

(* What CIRCBUF_NEXT reads in length steps from start: oldest first. *)
Contents(buf) ==
  [i \in 1..buf.length |-> buf.a[Rotate(buf.start + i - 1, buf.rotationMask)]]

(* circbuf_put, past its assertion that the buffer is not full. *)
Put(buf, elem) ==
  [buf EXCEPT !.length = @ + 1,
              !.a[Rotate(buf.start + buf.length, buf.rotationMask)] = elem]

(* circbuf_popBack, past its assertion that there is an element. *)
PopBack(buf) ==
  [buf EXCEPT !.start = Rotate(@ + 1, buf.rotationMask), !.length = @ - 1]

(***************************************************************************)
(* circbuf_resize, past its assertion that the elements fit.  The window   *)
(* is copied in two pieces, from start to the end of the old storage and   *)
(* from its beginning, and the new buffer starts at 0.                     *)
(***************************************************************************)
ResizeUnwrapped(buf, k) ==                                     \* mutant
  [Make(k) EXCEPT !.length = buf.length,
                  !.a = [i \in DOMAIN @ |-> IF i < buf.length /\ i \in DOMAIN buf.a
                                              THEN buf.a[i] ELSE @[i]]]
Resize(buf, k) ==
  LET capacity  == IntShl1(buf.capacityLog2)
      isWrapped == buf.length > capacity - buf.start
      n1        == IF isWrapped THEN capacity - buf.start ELSE buf.length
      n2        == buf.length - n1
  IN  [Make(k) EXCEPT
         !.length = buf.length,
         !.a = [i \in DOMAIN @ |->
                  IF i < n1 THEN buf.a[buf.start + i]
                  ELSE IF i < n1 + n2 THEN buf.a[i - n1] ELSE @[i]]]

(* circbuf_dynamicPut. *)
DynamicPut(buf, elem) ==
  Put(IF Full(buf) THEN Resize(buf, buf.capacityLog2 + 1) ELSE buf, elem)

(* The pointers circbuf_destroy passes to free(). *)
FreedFromZero(buf) == {buf.a[i] : i \in 0..(buf.length - 1)}   \* mutant
Freed(buf) ==
  {buf.a[Rotate(buf.start + i, buf.rotationMask)] : i \in 0..(buf.length - 1)}
=============================================================================
