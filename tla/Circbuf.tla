------------------------------ MODULE Circbuf ------------------------------
(***************************************************************************)
(* One circbuf_t in the hands of a caller that keeps the header's rules:   *)
(* elements are allocated, a pointer is put only while the caller owns it, *)
(* popBack and put are called when their assertions hold.  A call whose    *)
(* assertion fails ends the program, so an assertion is a guard here.      *)
(***************************************************************************)
EXTENDS CircbufOps, Sequences

CONSTANTS
  MaxCapacityLog2   \* bound on capacityLog2, within circbuf_make's assertion

ASSUME MaxCapacityAssumption ==
  /\ MaxCapacityLog2 \in Nat
  /\ MaxCapacityLog2 <= SizeBits - 3   \* addressablePtrCountLog2

VARIABLES
  buf,    \* the circbuf_t
  live,   \* buf.a points to allocated storage
  owner   \* who has to free each element

vars == <<buf, live, owner>>

Capacities == {Shl1[k] : k \in 0..MaxCapacityLog2}

Init ==
  /\ buf = Make(0)
  /\ live = FALSE
  /\ owner = [e \in Elem |-> "free"]

-----------------------------------------------------------------------------
MakeBuf(k) ==
  /\ ~live
  /\ buf' = Make(k)
  /\ live' = TRUE
  /\ UNCHANGED owner

PutElem(e) ==
  /\ live
  /\ owner[e] = "caller"
  /\ ~Full(buf)
  /\ buf' = Put(buf, e)
  /\ owner' = [owner EXCEPT ![e] = "buffer"]
  /\ UNCHANGED live

DynamicPutElem(e) ==
  /\ live
  /\ owner[e] = "caller"
  /\ Full(buf) => /\ buf.capacityLog2 < MaxCapacityLog2
                   /\ buf.length < IntShl1(buf.capacityLog2 + 1)
  /\ buf' = DynamicPut(buf, e)
  /\ owner' = [owner EXCEPT ![e] = "buffer"]
  /\ UNCHANGED live

PopElem ==
  /\ live
  /\ buf.length # 0
  /\ buf' = PopBack(buf)
  /\ owner' = [owner EXCEPT ![buf.a[buf.start]] = "caller"]
  /\ UNCHANGED live

ResizeBuf(k) ==
  /\ live
  /\ buf.length <= IntShl1(k)
  /\ buf' = Resize(buf, k)
  /\ UNCHANGED <<live, owner>>

IncreaseSize ==
  /\ live
  /\ buf.capacityLog2 < MaxCapacityLog2
  /\ ResizeBuf(buf.capacityLog2 + 1)

(* circbuf_destroy leaves the structure as it is, with a dangling a. *)
DestroyBuf ==
  /\ live
  /\ live' = FALSE
  /\ owner' = [e \in Elem |-> IF e \in Freed(buf) THEN "free" ELSE owner[e]]
  /\ UNCHANGED buf

-----------------------------------------------------------------------------
(* The caller's malloc and free of an element. *)
Alloc(e) ==
  /\ owner[e] = "free"
  /\ owner' = [owner EXCEPT ![e] = "caller"]
  /\ UNCHANGED <<buf, live>>

CallerFree(e) ==
  /\ owner[e] = "caller"
  /\ owner' = [owner EXCEPT ![e] = "free"]
  /\ UNCHANGED <<buf, live>>

Next ==
  \/ \E k \in 0..MaxCapacityLog2 : MakeBuf(k) \/ ResizeBuf(k)
  \/ \E e \in Elem : PutElem(e) \/ DynamicPutElem(e) \/ Alloc(e) \/ CallerFree(e)
  \/ IncreaseSize
  \/ PopElem
  \/ DestroyBuf

Spec == Init /\ [][Next]_vars

-----------------------------------------------------------------------------
(* The elements in the buffer, oldest first. *)
held == IF live THEN Contents(buf) ELSE <<>>

(* Type invariant: circbuf_t is consistent with itself in every state. *)
TypeOK ==
  /\ IsBuffer(buf)
  /\ buf.capacityLog2 <= MaxCapacityLog2
  /\ live \in BOOLEAN
  /\ owner \in [Elem -> {"free", "caller", "buffer"}]

(***************************************************************************)
(* The elements the buffer has to free are the ones in its window, each in *)
(* one slot: a wrap or a resize loses none, doubles none and brings no     *)
(* stale slot back, so destroy can neither leak nor free twice             *)
(* (circbuf_destroy, circbuf_resize).                                      *)
(***************************************************************************)
OwnedOnce ==
  /\ \A e \in Elem : owner[e] = "buffer" <=> \E i \in DOMAIN held : held[i] = e
  /\ \A i \in DOMAIN held : held[i] \in Elem
  /\ \A i, j \in DOMAIN held : held[i] = held[j] => i = j

(***************************************************************************)
(* What takeNextLocation relies on, call after call: CIRCBUF_FRONT_INDEX   *)
(* points at the element put last.  A put moves it there; popBack, at the  *)
(* other end of the window, and a resize, which moves the window, leave    *)
(* it at the element it was at.  When the window is empty, and the index   *)
(* must not get ahead of start, it is where the next put goes.             *)
(***************************************************************************)
front == buf.a[FrontIndex(buf)]

FrontIsLastPut ==
  [][live /\ live' =>
       LET given == {e \in Elem : owner[e] = "caller" /\ owner'[e] = "buffer"}
       IN  /\ buf'.length # 0 => front' \in (IF given = {} THEN {front} ELSE given)
           /\ buf.length = 0 /\ given # {} => FrontIndex(buf') = FrontIndex(buf)]_vars

(***************************************************************************)
(* circbuf_put asserts that the buffer is not full, and circbuf.h says of  *)
(* dynamicPut: "if no space is left, increases the size before putting".   *)
(* So the window never outgrows the storage.                               *)
(***************************************************************************)
StorageHoldsWindow == live => buf.length <= buf.rotationMask + 1

(***************************************************************************)
(* An element the caller took back with popBack is never freed by the      *)
(* buffer, although its pointer stays behind in a slot (circbuf_popBack    *)
(* clears nothing).                                                        *)
(***************************************************************************)
NeverFreesTaken ==
  [][\A e \in Elem : owner[e] = "caller" /\ owner'[e] = "free" => live' = live]_vars

-----------------------------------------------------------------------------
Queue == INSTANCE Fifo WITH
  queue    <- held,
  capacity <- IF live THEN Shl1[buf.capacityLog2] ELSE 0

(* Refinement: the ring buffer is a first-in first-out queue (circbuf.h). *)
FifoSpec == Queue!Spec
=============================================================================
