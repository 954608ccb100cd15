-------------------------------- MODULE Fifo --------------------------------
(***************************************************************************)
(* What circbuf.h promises: a first-in first-out queue of pointers whose   *)
(* capacity is fixed until it is resized or until a dynamicPut finds no    *)
(* space left.  Every element belongs to one party at a time: to nobody    *)
(* (its memory is free), to the caller, or to the buffer it was put into.  *)
(* Circbuf implements this specification.                                  *)
(***************************************************************************)
EXTENDS Integers, Sequences

CONSTANTS Elem, Capacities

VARIABLES
  queue,     \* the elements put and not yet popped, oldest first
  capacity,  \* how many elements fit; 0 while there is no buffer
  live,      \* a buffer exists
  owner      \* who has to free each element

vars == <<queue, capacity, live, owner>>

Init ==
  /\ queue = <<>>
  /\ capacity = 0
  /\ live = FALSE
  /\ owner = [e \in Elem |-> "free"]

Make(c) ==
  /\ ~live
  /\ live' = TRUE
  /\ capacity' = c
  /\ UNCHANGED <<queue, owner>>

(* put needs space; dynamicPut makes it, and only when there is none. *)
Put(e) ==
  /\ live
  /\ owner[e] = "caller"
  /\ queue' = Append(queue, e)
  /\ owner' = [owner EXCEPT ![e] = "buffer"]
  /\ IF Len(queue) < capacity
       THEN capacity' = capacity
       ELSE capacity' \in {c \in Capacities : c > Len(queue)}
  /\ UNCHANGED live

PopBack ==
  /\ live
  /\ queue # <<>>
  /\ queue' = Tail(queue)
  /\ owner' = [owner EXCEPT ![Head(queue)] = "caller"]
  /\ UNCHANGED <<capacity, live>>

Resize(c) ==
  /\ live
  /\ Len(queue) <= c
  /\ capacity' = c
  /\ UNCHANGED <<queue, live, owner>>

(* destroy frees what the buffer still holds, and nothing else. *)
Destroy ==
  /\ live
  /\ live' = FALSE
  /\ queue' = <<>>
  /\ capacity' = 0
  /\ owner' = [e \in Elem |-> IF \E i \in 1..Len(queue) : queue[i] = e
                                THEN "free" ELSE owner[e]]

Alloc(e) ==
  /\ owner[e] = "free"
  /\ owner' = [owner EXCEPT ![e] = "caller"]
  /\ UNCHANGED <<queue, capacity, live>>

CallerFree(e) ==
  /\ owner[e] = "caller"
  /\ owner' = [owner EXCEPT ![e] = "free"]
  /\ UNCHANGED <<queue, capacity, live>>

Next ==
  \/ \E c \in Capacities : Make(c) \/ Resize(c)
  \/ \E e \in Elem : Put(e) \/ Alloc(e) \/ CallerFree(e)
  \/ PopBack
  \/ Destroy

Spec == Init /\ [][Next]_vars
=============================================================================
