------------------------------ MODULE IndexSet ------------------------------
(***************************************************************************)
(* What idxpyr.h promises: a set of indices out of a range that can be     *)
(* doubled, with its least member at hand.  Idxpyr implements this         *)
(* specification.                                                          *)
(***************************************************************************)
EXTENDS Integers

CONSTANTS
  Sizes,  \* how many indices there can be
  Index   \* the indices a caller sets

VARIABLES
  set,    \* the indices whose state is true
  size,   \* how many indices there are; 0 while there is no pyramid
  init,   \* the state an index has when it comes into existence
  live    \* a pyramid exists

vars == <<set, size, init, live>>

Init ==
  /\ set = {}
  /\ size = 0
  /\ init = FALSE
  /\ live = FALSE

Fresh(from, to, state) == IF state THEN from..(to - 1) ELSE {}

Make(n, state) ==
  /\ ~live
  /\ live' = TRUE
  /\ size' = n
  /\ init' = state
  /\ set' = Fresh(0, n, state)

Set(index, state) ==
  /\ live
  /\ index \in 0..(size - 1)
  /\ set' = IF state THEN set \cup {index} ELSE set \ {index}
  /\ UNCHANGED <<size, init, live>>

SetAll(state) ==
  /\ live
  /\ set' = Fresh(0, size, state)
  /\ UNCHANGED <<size, init, live>>

PopFirst ==
  /\ live
  /\ \E first \in set : /\ \A other \in set : first <= other
                        /\ set' = set \ {first}
  /\ UNCHANGED <<size, init, live>>

(* The new indices start out as make's did, whatever setAll did since. *)
IncreaseSize ==
  /\ live
  /\ size' = 2 * size
  /\ set' = set \cup Fresh(size, 2 * size, init)
  /\ UNCHANGED <<init, live>>

Destroy ==
  /\ live
  /\ live' = FALSE
  /\ set' = {}
  /\ size' = 0
  /\ init' = FALSE

Next ==
  \/ \E n \in Sizes, state \in BOOLEAN : Make(n, state)
  \/ \E index \in Index, state \in BOOLEAN : Set(index, state)
  \/ \E state \in BOOLEAN : SetAll(state)
  \/ PopFirst
  \/ IncreaseSize
  \/ Destroy

Spec == Init /\ [][Next]_vars
=============================================================================
