------------------------------- MODULE Vector -------------------------------
(***************************************************************************)
(* What kvec.h promises: growable arrays.  An entry that an assignment     *)
(* past the end skipped may hold anything.  Kvec implements this.          *)
(***************************************************************************)
EXTENDS Integers, Sequences

CONSTANTS
  Name,
  Val,     \* what callers assign
  Content  \* what an element may hold that nothing was assigned to

VARIABLE array   \* the elements of each array, the first at 1

Init == array = [v \in Name |-> <<>>]

Becomes(v, s) == array' = [array EXCEPT ![v] = s]

AppendOne(v) == \E x \in Content : Becomes(v, Append(array[v], x))

RemoveLast(v) ==
  array[v] # <<>> /\ Becomes(v, SubSeq(array[v], 1, Len(array[v]) - 1))

AssignInside(v) ==
  \E i \in DOMAIN array[v], x \in Val : Becomes(v, [array[v] EXCEPT ![i] = x])

AssignPastEnd(v) ==
  LET longer == array'[v]
  IN  /\ Becomes(v, longer)
      /\ Len(array[v]) < Len(longer)
      /\ SubSeq(longer, 1, Len(array[v])) = array[v]
      /\ longer[Len(longer)] \in Val

Copy(v, w) == Becomes(v, array[w])

Destroy(v) == Becomes(v, <<>>)

Next ==
  \E v \in Name :
    \/ AppendOne(v)
    \/ RemoveLast(v)
    \/ AssignInside(v)
    \/ AssignPastEnd(v)
    \/ \E w \in Name : Copy(v, w)
    \/ Destroy(v)

Spec == Init /\ [][Next]_array
=============================================================================
