---------------------------- MODULE ClusterQueue ----------------------------
(***************************************************************************)
(* What the cluster functions of mempoolEbr.c promise: clusters of memory  *)
(* in the order they were filled, the last one being filled, and a few     *)
(* spare ones that are reused before malloc is asked for more.  Clusters   *)
(* implements this specification.                                          *)
(***************************************************************************)
EXTENDS Integers, Sequences, FiniteSets

CONSTANTS Cluster, Sizes, MaxSpare

VARIABLES
  queue,     \* the clusters in use, oldest first
  spare,     \* clusters kept for reuse
  maxSpare,  \* how many of them
  filled,    \* elements taken from the last cluster
  size,      \* elements per cluster
  heap,      \* the clusters malloc has handed out
  live

vars == <<queue, spare, maxSpare, filled, size, heap, live>>

Init ==
  /\ queue = <<>> /\ spare = {} /\ maxSpare = 0 /\ filled = 0 /\ size = 0
  /\ heap = {} /\ live = FALSE

Make(n, m) ==
  /\ ~live /\ live' = TRUE
  /\ \E c \in Cluster : queue' = <<c>> /\ heap' = {c}
  /\ spare' = {} /\ maxSpare' = m
  /\ filled' = 0 /\ size' = n

Take ==
  /\ live /\ filled < size
  /\ filled' = filled + 1
  /\ UNCHANGED <<queue, spare, maxSpare, size, heap, live>>

(* The last cluster is full: a spare one is next, or one from malloc. *)
TakeFromNext ==
  /\ live /\ filled = size
  /\ \E c \in IF spare = {} THEN Cluster \ heap ELSE spare :
       queue' = Append(queue, c) /\ spare' = spare \ {c} /\ heap' = heap \cup {c}
  /\ filled' = 1
  /\ UNCHANGED <<maxSpare, size, live>>

(* The oldest cluster becomes a spare one, or goes back to the heap; this may *)
(* be the cluster being filled, and then none is until filled comes to size.  *)
Remove ==
  /\ live /\ queue # <<>>
  /\ queue' = Tail(queue)
  /\ IF Cardinality(spare) < maxSpare
       THEN spare' = spare \cup {Head(queue)} /\ heap' = heap
       ELSE spare' = spare /\ heap' = heap \ {Head(queue)}
  /\ UNCHANGED <<maxSpare, filled, size, live>>

Destroy ==
  /\ live /\ live' = FALSE
  /\ queue' = <<>> /\ spare' = {} /\ maxSpare' = 0 /\ filled' = 0 /\ size' = 0
  /\ heap' = {}

Next ==
  \/ \E n \in Sizes, m \in 0..MaxSpare : Make(n, m)
  \/ Take
  \/ TakeFromNext
  \/ Remove
  \/ Destroy

Spec == Init /\ [][Next]_vars
=============================================================================
