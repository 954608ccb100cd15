----------------------------- MODULE KeyedStore -----------------------------
(***************************************************************************)
(* What khash.h promises: a map from keys to values.  Khash implements it. *)
(* Each step is labelled with the call it is, so that a call has only its  *)
(* own effect to choose from.                                              *)
(***************************************************************************)
CONSTANTS Key, Val, MISSING

VARIABLES
  map,  \* the value of each key, or MISSING
  call  \* the last call: <<"put", key, val>>, <<"del", key>>, <<"clear">> or,
        \* for one that leaves every key its value, <<"keep">>

Empty == [k \in Key |-> MISSING]

Init == map = Empty /\ call = <<"keep">>

Put(key, val) == call' = <<"put", key, val>> /\ map' = [map EXCEPT ![key] = val]

Del(key) == call' = <<"del", key>> /\ map' = [map EXCEPT ![key] = MISSING]

Clear == call' = <<"clear">> /\ map' = Empty

Keep == call' = <<"keep">> /\ UNCHANGED map

(* To repeat a call changes nothing, so no step is lost among the stutters. *)
Next ==
  \/ \E key \in Key, val \in Val : Put(key, val)
  \/ \E key \in Key : Del(key)
  \/ Clear
  \/ Keep

Spec == Init /\ [][Next]_<<map, call>>
=============================================================================
