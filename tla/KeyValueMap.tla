---------------------------- MODULE KeyValueMap ----------------------------
(***************************************************************************)
(* What a hash table promises: a partial function from keys to values.     *)
(***************************************************************************)
CONSTANTS Keys, Values, Absent

VARIABLE map

Init == map = [k \in Keys |-> Absent]

Insert(k, v) == map' = [map EXCEPT ![k] = v]
Erase(k)     == map' = [map EXCEPT ![k] = Absent]

Next == \E k \in Keys : Erase(k) \/ \E v \in Values : Insert(k, v)

Spec == Init /\ [][Next]_map
=============================================================================
