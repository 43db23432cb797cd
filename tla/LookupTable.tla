------------------------------ MODULE LookupTable ------------------------------
(***************************************************************************)
(* What the driver needs of a geometry cache's table, the part of          *)
(* std::unordered_map that FlatGeometryCache offers: a partial function    *)
(* from keys to values that only its own calls change.                     *)
(***************************************************************************)
CONSTANTS Keys, Values, NoValue

VARIABLE table

Init == table = [k \in Keys |-> NoValue]

Insert(k, v) == table' = [table EXCEPT ![k] = v]
Erase(k) == table' = [table EXCEPT ![k] = NoValue]
Clear == table' = [k \in Keys |-> NoValue]

Next ==
  \/ \E k \in Keys, v \in Values : Insert(k, v)
  \/ \E k \in Keys : Erase(k)
  \/ Clear

Spec == Init /\ [][Next]_table
================================================================================
