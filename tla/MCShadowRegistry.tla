--------------------------- MODULE MCShadowRegistry ---------------------------
(***************************************************************************)
(* Two slots, a building and a True3D prop, and city managers that may     *)
(* come back to an address.  Slots and addresses are only told apart:      *)
(* states that differ by their names count as one.                         *)
(***************************************************************************)
EXTENDS ShadowRegistry

CONSTANTS i1, i2, m1, m2

MCIds == {i1, i2}
MCOccupants == {"house", "tree"}
MCKind == [house |-> "building", tree |-> "true3D"]
MCBinding == [o \in MCOccupants \cup {"decal"} |-> IF o = "decal" THEN 1 ELSE 0]
MCManagers == {m1, m2}
MCSymmetry == Permutations(MCIds) \cup Permutations(MCManagers)
=============================================================================
