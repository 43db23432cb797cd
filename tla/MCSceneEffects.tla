----------------------------- MODULE MCSceneEffects -----------------------------
(***************************************************************************)
(* Small cities for SceneEffects: one with two captures of unlike sizes,   *)
(* of which the first may look different when drawn again; one with four   *)
(* models of three occupants (models 1 and 4 belong together); one with a  *)
(* capture and terrain of two sizes; one with effects alone.               *)
(***************************************************************************)
EXTENDS SceneEffects

SizeDef == [k \in Casters |-> k]
OccupantDef == [m \in Models |-> IF m = 4 THEN 1 ELSE m]

City(captures, reaches, sizes, effects) ==
  [captures |-> captures, reaches |-> reaches, sizes |-> sizes, effects |-> effects]

CitiesDef ==
  {City({<<1, 1>>, <<1, 2>>, <<2, 1>>}, {{}}, {}, FALSE),
   City({}, {{}, {2}, {1, 4}, {1, 2, 3}}, {}, FALSE),
   City({<<1, 1>>}, {{}}, {1, 2}, FALSE),
   City({}, {{}}, {}, TRUE)}
=============================================================================
