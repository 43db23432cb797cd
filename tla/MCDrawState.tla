------------------------------ MODULE MCDrawState ------------------------------
(***************************************************************************)
(* Two groups of constants, and one slot of each kind that is treated in   *)
(* its own way.  A hook that changes anything changes the target, the      *)
(* viewport or a shader as well.                                           *)
(***************************************************************************)
EXTENDS DrawState, TLC

CONSTANTS header, stages, pipeline, blend, index, depth, v1, v2, opaque, blended, only

Alike == Permutations(Values) \cup Permutations({opaque, blended})

MCObjects == (blend :> {opaque, blended}) @@ [s \in {pipeline, depth, index} |-> {only}]

MCRenderStates == <<depth, blend>>

MCOverlays ==
  {o \in SUBSET {"target", "viewport", pipeline, depth, blend, index} :
     o \cap {"target", "viewport", pipeline} # {} \/ o \subseteq {index}}
================================================================================
