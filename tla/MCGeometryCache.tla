---------------------------- MODULE MCGeometryCache ----------------------------
(***************************************************************************)
(* A ring of three segments that trims to two, as the driver's trims from  *)
(* its configured count to two, with uploads larger than a segment.        *)
(***************************************************************************)
EXTENDS GeometryCache, TLC

CONSTANTS ordinary, large, largest

MCSize == (ordinary :> 7) @@ (large :> 10) @@ (largest :> 18)
================================================================================
