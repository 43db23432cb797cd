----------------------------- MODULE MCLiveShadows -----------------------------
(***************************************************************************)
(* A row of cells, the last past the city's edge, over which the piece is  *)
(* drawn too.  Shadows fall to the right with one camera and to the left   *)
(* with the other.  The window shows three cells and may scroll; SC4       *)
(* repaints any stretch of them.  The ground under the prop may be raised  *)
(* and levelled.                                                           *)
(***************************************************************************)
EXTENDS LiveShadows, TLC

CONSTANTS east, west, prop, piece

MCBox == (prop :> {1}) @@ (piece :> {2, 3})

MCShadow ==
  (east :> (prop :> {1, 2} @@ piece :> {2, 3})) @@
  (west :> (prop :> {0, 1} @@ piece :> {1, 2, 3}))

MCGrounds == {[c \in 0 .. 3 |-> IF c \in raised THEN 1 ELSE 0] : raised \in {{}, {1}}}

MCViews == {0 .. 2, 1 .. 3}

MCRects == {i .. j : i \in 0 .. 3, j \in 0 .. 3} \ {{}}
================================================================================
