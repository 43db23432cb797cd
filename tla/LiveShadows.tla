------------------------------ MODULE LiveShadows ------------------------------
(***************************************************************************)
(* Live shadows in the picture SC4 keeps of the city.  SC4 repaints only   *)
(* the rectangles it has changed, and shadows cross their edges: what      *)
(* casts into a rectangle may lie outside it, and what was drawn inside it *)
(* may cast out of it.  The driver follows the casters from pass to pass   *)
(* (TrackLiveShadowWorldCasters), has SC4 repaint where a shadow came or   *)
(* went, and asks for a whole new picture when it cannot tell.  A mistake  *)
(* leaves a shadow without its caster, or a caster without its shadow,     *)
(* until something else happens to be redrawn there.                       *)
(***************************************************************************)
EXTENDS Naturals

CONSTANTS
  Cells,        \* the city as it appears on the screen, in pieces
  Beyond,       \* cells past the city's edge, which show no shadows
  Casters,      \* what is captured per draw: True3D props, network pieces
  Cameras,      \* zoom, rotation, yaw and pitch, which also place the sun
  Box,          \* per caster, where it is drawn
  Shadow,       \* per camera and caster, where it is drawn or shades
  Views,        \* what the window may show
  Rects,        \* what SC4 may repaint in one pass
  Grounds,      \* the height fields the terrain may have, cell by cell
  None,
  Modes,        \* whether ShadowRegistry is installed
  MaxChanges    \* bound: changes to the city and the view

ASSUME CellsAssumption ==
  /\ Beyond \subseteq Cells
  /\ Box \in [Casters -> SUBSET Cells]
  /\ Shadow \in [Cameras -> [Casters -> SUBSET Cells]]
  /\ \A k \in Casters, c \in Cameras : Box[k] \subseteq Shadow[c][k]
  /\ Views \subseteq SUBSET Cells /\ Rects \subseteq SUBSET Cells
ASSUME GroundsAssumption == \A g \in Grounds : DOMAIN g = Cells
ASSUME NoneAssumption == None \notin Grounds \X Cameras
ASSUME ModesAssumption == Modes \subseteq BOOLEAN
ASSUME MaxChangesAssumption == MaxChanges \in Nat

VARIABLES
  alive,     \* the casters SC4 has
  camera,
  ground,
  view,      \* the cells in the window
  dirty,     \* cells of the view that SC4 will repaint
  store,     \* cSC43DRender::mbBackingStoreValid
  drawing,   \* inside cSC43DRender::Draw
  paused,    \* gPaused
  registry,  \* ShadowRegistry::Enabled
  lastCamera,
  lastPaused,
  worldCasters,       \* liveShadowWorldCasters: casters and the shadows' boxes
  worldCastersValid,
  cleanRedrawPending, \* liveShadowCleanRedrawPending
  everCaptured,
  terrain,   \* liveShadowTerrainGeneration, as what the map was built from
  picture,   \* per cell, what has been composited since it was repainted
  missed,    \* history: cells of the view that a pass painted without a view or a
             \* set to follow, or whose redisplay the game did not do, and that no
             \* later pass has made up for
  changes

city == <<alive, camera, ground>>
hook == <<lastCamera, lastPaused>>
tracking == <<worldCasters, worldCastersValid, everCaptured, terrain>>
vars == <<city, view, dirty, store, drawing, paused, registry, hook, tracking,
          cleanRedrawPending, picture, missed, changes>>

Bare == [casters |-> {}, terrain |-> None]
Maps == (Grounds \X Cameras) \cup {None}

TypeOK ==
  /\ alive \subseteq Casters /\ camera \in Cameras /\ ground \in Grounds
  /\ view \in Views /\ dirty \subseteq view
  /\ store \in BOOLEAN /\ drawing \in BOOLEAN /\ paused \in BOOLEAN /\ registry \in BOOLEAN
  /\ lastPaused \in BOOLEAN /\ worldCastersValid \in BOOLEAN
  /\ cleanRedrawPending \in BOOLEAN /\ everCaptured \in BOOLEAN
  /\ lastCamera \in Cameras
  /\ \E S \in SUBSET Casters : worldCasters \in [S -> SUBSET Cells]
  /\ terrain \in Maps
  /\ picture \in [Cells -> [casters : SUBSET Casters, terrain : Maps]]
  /\ missed \subseteq view
  /\ changes \in Nat

Init ==
  /\ alive \in SUBSET Casters
  /\ camera \in Cameras /\ lastCamera = camera
  /\ ground \in Grounds
  /\ view \in Views /\ dirty = {}
  /\ store = FALSE /\ drawing = FALSE
  /\ paused = FALSE /\ lastPaused = FALSE
  /\ registry \in Modes
  /\ worldCasters = [k \in {} |-> {}] /\ worldCastersValid = FALSE
  /\ cleanRedrawPending = FALSE /\ everCaptured = FALSE
  /\ terrain = None
  /\ picture = [c \in Cells |-> Bare]
  /\ missed = {}
  /\ changes = 0

-----------------------------------------------------------------------------
(* SC4 and the player, between two draws of the city.                      *)

Changing == ~drawing /\ changes < MaxChanges /\ changes' = changes + 1

\* A prop or piece comes or goes; SC4 repaints where it is, not where it shades.
Build(k) ==
  /\ Changing
  /\ alive' = IF k \in alive THEN alive \ {k} ELSE alive \cup {k}
  /\ dirty' = dirty \cup (Box[k] \cap view)
  /\ UNCHANGED <<camera, ground, view, store, drawing, paused, registry, hook, tracking,
                 cleanRedrawPending, picture, missed>>

\* SC4 repaints at least where the terrain has changed.
Terraform(g, R) ==
  /\ Changing
  /\ ground' = g /\ g # ground
  /\ \A c \in Cells \ R : g[c] = ground[c]
  /\ dirty' = dirty \cup (R \cap view)
  /\ UNCHANGED <<alive, camera, view, store, drawing, paused, registry, hook, tracking,
                 cleanRedrawPending, picture, missed>>

TurnCamera(c) ==
  /\ Changing
  /\ camera' = c /\ c # camera
  /\ UNCHANGED <<alive, ground, view, dirty, store, drawing, paused, registry, hook, tracking,
                 cleanRedrawPending, picture, missed>>

\* The LiveShadows cheat.
TogglePause ==
  /\ Changing
  /\ paused' = ~paused
  /\ UNCHANGED <<city, view, dirty, store, drawing, registry, hook, tracking,
                 cleanRedrawPending, picture, missed>>

\* SC4 gives up its picture by itself.
DropStore ==
  /\ Changing
  /\ store' = FALSE
  /\ UNCHANGED <<city, view, dirty, drawing, paused, registry, hook, tracking,
                 cleanRedrawPending, picture, missed>>

\* The picture is lost with the device.
DestroyD3D11Context ==
  /\ Changing
  /\ store' = FALSE
  /\ worldCasters' = [k \in {} |-> {}]
  /\ worldCastersValid' = FALSE
  /\ UNCHANGED <<city, view, dirty, drawing, paused, registry, hook, everCaptured, terrain,
                 cleanRedrawPending, picture, missed>>

-----------------------------------------------------------------------------
(* cSC43DRender::Draw, through DrawHook.  Draw scrolls to view v, keeping  *)
(* what it has of it, and then repaints.                                   *)

\* The causes for which DrawHook drops the picture.
Forced(v) ==
  \/ cleanRedrawPending
  \/ v # view /\ ~registry
  \/ camera # lastCamera
  \/ paused # lastPaused

\* What SC4 has to repaint when the window shows v instead of view.
Repaints(v) == (dirty \cap v) \cup (v \ view)

DrawHook(v) ==
  /\ ~drawing /\ drawing' = TRUE
  /\ IF v = view THEN UNCHANGED changes ELSE changes < MaxChanges /\ changes' = changes + 1
  /\ store' = (store /\ ~Forced(v))
  /\ cleanRedrawPending' = FALSE
  /\ lastCamera' = camera /\ lastPaused' = paused
  /\ view' = v
  /\ dirty' = Repaints(v)
  /\ missed' = missed \cap v
  /\ UNCHANGED <<city, paused, registry, tracking, picture>>

EndDraw ==
  /\ drawing /\ store
  /\ drawing' = FALSE
  /\ UNCHANGED <<city, view, dirty, store, paused, registry, hook, tracking,
                 cleanRedrawPending, picture, missed, changes>>

-----------------------------------------------------------------------------
(* DrawLivePropShadows, at the end of each static pass.                    *)

\* liveShadowDraws: the casters SC4 drew when it repainted R.
Captured(R) == {k \in alive : Box[k] \cap R # {}}

\* TerrainShadows::Update reads the height field again for a new sun, and else
\* only when the last time was two seconds ago.
Updates == {<<ground, camera>>} \cup {m \in {terrain} \ {None} : m[2] = camera}

Composited(R, casters, map) ==
  [c \in Cells |->
     IF c \in R
       THEN [casters |-> {k \in casters : c \in Shadow[camera][k]}, terrain |-> map]
       ELSE picture[c]]

Captures(R) == everCaptured' = (everCaptured \/ (~registry /\ Captured(R) # {}))

\* Without a shadow record the view is the one of the pass's first terrain draw, if
\* that draw's first vertex lies on the height field: not past the city's edge, nor
\* where the terrain has changed since the height field was read.
ViewMayBeUnknown(R, map) == R \cap Beyond # {} \/ \E c \in R : map[1][c] # ground[c]

\* SC4 repaints the whole view.  With a view, the casters drawn are the set.
FullPass(haveView, map) ==
  /\ drawing /\ ~store /\ store' = TRUE
  /\ haveView \/ ViewMayBeUnknown(view, map)
  /\ dirty' = {}
  /\ IF paused
       THEN picture' = Composited(view, {}, None) /\ missed' = {} /\ UNCHANGED tracking
       ELSE /\ picture' = Composited(view, Captured(view), IF haveView THEN map ELSE None)
            /\ missed' = IF haveView THEN {} ELSE view
            /\ terrain' = map
            /\ worldCastersValid' = (registry /\ haveView)
            /\ worldCasters' = IF registry /\ haveView
                                 THEN [k \in Captured(view) |-> Shadow[camera][k]]
                                 ELSE worldCasters
            /\ Captures(view)
  /\ UNCHANGED <<city, view, drawing, paused, registry, hook, cleanRedrawPending, changes>>

Known == DOMAIN worldCasters

Added(R) == Captured(R) \ Known

\* Should have been drawn again, and was not.
Gone(R) == {k \in Known \ Captured(R) : Box[k] \cap R # {}}

\* Mutant of Moved: a caster that goes leaves no redraw behind.
MovedIn(R) == {a \in Added(R) : ~(Shadow[camera][a] \subseteq R)}

\* Mutant of Moved: every caster of the pass is redisplayed.
MovedAll(R) == Captured(R) \cup Gone(R)

\* Whose shadows SC4 is to repaint: those that went, and new ones past the rectangle.
Moved(R) == Gone(R) \cup {a \in Added(R) : ~(Shadow[camera][a] \subseteq R)}

\* RedisplayWorldRect, for the casters of S: where their shadows are or were.
Redisplayed(S) ==
  UNION {IF k \in Known THEN worldCasters[k] ELSE Shadow[camera][k] : k \in S}

\* TrackLiveShadowWorldCasters for a partial pass.
Tracked(R) ==
  [k \in (Known \cup Added(R)) \ Gone(R) |->
     IF k \in Known THEN worldCasters[k] ELSE Shadow[camera][k]]

RepaintsSome(R) == drawing /\ store /\ R \subseteq view /\ R \cap dirty # {}

\* Mutant of TerrainChanged: the pass that sees a new map takes it for its own.
TerrainChangedSilently(map) == FALSE

TerrainChanged(map) == map # terrain

\* SC4 repaints a rectangle that the set of casters can follow.  S: the casters that
\* RedisplayWorldRect succeeds for; it needs the city's terrain, and what the game
\* answers is not looked at.
TrackedPass(R, map, S) ==
  /\ RepaintsSome(R) /\ ~paused
  /\ registry /\ worldCastersValid
  /\ worldCasters' = Tracked(R)
  /\ dirty' = (dirty \ R) \cup (Redisplayed(S) \cap view)
  /\ missed' = (missed \ R) \cup ((Redisplayed(Moved(R) \ S) \ R) \cap view)
  /\ picture' =
       Composited(R, {k \in DOMAIN worldCasters' : worldCasters'[k] \cap R # {}}, map)
  /\ cleanRedrawPending' = (cleanRedrawPending \/ TerrainChanged(map))
  /\ terrain' = map
  /\ UNCHANGED <<city, view, store, drawing, paused, registry, hook, worldCastersValid,
                 everCaptured, changes>>

\* SC4 repaints a rectangle that it cannot.
UntrackedPass(R, haveView, map) ==
  LET empty == ~haveView /\ Captured(R) = {}
      castersStale == IF registry THEN ~empty /\ (Captured(R) # {} \/ Known # {})
                                  ELSE everCaptured
  IN /\ RepaintsSome(R) /\ ~paused
     /\ haveView \/ ViewMayBeUnknown(R, map)
     /\ registry /\ worldCastersValid => ~haveView
     /\ dirty' = dirty \ R
     /\ picture' = Composited(R, Captured(R), IF haveView THEN map ELSE None)
     /\ missed' = IF registry \/ ~haveView THEN missed \cup R ELSE missed \ R
     /\ cleanRedrawPending' = (cleanRedrawPending \/ castersStale \/ TerrainChanged(map))
     /\ terrain' = map
     /\ worldCastersValid' = (worldCastersValid /\ empty)
     /\ Captures(R)
     /\ UNCHANGED <<city, view, store, drawing, paused, registry, hook, worldCasters, changes>>

\* SC4 repaints a rectangle with its own shadows.
PausedPass(R) ==
  /\ RepaintsSome(R) /\ paused
  /\ dirty' = dirty \ R
  /\ picture' = Composited(R, {}, None)
  /\ UNCHANGED <<city, view, store, drawing, paused, registry, hook, tracking,
                 cleanRedrawPending, missed, changes>>

PartialPass ==
  \E R \in Rects :
    \/ \E map \in Updates, S \in SUBSET Moved(R) : TrackedPass(R, map, S)
    \/ \E map \in Updates, haveView \in BOOLEAN : UntrackedPass(R, haveView, map)
    \/ PausedPass(R)

Draw ==
  \/ DrawHook(view)
  \/ \E haveView \in BOOLEAN, map \in Updates : FullPass(haveView, map)
  \/ PartialPass
  \/ EndDraw

Next ==
  \/ \E k \in Casters : Build(k)
  \/ \E g \in Grounds, R \in Rects : Terraform(g, R)
  \/ \E c \in Cameras : TurnCamera(c)
  \/ TogglePause
  \/ DropStore
  \/ DestroyD3D11Context
  \/ \E v \in Views \ {view} : DrawHook(v)
  \/ Draw

Spec == Init /\ [][Next]_vars

\* SC4 draws every frame, and does not put off for ever what it has to repaint.
Fairness ==
  /\ WF_vars(DrawHook(view))
  /\ WF_vars(\E haveView \in BOOLEAN, map \in Updates : FullPass(haveView, map))
  /\ WF_vars(EndDraw)
  /\ SF_vars(PartialPass)

FairSpec == Spec /\ Fairness

-----------------------------------------------------------------------------
\* Nothing is left that would have SC4 repaint anything.
Settled ==
  /\ store /\ dirty = {} /\ ~cleanRedrawPending
  /\ camera = lastCamera /\ paused = lastPaused

InCity == view \ Beyond

\* Once nothing is left to repaint, every caster in view has all its shadow in
\* the picture, and what is gone has none, however the two came and went.  Only
\* where a pass could not follow its casters, or the game did not do a redisplay,
\* may it be wrong, and about casters that are nowhere else.
SettledPictureIsRight ==
  Settled => \A c \in InCity \ missed, k \in Casters :
    (Box[k] \cap InCity) \ missed # {} =>
      (k \in picture[c].casters <=> ~paused /\ k \in alive /\ c \in Shadow[camera][k])

\* Once nothing is left to repaint, all of the picture that passes with a view have
\* painted is shaded by one and the same map of the terrain's shadows.
OneTerrain ==
  Settled => \A c, d \in InCity \ missed : picture[c].terrain = picture[d].terrain

\* "It drew no caster either, so the casters we already track are still right", of a
\* pass whose view is unknown: once nothing is left to repaint, a set that counts as
\* valid has the casters that stand in the window, and no others.
TrackedCastersAreRight ==
  Settled /\ registry /\ worldCastersValid /\ ~paused =>
    \A k \in Casters : Box[k] \cap InCity # {} => (k \in Known <=> k \in alive)

\* Redraws that ask for redraws come to an end.
PictureSettles == <>[]Settled
================================================================================
