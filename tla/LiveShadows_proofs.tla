-------------------------- MODULE LiveShadows_proofs --------------------------
(***************************************************************************)
(* While the registry is installed, the picture of the city is right       *)
(* whenever nothing is left to repaint, but for what a pass without a view *)
(* or a redisplay that was not done has missed: for any casters, shadows,  *)
(* height fields, cameras and windows, and any order of what SC4 and the   *)
(* player do.                                                              *)
(***************************************************************************)
EXTENDS LiveShadows, TLAPS

\* A picture that no draw is yet to give up.
Kept == store /\ ~cleanRedrawPending

\* Cells whose repainting is still to come, or has missed something.
Behind == dirty \cup missed

\* The set of casters is the city's, but for those that are behind.
CastersFollowed ==
  /\ \A k \in Known : worldCasters[k] = Shadow[lastCamera][k]
  /\ \A k \in Casters : (k \in alive <=> k \in Known) \/ Box[k] \cap InCity \subseteq Behind

\* Each cell that is not behind shows the set's shadows.
ShowsCasters ==
  \A c \in InCity \ Behind :
    /\ picture[c].terrain = terrain
    /\ \A k \in Casters :
         k \in picture[c].casters <=> k \in Known /\ c \in Shadow[lastCamera][k]

ShowsNothing == \A c \in InCity \ dirty : picture[c] = Bare

\* A set that no pass can follow has left the whole window behind.
Faithful ==
  /\ drawing => camera = lastCamera /\ paused = lastPaused
  /\ registry
  /\ Kept /\ ~lastPaused /\ worldCastersValid => CastersFollowed /\ ShowsCasters
  /\ Kept /\ ~lastPaused /\ ~worldCastersValid => InCity \subseteq Behind
  /\ Kept /\ lastPaused => ShowsNothing

Inv == TypeOK /\ Faithful

-----------------------------------------------------------------------------
\* What a composite leaves in the picture is well typed.
LEMMA CompositedType ==
  ASSUME TypeOK, NEW R, NEW K \in SUBSET Casters, NEW map \in Maps
  PROVE  Composited(R, K, map) \in [Cells -> [casters : SUBSET Casters, terrain : Maps]]
<1>1. ASSUME NEW c \in Cells, c \in R
      PROVE  [casters |-> {k \in K : c \in Shadow[camera][k]}, terrain |-> map]
               \in [casters : SUBSET Casters, terrain : Maps]
  OBVIOUS
<1>2. ASSUME NEW c \in Cells
      PROVE  picture[c] \in [casters : SUBSET Casters, terrain : Maps]
  BY DEF TypeOK
<1> QED  BY <1>1, <1>2 DEF Composited

\* Every map of the terrain's shadows a pass may see is one.
LEMMA UpdatesAreMaps ==
  ASSUME TypeOK PROVE Updates \subseteq Maps
BY DEF TypeOK, Updates, Maps

\* A tracked pass leaves a set of casters, each with the box of its shadow.
LEMMA TrackedType ==
  ASSUME TypeOK, NEW R
  PROVE  /\ (Known \cup Added(R)) \ Gone(R) \subseteq Casters
         /\ Tracked(R) \in [(Known \cup Added(R)) \ Gone(R) -> SUBSET Cells]
<1>1. PICK S \in SUBSET Casters : worldCasters \in [S -> SUBSET Cells]
  BY DEF TypeOK
<1>2. Known = S
  BY <1>1 DEF Known
<1>3. Added(R) \subseteq Casters
  BY DEF Added, Captured, TypeOK
<1>4. ASSUME NEW k \in (Known \cup Added(R)) \ Gone(R)
      PROVE  (IF k \in Known THEN worldCasters[k] ELSE Shadow[camera][k]) \in SUBSET Cells
  <2>1. CASE k \in Known
    BY <1>1, <1>2, <2>1
  <2>2. CASE k \notin Known
    <3>1. k \in Casters /\ camera \in Cameras
      BY <1>3, <2>2 DEF TypeOK
    <3> QED  BY <2>2, <3>1, CellsAssumption
  <2> QED  BY <2>1, <2>2
<1> QED  BY <1>2, <1>3, <1>4 DEF Tracked

-----------------------------------------------------------------------------
\* The initial states have their type.
LEMMA TypeCorrectInit == Init => TypeOK
<1> SUFFICES ASSUME Init PROVE TypeOK
  OBVIOUS
<1>1. \E S \in SUBSET Casters : worldCasters \in [S -> SUBSET Cells]
  <2>1. worldCasters \in [{} -> SUBSET Cells]
    BY DEF Init
  <2> QED  BY <2>1
<1>2. picture \in [Cells -> [casters : SUBSET Casters, terrain : Maps]]
  BY DEF Init, Bare, Maps
<1> QED  BY <1>1, <1>2, ModesAssumption, CellsAssumption DEF Init, TypeOK, Maps

\* Every step keeps it: no pass puts a caster of another city in the set, and
\* none has SC4 repaint past the window.
LEMMA TypeCorrectStep == TypeOK /\ [Next]_vars => TypeOK'
<1> SUFFICES ASSUME TypeOK, [Next]_vars PROVE TypeOK'
  OBVIOUS
<1> USE DEF city, hook, tracking
<1>1. ASSUME NEW k \in Casters, Build(k) PROVE TypeOK'
  BY <1>1, MaxChangesAssumption DEF Build, Changing, TypeOK, Maps
<1>2. ASSUME NEW g \in Grounds, NEW R \in Rects, Terraform(g, R) PROVE TypeOK'
  BY <1>2, MaxChangesAssumption DEF Terraform, Changing, TypeOK, Maps
<1>3. ASSUME NEW c \in Cameras, TurnCamera(c) PROVE TypeOK'
  BY <1>3, MaxChangesAssumption DEF TurnCamera, Changing, TypeOK, Maps
<1>4. CASE TogglePause
  BY <1>4, MaxChangesAssumption DEF TogglePause, Changing, TypeOK, Maps
<1>5. CASE DropStore
  <2>1. store' \in BOOLEAN
    BY <1>5 DEF DropStore
  <2> QED  BY <1>5, <2>1, MaxChangesAssumption DEF DropStore, Changing, TypeOK, Maps
<1>6. CASE DestroyD3D11Context
  <2>1. \E S \in SUBSET Casters : worldCasters' \in [S -> SUBSET Cells]
    <3>1. worldCasters' \in [{} -> SUBSET Cells]
      BY <1>6 DEF DestroyD3D11Context
    <3> QED  BY <3>1
  <2>2. store' \in BOOLEAN /\ worldCastersValid' \in BOOLEAN
    BY <1>6 DEF DestroyD3D11Context
  <2>3. changes' \in Nat
    BY <1>6, MaxChangesAssumption DEF DestroyD3D11Context, Changing, TypeOK
  <2>4. UNCHANGED <<city, view, dirty, drawing, paused, registry, hook, everCaptured,
                    terrain, cleanRedrawPending, picture, missed>>
    BY <1>6 DEF DestroyD3D11Context
  <2> QED  BY <2>1, <2>2, <2>3, <2>4 DEF TypeOK, Maps
<1>7. ASSUME NEW v \in Views, DrawHook(v) PROVE TypeOK'
  <2>1. /\ store' \in BOOLEAN /\ drawing' \in BOOLEAN
        /\ cleanRedrawPending' \in BOOLEAN /\ lastPaused' \in BOOLEAN
    <3>1. store' = (store /\ ~Forced(v))
      BY <1>7, Zenon DEF DrawHook
    <3>2. (store /\ ~Forced(v)) \in BOOLEAN
      BY Zenon
    <3>3. drawing' = TRUE /\ cleanRedrawPending' = FALSE /\ lastPaused' = paused
      BY <1>7 DEF DrawHook
    <3> QED  BY <3>1, <3>2, <3>3 DEF TypeOK
  <2>2. dirty' \subseteq view' /\ missed' \subseteq view' /\ changes' \in Nat
    BY <1>7, MaxChangesAssumption DEF DrawHook, Repaints, TypeOK
  <2> QED  BY <1>7, <2>1, <2>2 DEF DrawHook, TypeOK, Maps
<1>8. CASE EndDraw
  BY <1>8 DEF EndDraw, TypeOK, Maps
<1>9. ASSUME NEW haveView \in BOOLEAN, NEW map \in Updates, FullPass(haveView, map)
      PROVE TypeOK'
  <2>1. map \in Maps /\ None \in Maps /\ Captured(view) \subseteq Casters
    BY UpdatesAreMaps DEF Maps, Captured, TypeOK
  <2>2. picture' \in [Cells -> [casters : SUBSET Casters, terrain : Maps]]
    <3>1. CASE paused
      <4>1. Composited(view, {}, None) \in [Cells -> [casters : SUBSET Casters, terrain : Maps]]
        BY <2>1, CompositedType
      <4> QED  BY <1>9, <3>1, <4>1 DEF FullPass
    <3>2. CASE ~paused
      <4> DEFINE shown == IF haveView THEN map ELSE None
      <4>1. Composited(view, Captured(view), shown)
              \in [Cells -> [casters : SUBSET Casters, terrain : Maps]]
        BY <2>1, CompositedType
      <4> QED  BY <1>9, <3>2, <4>1 DEF FullPass
    <3> QED  BY <3>1, <3>2
  <2>3. \E S \in SUBSET Casters : worldCasters' \in [S -> SUBSET Cells]
    <3>1. CASE ~paused /\ registry /\ haveView
      <4>1. worldCasters' = [k \in Captured(view) |-> Shadow[camera][k]]
        BY <1>9, <3>1 DEF FullPass
      <4>2. \A k \in Captured(view) : Shadow[camera][k] \in SUBSET Cells
        BY <2>1, CellsAssumption DEF TypeOK
      <4>3. worldCasters' \in [Captured(view) -> SUBSET Cells]
        BY <4>1, <4>2
      <4> QED  BY <2>1, <4>3
    <3>2. CASE ~(~paused /\ registry /\ haveView)
      BY <1>9, <3>2 DEF FullPass, TypeOK
    <3> QED  BY <3>1, <3>2
  <2>4. everCaptured' \in BOOLEAN /\ worldCastersValid' \in BOOLEAN /\ terrain' \in Maps
    BY <1>9, <2>1, ModesAssumption DEF FullPass, Captures, TypeOK
  <2>5. missed' \subseteq view'
    BY <1>9 DEF FullPass
  <2> QED  BY <1>9, <2>2, <2>3, <2>4, <2>5 DEF FullPass, TypeOK, Maps
<1>10. ASSUME NEW R \in Rects, NEW map \in Updates, NEW S \in SUBSET Moved(R),
              TrackedPass(R, map, S)
       PROVE TypeOK'
  <2>1. /\ (Known \cup Added(R)) \ Gone(R) \subseteq Casters
        /\ worldCasters' \in [(Known \cup Added(R)) \ Gone(R) -> SUBSET Cells]
    BY <1>10, TrackedType DEF TrackedPass
  <2>2. {k \in DOMAIN worldCasters' : worldCasters'[k] \cap R # {}} \in SUBSET Casters
    BY <2>1
  <2>3. map \in Maps
    BY UpdatesAreMaps
  <2>4. picture' \in [Cells -> [casters : SUBSET Casters, terrain : Maps]]
    BY <1>10, <2>2, <2>3, CompositedType DEF TrackedPass
  <2>5. \E T \in SUBSET Casters : worldCasters' \in [T -> SUBSET Cells]
    BY <2>1
  <2>6. dirty' \subseteq view' /\ missed' \subseteq view' /\ cleanRedrawPending' \in BOOLEAN
    BY <1>10 DEF TrackedPass, TerrainChanged, TypeOK
  <2> QED  BY <1>10, <2>3, <2>4, <2>5, <2>6 DEF TrackedPass, TypeOK, Maps
<1>11. ASSUME NEW R \in Rects, NEW map \in Updates, NEW haveView \in BOOLEAN,
              UntrackedPass(R, haveView, map)
       PROVE TypeOK'
  <2>1. map \in Maps /\ None \in Maps /\ Captured(R) \subseteq Casters
    BY UpdatesAreMaps DEF Maps, Captured, TypeOK
  <2>2. picture' \in [Cells -> [casters : SUBSET Casters, terrain : Maps]]
    BY <1>11, <2>1, CompositedType DEF UntrackedPass
  <2>3. /\ cleanRedrawPending' \in BOOLEAN
        /\ worldCastersValid' \in BOOLEAN
        /\ everCaptured' \in BOOLEAN
    BY <1>11 DEF UntrackedPass, TerrainChanged, Captures, TypeOK
  <2>4. missed' \subseteq view'
    BY <1>11 DEF UntrackedPass, RepaintsSome, TypeOK
  <2> QED  BY <1>11, <2>1, <2>2, <2>3, <2>4 DEF UntrackedPass, TypeOK, Maps
<1>12. ASSUME NEW R \in Rects, PausedPass(R) PROVE TypeOK'
  <2>1. None \in Maps
    BY DEF Maps
  <2>2. picture' \in [Cells -> [casters : SUBSET Casters, terrain : Maps]]
    BY <1>12, <2>1, CompositedType DEF PausedPass
  <2> QED  BY <1>12, <2>2 DEF PausedPass, TypeOK, Maps
<1>13. CASE UNCHANGED vars
  BY <1>13 DEF vars, TypeOK
<1>14. view \in Views
  BY DEF TypeOK
<1> QED
  BY <1>1, <1>2, <1>3, <1>4, <1>5, <1>6, <1>7, <1>8, <1>9, <1>10, <1>11, <1>12, <1>13, <1>14
  DEF Next, Draw, PartialPass

\* Whatever is installed and known, every state has its type: the set of casters
\* stays one of this city's, and nothing is to be repainted outside the window.
THEOREM TypeCorrect == Spec => []TypeOK
BY TypeCorrectInit, TypeCorrectStep, PTL DEF Spec

-----------------------------------------------------------------------------
\* What SC4 and the player change between draws is noticed by the next draw, or
\* has SC4 repaint where the casters and the set no longer agree.
LEMMA ChangesAreFaithful ==
  ASSUME TypeOK, Faithful,
         \/ \E k \in Casters : Build(k)
         \/ \E g \in Grounds, R \in Rects : Terraform(g, R)
         \/ \E c \in Cameras : TurnCamera(c)
         \/ TogglePause
         \/ DropStore
         \/ DestroyD3D11Context
  PROVE  Faithful'
<1> USE DEF city, hook, tracking, InCity, Known, Behind
<1>1. ASSUME NEW k \in Casters, Build(k) PROVE Faithful'
  <2>1. /\ dirty \subseteq dirty' /\ Box[k] \cap InCity \subseteq dirty'
        /\ \A j \in Casters \ {k} : j \in alive' <=> j \in alive
        /\ ~drawing /\ UNCHANGED <<view, store, drawing, registry, hook, tracking,
                                   cleanRedrawPending, picture, missed>>
    BY <1>1 DEF Build, Changing, TypeOK
  <2>2. Kept /\ ~lastPaused /\ worldCastersValid => CastersFollowed'
    BY <2>1 DEF Faithful, Kept, CastersFollowed
  <2>3. Kept /\ ~lastPaused /\ worldCastersValid => ShowsCasters'
    BY <2>1 DEF Faithful, Kept, ShowsCasters
  <2>4. Kept /\ lastPaused => ShowsNothing'
    BY <2>1 DEF Faithful, Kept, ShowsNothing
  <2> QED  BY <2>1, <2>2, <2>3, <2>4 DEF Faithful, Kept
<1>2. ASSUME NEW g \in Grounds, NEW R \in Rects, Terraform(g, R) PROVE Faithful'
  <2>1. /\ dirty \subseteq dirty'
        /\ ~drawing /\ UNCHANGED <<alive, view, store, drawing, registry, hook, tracking,
                                   cleanRedrawPending, picture, missed>>
    BY <1>2 DEF Terraform, Changing
  <2> QED  BY <2>1 DEF Faithful, Kept, CastersFollowed, ShowsCasters, ShowsNothing
<1>3. CASE (\E c \in Cameras : TurnCamera(c)) \/ TogglePause
  <2>1. ~drawing /\ UNCHANGED <<alive, view, dirty, store, drawing, registry, hook, tracking,
                                cleanRedrawPending, picture, missed>>
    BY <1>3 DEF TurnCamera, TogglePause, Changing
  <2> QED  BY <2>1 DEF Faithful, Kept, CastersFollowed, ShowsCasters, ShowsNothing
<1>4. CASE DropStore \/ DestroyD3D11Context
  <2>1. ~drawing /\ ~store' /\ UNCHANGED <<drawing, registry, hook>>
    BY <1>4 DEF DropStore, DestroyD3D11Context, Changing
  <2> QED  BY <2>1 DEF Faithful, Kept
<1> QED  BY <1>1, <1>2, <1>3, <1>4

\* A draw keeps the picture only when it is the one of this camera and this pause,
\* and what it scrolls into the window is to be repainted.
LEMMA DrawHookIsFaithful ==
  ASSUME TypeOK, Faithful, NEW v \in Views, DrawHook(v)
  PROVE  Faithful'
<1> USE DEF city, hook, tracking, InCity, Known, Behind
<1>1. UNCHANGED <<alive, camera, paused, registry, tracking, picture>>
  BY DEF DrawHook
<1>2. lastCamera' = camera /\ lastPaused' = paused /\ view' = v /\ dirty' = Repaints(v)
  BY DEF DrawHook
<1>3. CASE ~store'
  BY <1>1, <1>2, <1>3 DEF Faithful, Kept
<1>4. CASE store'
  <2>1. Kept /\ lastCamera' = lastCamera /\ lastPaused' = lastPaused
    BY <1>2, <1>4 DEF DrawHook, Forced, Kept
  <2>2. InCity' \ dirty' \subseteq InCity \ dirty /\ InCity' \ Behind' \subseteq InCity \ Behind
    BY <1>2 DEF Repaints, DrawHook
  <2>3. /\ \A k \in Casters : Box[k] \cap InCity \subseteq Behind
                            => Box[k] \cap InCity' \subseteq Behind'
        /\ InCity \subseteq Behind => InCity' \subseteq Behind'
    BY <2>2
  <2>4. ~lastPaused /\ worldCastersValid => CastersFollowed' /\ ShowsCasters'
    BY <1>1, <2>1, <2>2, <2>3 DEF Faithful, CastersFollowed, ShowsCasters
  <2>5. lastPaused => ShowsNothing'
    BY <1>1, <2>1, <2>2 DEF Faithful, ShowsNothing
  <2> QED  BY <1>1, <1>2, <2>1, <2>3, <2>4, <2>5 DEF Faithful
<1> QED  BY <1>3, <1>4

\* A full pass starts the set and the picture over, or leaves all of it behind.
LEMMA FullPassIsFaithful ==
  ASSUME TypeOK, Faithful, NEW haveView \in BOOLEAN, NEW map \in Updates,
         FullPass(haveView, map)
  PROVE  Faithful'
<1> USE DEF city, hook, tracking, InCity, Known, Behind
<1>1. /\ UNCHANGED <<alive, camera, view, drawing, paused, registry, hook, cleanRedrawPending>>
      /\ camera = lastCamera /\ paused = lastPaused /\ registry /\ drawing
      /\ InCity \subseteq Cells /\ InCity \subseteq view
  BY CellsAssumption DEF FullPass, Faithful, TypeOK
<1>2. CASE paused
  <2>1. picture' = Composited(view, {}, None)
    BY <1>2 DEF FullPass
  <2>2. \A c \in InCity : picture'[c] = [casters |-> {}, terrain |-> None]
    BY <1>1, <2>1 DEF Composited
  <2>3. ShowsNothing'
    BY <1>1, <2>2 DEF ShowsNothing, Bare
  <2> QED  BY <1>1, <1>2, <2>3 DEF Faithful
<1>3. CASE ~paused /\ ~haveView
  <2>1. ~worldCastersValid' /\ InCity' \subseteq Behind'
    BY <1>1, <1>3 DEF FullPass
  <2> QED  BY <1>1, <1>3, <2>1 DEF Faithful
<1>4. CASE ~paused /\ haveView
  <2>1. /\ picture' = Composited(view, Captured(view), map)
        /\ terrain' = map /\ worldCastersValid'
        /\ worldCasters' = [k \in Captured(view) |-> Shadow[camera][k]]
        /\ dirty' = {}
    BY <1>1, <1>4 DEF FullPass
  <2>2. CastersFollowed'
    BY <1>1, <2>1 DEF CastersFollowed, Captured
  <2>3. \A c \in InCity : /\ picture'[c].terrain = map
                          /\ picture'[c].casters = {k \in Captured(view) : c \in Shadow[camera][k]}
    <3>1. SUFFICES ASSUME NEW c \in InCity
          PROVE  /\ picture'[c].terrain = map
                 /\ picture'[c].casters = {k \in Captured(view) : c \in Shadow[camera][k]}
      OBVIOUS
    <3>2. picture'[c] = [casters |-> {k \in Captured(view) : c \in Shadow[camera][k]},
                         terrain |-> map]
      BY <1>1, <2>1, c \in Cells, c \in view DEF Composited
    <3> QED  BY <3>2
  <2>4. ShowsCasters'
    BY <1>1, <2>1, <2>3 DEF ShowsCasters
  <2> QED  BY <1>1, <1>4, <2>1, <2>2, <2>4 DEF Faithful
<1> QED  BY <1>2, <1>3, <1>4

\* A cell outside the rectangle that is not to be redisplayed is shaded by none of
\* the casters that came or went.
LEMMA RedisplayedCells ==
  ASSUME NEW R, NEW c, c \notin R, c \notin Redisplayed(Moved(R))
  PROVE  /\ \A k \in Gone(R) : c \notin worldCasters[k]
         /\ \A k \in Added(R) : c \notin Shadow[camera][k]
<1>1. ASSUME NEW k \in Gone(R) PROVE c \notin worldCasters[k]
  <2>1. k \in Known /\ k \in Moved(R)
    BY <1>1 DEF Gone, Moved
  <2> QED  BY <2>1 DEF Redisplayed
<1>2. ASSUME NEW k \in Added(R) PROVE c \notin Shadow[camera][k]
  <2>1. CASE Shadow[camera][k] \subseteq R
    BY <2>1
  <2>2. CASE ~(Shadow[camera][k] \subseteq R)
    <3>1. k \notin Known /\ k \in Moved(R)
      BY <1>2, <2>2 DEF Added, Moved
    <3> QED  BY <3>1 DEF Redisplayed
  <2> QED  BY <2>1, <2>2
<1> QED  BY <1>1, <1>2

\* What is to be redisplayed is, or has been missed.
LEMMA RedisplayedOrMissed ==
  ASSUME NEW R, NEW S \in SUBSET Moved(R), NEW c \in Redisplayed(Moved(R))
  PROVE  c \in Redisplayed(S) \/ c \in Redisplayed(Moved(R) \ S)
BY DEF Redisplayed

\* A pass the set can follow leaves the set true where SC4 has repainted, and the
\* picture true wherever no shadow is to be redisplayed.
LEMMA TrackedPassIsFaithful ==
  ASSUME TypeOK, Faithful, NEW R \in Rects, NEW map \in Updates, NEW S \in SUBSET Moved(R),
         TrackedPass(R, map, S)
  PROVE  Faithful'
<1> USE DEF city, hook, tracking, InCity, Behind
<1>1. /\ UNCHANGED <<alive, camera, view, store, drawing, paused, registry, hook,
                     worldCastersValid>>
      /\ drawing /\ registry /\ ~paused /\ camera = lastCamera /\ paused = lastPaused
      /\ InCity \subseteq Cells /\ InCity \subseteq view
  BY CellsAssumption DEF TrackedPass, RepaintsSome, Faithful, TypeOK
<1> SUFFICES ASSUME Kept' PROVE CastersFollowed' /\ ShowsCasters'
  BY <1>1 DEF Faithful, TrackedPass
<1>2. Kept /\ ~TerrainChanged(map) /\ worldCastersValid
  <2>1. cleanRedrawPending' = (cleanRedrawPending \/ TerrainChanged(map))
    BY DEF TrackedPass
  <2>2. ~cleanRedrawPending' /\ store
    BY <1>1 DEF Kept
  <2>3. ~cleanRedrawPending /\ ~TerrainChanged(map)
    BY <2>1, <2>2, Zenon
  <2> QED  BY <2>2, <2>3 DEF TrackedPass, Kept
<1>3. /\ terrain' = terrain /\ map = terrain
      /\ dirty' = (dirty \ R) \cup (Redisplayed(S) \cap view)
      /\ missed' = (missed \ R) \cup ((Redisplayed(Moved(R) \ S) \ R) \cap view)
      /\ worldCasters' = Tracked(R)
      /\ Known' = (Known \cup Added(R)) \ Gone(R)
  <2>1. terrain' = map /\ worldCasters' = Tracked(R)
        /\ dirty' = (dirty \ R) \cup (Redisplayed(S) \cap view)
        /\ missed' = (missed \ R) \cup ((Redisplayed(Moved(R) \ S) \ R) \cap view)
    BY DEF TrackedPass
  <2>2. map = terrain
    BY <1>2 DEF TerrainChanged
  <2>3. DOMAIN Tracked(R) = (Known \cup Added(R)) \ Gone(R)
    BY DEF Tracked
  <2>4. Known' = DOMAIN worldCasters'
    BY DEF Known
  <2> QED  BY <2>1, <2>2, <2>3, <2>4
<1>4. CastersFollowed /\ ShowsCasters
  BY <1>1, <1>2 DEF Faithful
<1>5. \A k \in Known' : worldCasters'[k] = Shadow[camera][k]
  BY <1>1, <1>3, <1>4 DEF Tracked, CastersFollowed
<1>6. ASSUME NEW k \in Casters
      PROVE  (k \in alive <=> k \in Known') \/ Box[k] \cap InCity \subseteq Behind'
  <2>1. CASE Box[k] \cap R # {}
    BY <1>3, <2>1 DEF Added, Gone, Captured
  <2>2. CASE Box[k] \cap R = {}
    <3>1. k \in Known' <=> k \in Known
      BY <1>3, <2>2 DEF Added, Gone, Captured
    <3>2. Box[k] \cap InCity \subseteq Behind => Box[k] \cap InCity \subseteq Behind'
      BY <1>3, <2>2
    <3> QED  BY <1>4, <3>1, <3>2 DEF CastersFollowed
  <2> QED  BY <2>1, <2>2
<1>7. CastersFollowed'
  BY <1>1, <1>2, <1>5, <1>6 DEF CastersFollowed
<1>8. ASSUME NEW c \in InCity, c \notin Behind'
      PROVE  /\ picture'[c].terrain = terrain
             /\ \A k \in Casters : k \in picture'[c].casters <=> k \in Known' /\ c \in Shadow[camera][k]
  <2> DEFINE K == {k \in DOMAIN worldCasters' : worldCasters'[k] \cap R # {}}
  <2>1. picture' = Composited(R, K, map) /\ c \in Cells
    BY <1>1 DEF TrackedPass
  <2> HIDE DEF K
  <2>2. CASE c \in R
    <3>1. picture'[c] = [casters |-> {k \in K : c \in Shadow[camera][k]}, terrain |-> map]
      BY <2>1, <2>2 DEF Composited
    <3>2. \A k \in Known' : c \in Shadow[camera][k] => k \in K
      BY <1>5, <2>2 DEF K, Known
    <3>3. K \subseteq Known'
      BY DEF K, Known
    <3>4. picture'[c].terrain = map /\ picture'[c].casters = {k \in K : c \in Shadow[camera][k]}
      BY <3>1
    <3> QED  BY <1>3, <3>2, <3>3, <3>4
  <2>3. CASE c \notin R
    <3>1. picture'[c] = picture[c]
      BY <2>1, <2>3 DEF Composited
    <3>2. c \in InCity \ Behind /\ c \notin Redisplayed(Moved(R))
      BY <1>1, <1>3, <1>8, <2>3, RedisplayedOrMissed
    <3>3. /\ picture[c].terrain = terrain
          /\ \A k \in Casters : k \in picture[c].casters <=> k \in Known /\ c \in Shadow[camera][k]
      BY <1>1, <1>4, <3>2 DEF ShowsCasters
    <3>4. \A k \in Gone(R) : k \in Known /\ c \notin Shadow[camera][k]
      BY <1>1, <1>4, <2>3, <3>2, RedisplayedCells DEF Gone, CastersFollowed
    <3>5. \A k \in Added(R) : c \notin Shadow[camera][k]
      BY <2>3, <3>2, RedisplayedCells
    <3> QED  BY <1>3, <3>1, <3>3, <3>4, <3>5
  <2> QED  BY <2>2, <2>3
<1>9. ShowsCasters'
  BY <1>1, <1>3, <1>8 DEF ShowsCasters
<1> QED  BY <1>7, <1>9

\* A pass the set cannot follow asks for a new picture, or leaves what it paints
\* behind.
LEMMA UntrackedPassIsFaithful ==
  ASSUME TypeOK, Faithful, NEW R \in Rects, NEW map \in Updates, NEW haveView \in BOOLEAN,
         UntrackedPass(R, haveView, map)
  PROVE  Faithful'
<1> USE DEF city, hook, tracking, InCity, Known
<1>1. /\ UNCHANGED <<alive, camera, view, store, drawing, paused, registry, hook, worldCasters>>
      /\ drawing /\ registry /\ ~paused /\ camera = lastCamera /\ paused = lastPaused
      /\ InCity \subseteq Cells /\ InCity \subseteq view
      /\ dirty' = dirty \ R /\ missed' = missed \cup R /\ Behind' = Behind \cup R
  BY CellsAssumption DEF UntrackedPass, RepaintsSome, Faithful, TypeOK, Behind
<1> SUFFICES ASSUME Kept'
             PROVE  /\ worldCastersValid' => CastersFollowed' /\ ShowsCasters'
                    /\ ~worldCastersValid' => InCity' \subseteq Behind'
  BY <1>1 DEF Faithful
<1> DEFINE empty == ~haveView /\ Captured(R) = {}
           stale == ~empty /\ (Captured(R) # {} \/ Known # {})
<1>2. ~cleanRedrawPending /\ ~stale /\ ~TerrainChanged(map) /\ store
  <2>1. cleanRedrawPending' = (cleanRedrawPending \/ stale \/ TerrainChanged(map))
    BY <1>1 DEF UntrackedPass
  <2>2. ~cleanRedrawPending' /\ store
    BY <1>1 DEF Kept
  <2>3. ~cleanRedrawPending /\ ~stale /\ ~TerrainChanged(map)
    BY <2>1, <2>2, Zenon
  <2> QED  BY <2>2, <2>3
<1>3. Kept /\ ~lastPaused /\ terrain' = terrain
  BY <1>1, <1>2 DEF Kept, UntrackedPass, TerrainChanged
<1>4. CASE worldCastersValid
  <2>1. CastersFollowed /\ ShowsCasters
    BY <1>3, <1>4 DEF Faithful
  <2>2. worldCastersValid'
    BY <1>1, <1>2, <1>4 DEF UntrackedPass
  <2>3. CastersFollowed'
    BY <1>1, <2>1 DEF CastersFollowed
  <2>4. \A c \in InCity \ Behind' : c \in InCity \ Behind /\ picture'[c] = picture[c]
    BY <1>1 DEF UntrackedPass, Composited
  <2>5. ShowsCasters'
    BY <1>1, <1>3, <2>1, <2>4 DEF ShowsCasters
  <2> QED  BY <2>2, <2>3, <2>5
<1>5. CASE ~worldCastersValid
  <2>1. ~worldCastersValid' /\ InCity \subseteq Behind
    BY <1>3, <1>5 DEF Faithful, UntrackedPass
  <2> QED  BY <1>1, <2>1
<1> QED  BY <1>4, <1>5

\* A paused pass shows no shadows where SC4 repaints.
LEMMA PausedPassIsFaithful ==
  ASSUME TypeOK, Faithful, NEW R \in Rects, PausedPass(R)
  PROVE  Faithful'
<1> USE DEF city, hook, tracking, InCity, Known, Behind
<1>1. /\ UNCHANGED <<alive, camera, view, store, drawing, paused, registry, hook, tracking,
                     cleanRedrawPending, missed>>
      /\ drawing /\ paused /\ camera = lastCamera /\ paused = lastPaused
      /\ dirty' = dirty \ R /\ picture' = Composited(R, {}, None)
      /\ InCity \subseteq Cells
  BY CellsAssumption DEF PausedPass, RepaintsSome, Faithful, TypeOK
<1>2. ASSUME Kept, NEW c \in InCity, c \notin dirty' PROVE picture'[c] = Bare
  <2>1. CASE c \in R
    BY <1>1, <2>1 DEF Composited, Bare
  <2>2. CASE c \notin R
    BY <1>1, <1>2, <2>2 DEF Composited, Faithful, ShowsNothing
  <2> QED  BY <2>1, <2>2
<1>3. Kept => ShowsNothing'
  BY <1>1, <1>2 DEF ShowsNothing
<1> QED  BY <1>1, <1>3 DEF Faithful, Kept

\* A step that leaves the city, the set and the picture alone keeps the picture.
LEMMA UnchangedIsFaithful ==
  ASSUME Faithful, drawing' => drawing,
         UNCHANGED <<city, view, dirty, store, paused, registry, hook, tracking,
                     cleanRedrawPending, picture, missed>>
  PROVE  Faithful'
<1> USE DEF city, hook, tracking, InCity, Known, Behind
<1>1. UNCHANGED <<InCity, Kept, Known>>
  BY DEF Kept
<1>2. CastersFollowed => CastersFollowed'
  BY <1>1 DEF CastersFollowed
<1>3. ShowsCasters => ShowsCasters'
  BY <1>1 DEF ShowsCasters
<1>4. ShowsNothing => ShowsNothing'
  BY <1>1 DEF ShowsNothing
<1> QED  BY <1>1, <1>2, <1>3, <1>4 DEF Faithful

-----------------------------------------------------------------------------
\* The picture that no draw is to give up shows, wherever SC4 has nothing to
\* repaint and no pass has missed anything, the shadows of the set, and the set is
\* the city's casters.
THEOREM PictureIsFaithfulAlways ==
  ASSUME Modes = {TRUE} PROVE Spec => []Inv
<1>1. Init => Inv
  <2>1. Init => TypeOK
    BY TypeCorrectInit
  <2>2. Init => Faithful
    BY Modes = {TRUE} DEF Init, Faithful, Kept
  <2> QED  BY <2>1, <2>2 DEF Inv
<1>2. Inv /\ [Next]_vars => Inv'
  <2> SUFFICES ASSUME Inv, [Next]_vars PROVE Inv'
    OBVIOUS
  <2>1. TypeOK /\ Faithful /\ TypeOK'
    BY TypeCorrectStep DEF Inv
  <2>2. ASSUME \/ \E k \in Casters : Build(k)
               \/ \E g \in Grounds, R \in Rects : Terraform(g, R)
               \/ \E c \in Cameras : TurnCamera(c)
               \/ TogglePause \/ DropStore \/ DestroyD3D11Context
        PROVE Faithful'
    BY <2>1, <2>2, ChangesAreFaithful
  <2>3. ASSUME NEW v \in Views, DrawHook(v) PROVE Faithful'
    BY <2>1, <2>3, DrawHookIsFaithful
  <2>4. ASSUME NEW haveView \in BOOLEAN, NEW map \in Updates, FullPass(haveView, map)
        PROVE Faithful'
    BY <2>1, <2>4, FullPassIsFaithful
  <2>5. ASSUME NEW R \in Rects, NEW map \in Updates, NEW S \in SUBSET Moved(R),
               TrackedPass(R, map, S)
        PROVE Faithful'
    BY <2>1, <2>5, TrackedPassIsFaithful
  <2>6. ASSUME NEW R \in Rects, NEW map \in Updates, NEW haveView \in BOOLEAN,
               UntrackedPass(R, haveView, map)
        PROVE Faithful'
    BY <2>1, <2>6, UntrackedPassIsFaithful
  <2>7. ASSUME NEW R \in Rects, PausedPass(R) PROVE Faithful'
    BY <2>1, <2>7, PausedPassIsFaithful
  <2>8. ASSUME EndDraw PROVE Faithful'
    BY <2>1, <2>8, UnchangedIsFaithful DEF EndDraw
  <2>9. ASSUME UNCHANGED vars PROVE Faithful'
    BY <2>1, <2>9, UnchangedIsFaithful DEF vars
  <2>10. ASSUME Draw PROVE Faithful'
    <3>1. view \in Views
      BY <2>1 DEF TypeOK
    <3>2. ASSUME PartialPass PROVE Faithful'
      BY <2>5, <2>6, <2>7, <3>2 DEF PartialPass
    <3> QED  BY <2>3, <2>4, <2>8, <2>10, <3>1, <3>2 DEF Draw
  <2>11. Faithful'
    BY <2>2, <2>3, <2>9, <2>10 DEF Next
  <2> QED  BY <2>1, <2>11 DEF Inv
<1> QED  BY <1>1, <1>2, PTL DEF Spec

\* Once nothing is left to repaint, the picture shows the shadows of exactly the
\* casters there are, however they came and went, but for what passes have missed.
THEOREM SettledPictureStaysRight ==
  ASSUME Modes = {TRUE} PROVE Spec => []SettledPictureIsRight
<1>1. Inv => SettledPictureIsRight
  <2> SUFFICES ASSUME Inv, Settled, NEW c \in InCity \ missed, NEW k \in Casters,
                      (Box[k] \cap InCity) \ missed # {}
      PROVE  k \in picture[c].casters <=> ~paused /\ k \in alive /\ c \in Shadow[camera][k]
    BY DEF SettledPictureIsRight
  <2>1. Faithful /\ Kept /\ dirty = {} /\ camera = lastCamera /\ paused = lastPaused
    BY DEF Inv, Settled, Kept
  <2>2. CASE paused
    BY <2>1, <2>2 DEF Faithful, ShowsNothing, Bare
  <2>3. CASE ~paused
    <3>1. c \notin Behind /\ ~(Box[k] \cap InCity \subseteq Behind)
      BY <2>1 DEF Behind
    <3>2. CastersFollowed /\ ShowsCasters
      BY <2>1, <2>3, <3>1 DEF Faithful
    <3>3. k \in alive <=> k \in Known
      BY <3>1, <3>2 DEF CastersFollowed
    <3>4. k \in picture[c].casters <=> k \in Known /\ c \in Shadow[camera][k]
      BY <2>1, <3>1, <3>2 DEF ShowsCasters
    <3> QED  BY <2>3, <3>3, <3>4
  <2> QED  BY <2>2, <2>3
<1> QED  BY <1>1, PictureIsFaithfulAlways, PTL

\* Once nothing is left to repaint, one map of the terrain's shadows shades all that
\* passes with a view have painted.
THEOREM TerrainIsOneAlways ==
  ASSUME Modes = {TRUE} PROVE Spec => []OneTerrain
<1>1. Inv => OneTerrain
  <2> SUFFICES ASSUME Inv, Settled, NEW c \in InCity \ missed, NEW d \in InCity \ missed
      PROVE  picture[c].terrain = picture[d].terrain
    BY DEF OneTerrain
  <2>1. Faithful /\ Kept /\ dirty = {} /\ paused = lastPaused
    BY DEF Inv, Settled, Kept
  <2>2. CASE paused
    BY <2>1, <2>2 DEF Faithful, ShowsNothing
  <2>3. CASE ~paused
    <3>1. c \notin Behind /\ d \notin Behind
      BY <2>1 DEF Behind
    <3>2. ShowsCasters
      BY <2>1, <2>3, <3>1 DEF Faithful
    <3> QED  BY <3>1, <3>2 DEF ShowsCasters
  <2> QED  BY <2>2, <2>3
<1> QED  BY <1>1, PictureIsFaithfulAlways, PTL
================================================================================
