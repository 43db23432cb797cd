----------------------------- MODULE ShadowDrawing -----------------------------
(***************************************************************************)
(* The second half of DrawLivePropShadows: how a pass draws the casters    *)
(* LiveShadows follows and the ones ShadowRegistry gathered.  Captures     *)
(* stay in a buffer (the arena) from pass to pass, the terrain's shadow    *)
(* map is uploaded when it changes, and each pass numbers the prerendered  *)
(* models so that none shades its own picture.  Any of these resources may *)
(* be missing: a pass then does without it, and a later pass has to        *)
(* notice.  The registry is installed; where shadows fall is LiveShadows'. *)
(***************************************************************************)
EXTENDS Integers, FiniteSets, FiniteSetsExt

CONSTANTS
  Casters,     \* captures, by their place in SC4's drawing order
  Versions,    \* what a caster may look like when it is drawn again
  Size,        \* vertices and indices of a caster, in one measure
  ArenaSize,   \* kArenaVertices, kArenaIndices
  MaxArena,    \* kArenaMaxBytes
  Models,      \* the registry's casters, by their place in the pass
  Occupant,    \* whose caster it is
  Cities,      \* bound: the captures a city has, the sets of models a pass may
               \* reach there, the dimensions of its terrain, and effects or not
  MaxOccupants,    \* kMaxOccupants
  FirstBoxes,      \* boxes in the smallest buffer ensureBuffer makes
  MaxRebuilds,     \* bound: arena rebuilds
  MaxTerrains,     \* bound: terrain maps
  MaxFailing       \* bound: calls that fail in one pass

ASSUME CastersAssumption ==
  /\ Casters \subseteq Nat /\ IsFiniteSet(Casters)
  /\ Models \subseteq Nat /\ IsFiniteSet(Models)
  /\ Size \in [Casters -> Nat \ {0}]
  /\ DOMAIN Occupant = Models
  /\ \A c \in Cities : /\ c.captures \subseteq Casters \X Versions
                       /\ c.reaches \subseteq SUBSET Models
                       /\ c.sizes \subseteq Nat \ {0}
                       /\ c.effects \in BOOLEAN
ASSUME BoundsAssumption ==
  /\ {ArenaSize, MaxArena, MaxOccupants, FirstBoxes, MaxRebuilds, MaxTerrains, MaxFailing}
       \subseteq Nat
  /\ MaxOccupants # 0

VARIABLES
  city,              \* which of the cities is open
  ready,             \* IsDeviceReady() and depthShaderView
  pipeline,          \* liveShadows
  arenaGenerations,  \* gArenaGenerations, which outlives the device
  draws,             \* liveShadowDraws: captures of this pass, by version
  worldCasters,      \* liveShadowWorldCasters: captures with their place
  worldCastersValid, \* liveShadowWorldCastersValid
  terrain,           \* TerrainShadows: generation and dimensions of the map
  composite          \* history: what the last composite was made with

shadowVars == <<city, ready, pipeline, arenaGenerations, draws, worldCasters, worldCastersValid,
                terrain, composite>>

None == 0
NoCasters == [k \in {} |-> None]
NoArena == [buffers |-> FALSE, capacity |-> 0, cursor |-> 0, generation |-> 0,
            holds |-> NoCasters]
\* unmade is history: CreateBuffer failed when the boxes last needed a buffer.
NoBoxes == [capacity |-> 0, view |-> FALSE, holds |-> <<>>, unmade |-> FALSE]
NoTerrainTexture == [size |-> 0, holds |-> 0]
NoPipeline == [created |-> FALSE, arena |-> NoArena, boxes |-> NoBoxes,
               terrainMap |-> NoTerrainTexture, terrainAltitude |-> NoTerrainTexture,
               terrainMapGeneration |-> 0]
\* What a composite was right about: each caster drawn from its own bytes, each
\* number leading to its owner, the self test made when no call failed (spared), or
\* when none had failed to make the boxes' buffer either (tested), and the terrain's
\* textures of the current map.
Right == [casters |-> TRUE, owners |-> TRUE, tested |-> TRUE, spared |-> TRUE,
          terrain |-> TRUE]

Entries == [version : Versions, generation : Nat, first : Nat]

ShadowsTypeOK ==
  /\ city \in Cities /\ ready \in BOOLEAN /\ worldCastersValid \in BOOLEAN
  /\ arenaGenerations \in 0..MaxRebuilds
  /\ pipeline.arena.generation \in 0..arenaGenerations
  /\ pipeline.arena.cursor <= pipeline.arena.capacity
  /\ pipeline.arena.capacity <= MaxArena
  /\ DOMAIN pipeline.arena.holds \subseteq 0..(pipeline.arena.capacity - 1)
  /\ \E S \in SUBSET Casters : draws \in [S -> Versions]
  /\ DOMAIN worldCasters \subseteq Casters
  /\ \A k \in DOMAIN worldCasters : worldCasters[k] \in Entries
  /\ terrain.generation \in 0..MaxTerrains /\ terrain.size \in city.sizes \cup {0}
  /\ composite \in [DOMAIN Right -> BOOLEAN]

ShadowsInit ==
  /\ city \in Cities
  /\ ready = FALSE
  /\ pipeline = NoPipeline
  /\ arenaGenerations = 0
  /\ draws = NoCasters
  /\ worldCasters = NoCasters /\ worldCastersValid = FALSE
  /\ terrain = [generation |-> 0, size |-> 0]
  /\ composite = Right

-----------------------------------------------------------------------------
(* Captures, and what changes between passes.                              *)

\* AppendLiveShadowDraw: SC4 draws a caster while it repaints.
CaptureLiveShadowDraw(k, v) ==
  /\ <<k, v>> \in city.captures /\ k \notin DOMAIN draws
  /\ draws' = [j \in DOMAIN draws \cup {k} |-> IF j = k THEN v ELSE draws[j]]
  /\ UNCHANGED <<city, ready, pipeline, arenaGenerations, worldCasters, worldCastersValid,
                 terrain, composite>>

\* TerrainShadows::Update builds a map, of the same or another size.
UpdateTerrain(size) ==
  /\ size \in city.sizes
  /\ terrain.generation < MaxTerrains
  /\ terrain' = [generation |-> terrain.generation + 1, size |-> size]
  /\ UNCHANGED <<city, ready, pipeline, arenaGenerations, draws, worldCasters, worldCastersValid,
                 composite>>

\* The window's buffers are gone while the device is not.
LoseTargets ==
  /\ ready /\ ready' = FALSE
  /\ UNCHANGED <<city, pipeline, arenaGenerations, draws, worldCasters, worldCastersValid,
                 terrain, composite>>

DestroyShadows ==
  /\ ready' = FALSE
  /\ pipeline' = NoPipeline
  /\ draws' = NoCasters
  /\ worldCasters' = NoCasters /\ worldCastersValid' = FALSE
  /\ UNCHANGED <<city, arenaGenerations, terrain, composite>>

CreateTargets ==
  /\ ~ready /\ ready' = TRUE
  /\ UNCHANGED <<city, pipeline, arenaGenerations, draws, worldCasters, worldCastersValid,
                 terrain, composite>>

-----------------------------------------------------------------------------
(* Whom a pass draws.                                                      *)

Fresh(S) == [k \in S |-> [version |-> draws[k], generation |-> 0, first |-> 0]]

\* TrackLiveShadowWorldCasters follows static passes with a view; a partial one
\* needs a valid set.
Tracks(pass) ==
  /\ pass.haveView
  /\ pass.kind = "full" \/ (pass.kind = "partial" /\ worldCastersValid)

\* What SC4 drew again replaces what was kept of it, and has to be placed again;
\* what is gone should have been drawn and was not.
Tracked(pass) ==
  IF pass.kind = "full" THEN Fresh(DOMAIN draws)
  ELSE [k \in (DOMAIN worldCasters \ pass.gone) \cup DOMAIN draws |->
          IF k \in DOMAIN draws THEN Fresh({k})[k] ELSE worldCasters[k]]

\* static passes repaint SC4's picture, all of it or one rectangle; the dynamic
\* pass is made for each frame.
Passes ==
  {p \in [kind : {"full", "partial", "dynamic"}, haveView : BOOLEAN,
          gone : SUBSET (DOMAIN worldCasters \ DOMAIN draws)] :
     p.gone # {} => p.kind = "partial" /\ Tracks(p)}

\* A rectangle without casters and without a view, as past the city's edge: the
\* set is left as it is.
EmptyPartialPass(pass) == pass.kind = "partial" /\ ~pass.haveView /\ draws = NoCasters

-----------------------------------------------------------------------------
(* The arena.  Its casters lie one behind the other, in drawing order.     *)

\* The vertices and indices of S, and how many there are.
Geometry(S) == UNION {{k} \X (1..Size[k]) : k \in S}
Total(S) == Cardinality(Geometry(S))

Unplaced(arena, pool, S) ==
  {k \in S : pool[k].generation = 0 \/ pool[k].generation # arena.generation}

First(arena, S, k) == arena.cursor + Total({j \in S : j < k})

Covers(arena, S, k) == First(arena, S, k)..(First(arena, S, k) + Size[k] - 1)

\* Mutant of HasRoom: the end is counted as one past the last place.
HasRoomForOneMore(arena, S) ==
  arena.generation # 0 /\ arena.cursor + Total(S) <= arena.capacity + 1

HasRoom(arena, S) == arena.generation # 0 /\ arena.cursor + Total(S) <= arena.capacity

\* ArenaAppend of all of S, which starts at the cursor.
ArenaAppend(arena, pool, S) ==
  [arena EXCEPT
     !.cursor = @ + Total(S),
     !.holds = [i \in DOMAIN @ \cup UNION {Covers(arena, S, k) : k \in S} |->
                  IF \E k \in S : i \in Covers(arena, S, k)
                    THEN LET k == CHOOSE j \in S : i \in Covers(arena, S, j)
                         IN <<k, pool[k].version>>
                    ELSE @[i]]]

PlacedCasters(arena, pool, S) ==
  [k \in DOMAIN pool |->
     IF k \in S THEN [pool[k] EXCEPT !.generation = arena.generation,
                                     !.first = First(arena, S, k)]
                ELSE pool[k]]

\* Mutant of NextGeneration: a rebuild that finds its buffers large enough keeps
\* its generation.
SameGeneration(arena) ==
  IF arena.generation # 0 /\ arena.buffers THEN arena.generation ELSE arenaGenerations + 1

NextGeneration(arena) == arenaGenerations + 1

\* ArenaRebuild: emptied, and made large enough for twice what is needed now.
ArenaRebuild(arena, need, created) ==
  LET capacity == Max({arena.capacity, 2 * need, ArenaSize})
      emptied == [arena EXCEPT !.cursor = 0, !.generation = NextGeneration(arena)]
  IN CASE capacity > MaxArena -> [emptied EXCEPT !.generation = 0]
       [] capacity <= MaxArena /\ arena.buffers /\ capacity = arena.capacity -> emptied
       [] OTHER -> IF created
                   THEN [emptied EXCEPT !.buffers = TRUE, !.capacity = capacity,
                                        !.holds = NoCasters]
                   ELSE NoArena

\* placeCasters, if need be after a rebuild.  What the first attempt placed
\* before the arena turned out full is placed again by the second.
Rebuilds(arena, pool, S) == ~HasRoom(arena, Unplaced(arena, pool, S))
                              /\ Unplaced(arena, pool, S) # {}

Placement(arena, pool, S, created) ==
  LET base == IF Rebuilds(arena, pool, S) THEN ArenaRebuild(arena, Total(S), created)
                                          ELSE arena
      new == Unplaced(base, pool, S)
  IN IF new = {} \/ HasRoom(base, new)
     THEN [ready |-> TRUE, arena |-> ArenaAppend(base, pool, new),
           pool |-> PlacedCasters(base, pool, new)]
     ELSE [ready |-> FALSE, arena |-> base, pool |-> pool]

\* DrawIndexed of a placed caster reads the arena from its place on.
DrawsItself(arena, entry, k) ==
  \A i \in entry.first..(entry.first + Size[k] - 1) :
    i \in DOMAIN arena.holds /\ arena.holds[i] = <<k, entry.version>>

-----------------------------------------------------------------------------
(* Registry casters: each draws its occupant's number beside its depth.    *)

\* Each occupant's first model in the pass.
Firsts(S) == {m \in S : \A j \in S : j < m => Occupant[j] # Occupant[m]}

Numbered(S) == Min({Cardinality(Firsts(S)), MaxOccupants})

NumberOf(S, m) ==
  LET first == CHOOSE f \in Firsts(S) : Occupant[f] = Occupant[m]
      number == Cardinality({f \in Firsts(S) : f <= first})
  IN IF number <= MaxOccupants THEN number ELSE 0

\* The boxes, as the models each surrounds.
OccupantBoxes(S) == [n \in 1..Numbered(S) |-> {m \in S : NumberOf(S, m) = n}]

\* Mutant of Refilled: boxes that the buffer has room for are left in it.
RefilledWhenGrown(boxes, old, S) == IF boxes = old THEN boxes.holds ELSE OccupantBoxes(S)

Refilled(boxes, old, S) == OccupantBoxes(S)

\* Mutant of WithoutView: the capacity stays when no view could be made.
WithoutViewOnly(boxes, need) ==
  [boxes EXCEPT !.view = FALSE, !.capacity = need, !.unmade = FALSE]

\* The buffer is there and the next pass is to try again.
WithoutView(boxes, need) ==
  [boxes EXCEPT !.view = FALSE, !.capacity = 0, !.unmade = FALSE]

\* The capacity is set before the buffer is made, and only it is looked at.
GrownBoxes(boxes, need, failed) ==
  CASE boxes.capacity >= need -> boxes
    [] boxes.capacity < need /\ "boxes" \in failed ->
         [boxes EXCEPT !.view = FALSE, !.unmade = TRUE,
                       !.capacity = Max({need + need \div 2, FirstBoxes})]
    [] boxes.capacity < need /\ "boxes" \notin failed /\ "boxView" \in failed ->
         WithoutView(boxes, need)
    [] OTHER ->
         [capacity |-> Max({need + need \div 2, FirstBoxes}), view |-> TRUE, holds |-> <<>>,
          unmade |-> FALSE]

FilledBoxes(boxes, S, failed) ==
  LET grown == GrownBoxes(boxes, Numbered(S), failed)
      filled == grown.view /\ "boxMap" \notin failed
  IN [ready |-> filled,
      boxes |-> IF filled THEN [grown EXCEPT !.holds = Refilled(grown, boxes, S)] ELSE grown]

\* CompositePS: a painted pixel of model p inside the box of the number that
\* model m left in the map is m's occupant's own.
Own(boxes, number, p) ==
  number \in DOMAIN boxes.holds /\ p \in boxes.holds[number]

\* With the self test, no model shades its own occupant's picture, and every
\* other one does.  A model without a number shades them all.
OwnersAreKnown(boxes, S) ==
  \A m, p \in S : NumberOf(S, m) # 0 =>
    (Own(boxes, NumberOf(S, m), p) <=> Occupant[m] = Occupant[p])

-----------------------------------------------------------------------------
(* The terrain's textures: of the map's and the height field's size, and   *)
(* filled together.                                                        *)

Remade(texture, size, created) ==
  IF texture.size = size THEN texture
  ELSE IF created THEN [size |-> size, holds |-> 0] ELSE NoTerrainTexture

WithTerrain(p, failed) ==
  LET map == Remade(p.terrainMap, terrain.size, "map" \notin failed)
      altitude == Remade(p.terrainAltitude, terrain.size, "altitude" \notin failed)
      made == [p EXCEPT !.terrainMap = map, !.terrainAltitude = altitude]
  IN CASE p.terrainMapGeneration = terrain.generation -> p
       [] p.terrainMapGeneration # terrain.generation
            /\ map.size # 0 /\ altitude.size # 0 /\ "memory" \notin failed ->
            [made EXCEPT !.terrainMap.holds = terrain.generation,
                         !.terrainAltitude.holds = terrain.generation,
                         !.terrainMapGeneration = terrain.generation]
       [] OTHER -> made

\* Mutant of TerrainBound: textures that are there will do.
TerrainBoundIfThere(p) == p.terrainMap.size # 0 /\ p.terrainAltitude.size # 0

TerrainBound(p) ==
  /\ p.terrainMap.size # 0 /\ p.terrainAltitude.size # 0
  /\ p.terrainMapGeneration = terrain.generation

-----------------------------------------------------------------------------
(* A pass.                                                                 *)

\* The calls that a pass makes and that may fail.  "stencil" stands for the view of
\* the painted marks, which the window's buffers may have been made without.
Calls(rebuilds, R, shaded) ==
  (IF rebuilds THEN {"arena"} ELSE {})
    \cup (IF R # {} THEN {"upload", "stencil", "boxes", "boxView", "boxMap"} ELSE {})
    \cup (IF shaded THEN {"map", "altitude", "memory"} ELSE {})

\* The set of casters, which is brought up to date before anything else.
Keeps(pass, pool) ==
  IF Tracks(pass)
    THEN worldCasters' = pool /\ worldCastersValid' = TRUE
    ELSE /\ worldCastersValid' =
              (worldCastersValid /\ (pass.kind = "dynamic" \/ EmptyPartialPass(pass)))
         /\ UNCHANGED worldCasters

Pool(pass) ==
  IF Tracks(pass) THEN Tracked(pass) ELSE Fresh(DOMAIN draws)

\* RenderLivePropShadows while the player has turned live shadows off.
PausedPass ==
  /\ draws' = NoCasters
  /\ UNCHANGED <<city, ready, pipeline, arenaGenerations, worldCasters, worldCastersValid, terrain,
                 composite>>

\* Nothing casts into the pass, or there is nothing to draw it on.
PassDrawsNothing(pass) ==
  /\ ready => Tracks(pass) \/ draws = NoCasters
  /\ Keeps(pass, Pool(pass))
  /\ draws' = NoCasters
  /\ UNCHANGED <<city, ready, pipeline, arenaGenerations, terrain, composite>>

\* The pipeline is made as a whole or not at all.  It is kept by a pass that then
\* finds that it knows no projection or no direction for its shadows.
PassCannotDraw(pass, created) ==
  /\ ready
  /\ created => ~pass.haveView
  /\ ~created => ~pipeline.created
  /\ Keeps(pass, Pool(pass))
  /\ pipeline' = [pipeline EXCEPT !.created = created]
  /\ draws' = NoCasters
  /\ UNCHANGED <<city, ready, arenaGenerations, terrain, composite>>

Failing(R, shaded) ==
  {F \in SUBSET Calls(TRUE, R, shaded) : Cardinality(F) <= MaxFailing}

\* The registry's casters that can shade the viewport: a pass with a view culls
\* what it gathered, and leaves out what names no texture.
Reached(pass, R) == R \in city.reaches /\ (R # {} => pass.haveView)

\* The captures a pass draws: of a set it follows those in the viewport, else all.
Drawn(pass, S) ==
  /\ S \subseteq DOMAIN Pool(pass)
  /\ ~Tracks(pass) => S = DOMAIN Pool(pass)

\* Their meshes go into one upload per pass, and all are drawn or none.
RegistryDrawn(R, failed) == R # {} /\ "upload" \notin failed

\* The self test needs the painted marks as well as the boxes.
FillsBoxes(R, failed) == RegistryDrawn(R, failed) /\ "stencil" \notin failed

\* What the composite is right about, with the pipeline p it finds.
Composited(p, placement, S, R, selfTest, bound, failed) ==
  [casters |-> placement.ready =>
                 \A k \in S : DrawsItself(placement.arena, placement.pool[k], k),
   owners |-> selfTest => OwnersAreKnown(p.boxes, R),
   tested |-> R # {} /\ failed = {} /\ ~p.boxes.unmade => selfTest,
   spared |-> R # {} /\ failed = {} => selfTest,
   terrain |-> bound => {p.terrainMap.holds, p.terrainAltitude.holds} = {terrain.generation}]

\* S: captures in the viewport.  R: the registry's casters.
PassDraws(pass, S, R, shaded, failed) ==
  LET pool == Pool(pass)
      placement == Placement(pipeline.arena, pool, S, "arena" \notin failed)
      filled == FilledBoxes(pipeline.boxes, R, failed)
      selfTest == FillsBoxes(R, failed) /\ filled.ready
      drawn == [pipeline EXCEPT
                  !.created = TRUE,
                  !.arena = placement.arena,
                  !.boxes = IF FillsBoxes(R, failed) THEN filled.boxes ELSE @]
      final == IF shaded THEN WithTerrain(drawn, failed) ELSE drawn
      bound == shaded /\ TerrainBound(final)
  IN /\ ready
     /\ Drawn(pass, S)
     /\ Reached(pass, R)
     /\ shaded => pass.haveView /\ pass.kind # "dynamic" /\ terrain.generation # 0
     /\ S # {} \/ R # {} \/ shaded
     /\ failed \subseteq Calls(Rebuilds(pipeline.arena, pool, S), R, shaded)
     /\ Rebuilds(pipeline.arena, pool, S) => arenaGenerations < MaxRebuilds
     /\ arenaGenerations' = IF Rebuilds(pipeline.arena, pool, S) THEN arenaGenerations + 1
                                                                ELSE arenaGenerations
     /\ Keeps(pass, placement.pool)
     /\ pipeline' = final
     /\ draws' = NoCasters
     /\ composite' = IF S = {} /\ R = {} /\ ~bound THEN composite
                     ELSE Composited(final, placement, S, R, selfTest, bound, failed)
     /\ UNCHANGED <<city, ready, terrain>>
=============================================================================
