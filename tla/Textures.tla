-------------------------------- MODULE Textures --------------------------------
(***************************************************************************)
(* SC4's textures and what a draw makes of them (cGDriver_Textures.cpp).   *)
(* SC4 names textures, gives them a size with level 0 and fills further    *)
(* levels, for which the driver has to make a longer chain and copy what   *)
(* it holds: no copy of the pixels is kept elsewhere.  Draws look a bound  *)
(* name up once and keep a raw pointer to its view, and one to a sampler,  *)
(* until something says that they may have changed.                        *)
(***************************************************************************)
EXTENDS Naturals, Sequences

CONSTANTS
  TextureNames,
  NoTexture, \* the name 0
  Stages,    \* texture stages
  Shapes,    \* sizes and formats, named by the length of their mip chains
  Pixels,    \* what SC4 fills a level with
  Blank      \* the contents of a new resource

ASSUME TextureNamesAssumption == NoTexture \notin TextureNames /\ Blank \notin Pixels
ASSUME ShapesAssumption == Shapes \subseteq Nat \ {0}

VARIABLES
  textures,      \* per name: is it in the map, its shape (0: none yet), whether
                 \* it has a resource, and what each level of it holds
  boundTextures, \* per stage
  views,         \* boundTextureViewCache: the name looked up and what became of
                 \* its view: "null", "live", or "gone" when it was released
  samplers       \* stages with a sampler in stage.sampler

textureVars == <<textures, boundTextures, views, samplers>>

Unused == [named |-> FALSE, shape |-> 0, resource |-> FALSE, levels |-> <<>>]
Named == [Unused EXCEPT !.named = TRUE]
BlankLevels(n) == [i \in 1..n |-> Blank]
NotCached == [name |-> NoTexture, view |-> "unknown"]

TexturesTypeOK ==
  /\ \A t \in TextureNames :
       /\ textures[t].named \in BOOLEAN /\ textures[t].resource \in BOOLEAN
       /\ textures[t].shape \in Shapes \cup {0}
       /\ textures[t].levels \in Seq(Pixels \cup {Blank})
       /\ Len(textures[t].levels) <= textures[t].shape
  /\ boundTextures \in [Stages -> TextureNames \cup {NoTexture}]
  /\ views \in [Stages -> [name : TextureNames \cup {NoTexture},
                           view : {"unknown", "null", "live", "gone"}]]
  /\ samplers \subseteq Stages

TexturesInit ==
  /\ textures = [t \in TextureNames |-> Unused]
  /\ boundTextures = [s \in Stages |-> NoTexture]
  /\ views = [s \in Stages |-> NotCached]
  /\ samplers = {}

\* What BoundTextureView finds for a name: its view exists with its resource.
ViewOf(t) ==
  IF t # NoTexture /\ textures[t].named /\ textures[t].resource THEN "live" ELSE "null"

-----------------------------------------------------------------------------
(* ++textureViewsGeneration: no view looked up before is used again.  The  *)
(* pointers whose views are released by the same step are "gone".          *)

ForgetViews == [s \in Stages |-> NotCached]

\* Cached pointers that nothing forgets, while T's views are released.
ReleasedViews(T) ==
  [s \in Stages |-> IF views[s].name \in T /\ views[s].view = "live"
                    THEN [views[s] EXCEPT !.view = "gone"] ELSE views[s]]

\* Mutant of ViewsAfterCreating: the generation stays.
ViewsAfterCreatingKept(t) == ReleasedViews({t})

ViewsAfterCreating(t) == ForgetViews

\* CreateTextureResource, when it succeeds: old contents and view are released.
Created(t, shape, n) == [textures EXCEPT ![t] = [named |-> TRUE, shape |-> shape,
                                                 resource |-> TRUE, levels |-> BlankLevels(n)]]

\* Mutant of Grown: the levels there were are not copied.
GrownBlank(t) == BlankLevels(textures[t].shape)

\* A chain of full length with the old levels copied into it.
Grown(t) == [i \in 1..textures[t].shape |->
               IF i <= Len(textures[t].levels) THEN textures[t].levels[i] ELSE Blank]

GenTextures(t) ==
  /\ ~textures[t].named
  /\ textures' = [textures EXCEPT ![t] = Named]
  /\ UNCHANGED <<boundTextures, views, samplers>>

DeleteTextures(T) ==
  /\ textures' = [t \in TextureNames |-> IF t \in T THEN Unused ELSE textures[t]]
  /\ boundTextures' = [s \in Stages |-> IF boundTextures[s] \in T THEN NoTexture
                                        ELSE boundTextures[s]]
  /\ views' = ForgetViews
  /\ UNCHANGED samplers

\* BindTexture and SetTexture refuse a name that is not in the map.
BindTexture(s, t) ==
  /\ t # NoTexture => textures[t].named
  /\ boundTextures' = [boundTextures EXCEPT ![s] = t]
  /\ UNCHANGED <<textures, views, samplers>>

\* CreateTexture: a new name, its whole chain at once, and bound; the name is
\* given up if the resource cannot be made.
CreateTexture(s, t, shape, n, created) ==
  /\ ~textures[t].named
  /\ n \in 1..shape
  /\ IF created
     THEN /\ textures' = Created(t, shape, n)
          /\ boundTextures' = [boundTextures EXCEPT ![s] = t]
          /\ views' = ViewsAfterCreating(t)
     ELSE /\ views' = ForgetViews
          /\ UNCHANGED <<textures, boundTextures>>
  /\ UNCHANGED samplers

\* LoadTextureLevel, into the texture a call has arrived at.  An upload whose
\* format or rectangle does not fit is refused and changes nothing (Blank).
Loaded(entry, level, pixels) ==
  IF pixels = Blank THEN entry ELSE [entry EXCEPT !.levels[level] = pixels]

LoadTextureLevel(t, level, pixels) ==
  /\ textures[t].named /\ textures[t].resource
  /\ level \in 1..Len(textures[t].levels)
  /\ textures' = [textures EXCEPT ![t] = Loaded(@, level, pixels)]
  /\ UNCHANGED <<boundTextures, views, samplers>>

\* TexImage2D needs a new resource for another shape, and for a level that the
\* chain does not have yet.
NeedsResource(t, level, shape) ==
  IF level = 1 THEN ~textures[t].resource \/ textures[t].shape # shape
               ELSE level > Len(textures[t].levels)

\* TexImage2D of the bound name.  Level 1 here is the code's level 0.  Levels
\* beyond it have to fit the shape there is.  A resource that cannot be made
\* leaves everything as it was.
TexImage2D(s, level, shape, pixels, created) ==
  LET t == boundTextures[s]
      recreated == [textures[t] EXCEPT
                      !.shape = shape, !.resource = TRUE,
                      !.levels = IF level = 1 THEN BlankLevels(1) ELSE Grown(t)]
  IN /\ t # NoTexture
     /\ level > 1 => textures[t].resource /\ textures[t].shape = shape
     /\ level \in 1..shape
     /\ created \/ NeedsResource(t, level, shape)
     /\ CASE ~NeedsResource(t, level, shape) ->
               /\ textures' = [textures EXCEPT ![t] = Loaded(@, level, pixels)]
               /\ UNCHANGED views
          [] NeedsResource(t, level, shape) /\ created ->
               /\ textures' = [textures EXCEPT ![t] = Loaded(recreated, level, pixels)]
               /\ views' = ViewsAfterCreating(t)
          [] OTHER -> UNCHANGED <<textures, views>>
     /\ UNCHANGED <<boundTextures, samplers>>

\* TexParameter drops the stage's pointer when a filter or wrap mode changes.
TexParameter(s) ==
  /\ samplers' = samplers \ {s}
  /\ UNCHANGED <<textures, boundTextures, views>>

\* BindGeometryPipeline, for one stage: the view is looked up again if the name
\* or the generation is another, and EnsureSampler finds or makes the sampler of
\* a stage that has a view (made: it could).
UseTexture(s, made) ==
  LET view == IF views[s].view # "unknown" /\ views[s].name = boundTextures[s]
              THEN views[s].view ELSE ViewOf(boundTextures[s])
  IN /\ views' = [views EXCEPT ![s] = [name |-> boundTextures[s], view |-> view]]
     /\ samplers' = IF view # "null" /\ made THEN samplers \cup {s} ELSE samplers
     /\ UNCHANGED <<textures, boundTextures>>

-----------------------------------------------------------------------------
(* The device goes and comes.                                              *)

\* The textures after DestroyD3D11Context: names and shapes, or nothing at all.
Destroyed(preserve) ==
  [t \in TextureNames |->
     IF preserve THEN [textures[t] EXCEPT !.resource = FALSE,
                                          !.levels = BlankLevels(Len(@))]
                 ELSE Unused]

\* RecreateTextureResources makes every texture with a shape anew, or fails.
Recreated(preserve) ==
  [t \in TextureNames |-> [Destroyed(preserve)[t] EXCEPT !.resource = @ \/ Destroyed(preserve)[t].shape # 0]]

\* The rest of the textures' state, whether the device comes back or not:
\* ReleaseSamplerStates leaves no stage a pointer.
TexturesLoseDevice(preserve) ==
  /\ boundTextures' = IF preserve THEN boundTextures ELSE [s \in Stages |-> NoTexture]
  /\ views' = ForgetViews
  /\ samplers' = {}

-----------------------------------------------------------------------------
\* A draw never uses a view that has been released, nor misses a texture that has
\* come since it last looked: whatever BoundTextureView would
\* answer from its cache is what the map holds.
CachedPointersAreCurrent ==
  \A s \in Stages :
    views[s].view # "unknown" /\ views[s].name = boundTextures[s]
      => views[s].view = ViewOf(boundTextures[s])
=============================================================================
