------------------------------ MODULE SceneEffects ------------------------------
(***************************************************************************)
(* The end of a scene: shadows of what moves, then ReShade's effects, both *)
(* drawn into the back buffer before the interface (cGDriver_ReShade.cpp). *)
(* The back buffer outlives the frame.  SC4 need not draw the scene again  *)
(* in the next one, and ReShade itself applies its effects at Present      *)
(* unless something was rendered through it since the last Present.  The   *)
(* driver has to keep the two from adding up, over frames that end without *)
(* a Present, resizes and lost devices, and to show the effects a depth    *)
(* texture of the right size, for the far plane they were compiled for.    *)
(***************************************************************************)
EXTENDS ShadowDrawing

CONSTANTS
  Windows,   \* sizes of the window
  FarPlanes  \* RESHADE_DEPTH_LINEARIZATION_FAR_PLANE

ASSUME WindowsAssumption ==
  (Windows \cup FarPlanes) \subseteq Nat \ {0} /\ Windows # {} /\ FarPlanes # {}

VARIABLES
  window,              \* windowWidth, windowHeight
  runtime,             \* gRuntime: an effect runtime is attached
  farPlane,            \* gFarPlane
  sceneDepth,          \* the depth texture, what the constants hold, encodedFarPlane
  held,                \* the view ReShade holds as DEPTH: "none", "live" or "gone"
  effectsInBackBuffer, \* reshadeEffectsInBackBuffer
  effectsThisFrame,    \* reshadeEffectsThisFrame
  applied,             \* history: effects on the scene in the back buffer
  rendered,            \* ReShade: something was rendered through it since Present
  shown                \* history: what the last frame showed

frameVars == <<window, runtime, farPlane, sceneDepth, held, effectsInBackBuffer,
               effectsThisFrame, applied, rendered, shown>>
sceneVars == <<shadowVars, frameVars>>

NoDepth == [created |-> FALSE, size |-> 0, constants |-> 0, encoded |-> 0]

\* Of a frame: how often its pixels went through the effects, and whether any
\* were rendered in it.  depth: what the effects last took for the scene's depth
\* was the scene's, at the window's size and for their far plane.
Fine == [times |-> 1, rendered |-> TRUE, depth |-> TRUE]

SceneTypeOK ==
  /\ ShadowsTypeOK
  /\ window \in Windows
  /\ {runtime, effectsInBackBuffer, effectsThisFrame, rendered} \subseteq BOOLEAN
  /\ farPlane \in FarPlanes
  /\ sceneDepth \in [created : BOOLEAN, size : Windows \cup {0},
                     constants : FarPlanes \cup {0}, encoded : FarPlanes \cup {0}]
  /\ held \in {"none", "live", "gone"}
  /\ applied \in 0..1
  /\ shown.times \in 0..2

SceneInit ==
  /\ ShadowsInit
  /\ window = Min(Windows)
  /\ runtime = FALSE
  /\ farPlane = Min(FarPlanes)
  /\ sceneDepth = NoDepth
  /\ held = "none"
  /\ effectsInBackBuffer = FALSE /\ effectsThisFrame = FALSE
  /\ applied = 0 /\ rendered = FALSE
  /\ shown = Fine

-----------------------------------------------------------------------------
(* The device and ReShade's runtime, which comes and goes with it.         *)

\* OnInitEffectRuntime and OnDestroyEffectRuntime, when a swap chain is made or
\* resized; a new runtime has rendered nothing and has effects of its own.
NewRuntime ==
  \/ UNCHANGED <<runtime, farPlane, rendered>>
  \/ /\ city.effects
     /\ runtime' \in BOOLEAN
     /\ IF runtime' THEN farPlane' \in FarPlanes ELSE UNCHANGED farPlane
     /\ rendered' = FALSE

Released(view) == IF view = "live" THEN "gone" ELSE view

\* Mutant of WithoutDepth: what the constants hold is believed of the next ones.
WithoutDepthTexture(depth) == [NoDepth EXCEPT !.encoded = depth.encoded]

\* sceneDepth = SceneDepthPipeline{}.
WithoutDepth(depth) == NoDepth

DestroyD3D11Context ==
  /\ ready \/ pipeline.created
  /\ DestroyShadows
  /\ sceneDepth' = WithoutDepth(sceneDepth)
  /\ held' = IF sceneDepth.size # 0 THEN Released(held) ELSE held
  /\ runtime' = FALSE /\ rendered' = FALSE
  /\ applied' = 0
  /\ UNCHANGED <<window, farPlane, effectsInBackBuffer, effectsThisFrame, shown>>

\* CreateBackBufferTargets, for a new device or at another size: the new back
\* buffer has nothing on it.
CreateBackBufferTargets(size) ==
  /\ CreateTargets
  /\ size # window => city.effects \* bound: nothing else depends on the size
  /\ window' = size
  /\ effectsInBackBuffer' = FALSE
  /\ applied' = 0
  /\ NewRuntime
  /\ UNCHANGED <<sceneDepth, held, effectsThisFrame, shown>>

\* ResizeBackBufferIfNeeded starts by releasing the buffers and may end there.
LoseBackBuffer ==
  /\ LoseTargets
  /\ applied' = 0
  /\ UNCHANGED <<window, runtime, farPlane, sceneDepth, held, effectsInBackBuffer,
                 effectsThisFrame, rendered, shown>>

OnReloadedEffects(far) ==
  /\ runtime
  /\ farPlane' = far /\ far # farPlane
  /\ UNCHANGED shadowVars
  /\ UNCHANGED <<window, runtime, sceneDepth, held, effectsInBackBuffer, effectsThisFrame,
                 applied, rendered, shown>>

-----------------------------------------------------------------------------
(* SC4 draws.                                                              *)

Cleared == effectsInBackBuffer' = FALSE

\* cGDriver::Clear of the color buffer.
ClearColor ==
  /\ ready /\ city.effects \* bound: frames only matter to effects
  /\ Cleared
  /\ applied' = 0
  /\ UNCHANGED shadowVars
  /\ UNCHANGED <<window, runtime, farPlane, sceneDepth, held, effectsThisFrame, rendered,
                 shown>>

\* Anything of the shadows' that is not the end of a scene.
ShadowsOnly ==
  /\ UNCHANGED frameVars
  /\ \/ \E k \in Casters, v \in Versions : CaptureLiveShadowDraw(k, v)
     \/ \E size \in city.sizes : UpdateTerrain(size)
     \/ PausedPass

Encoded(depth) == IF depth.encoded = farPlane THEN depth
                  ELSE [depth EXCEPT !.constants = farPlane, !.encoded = farPlane]

\* UpdateSceneDepth: pipeline, texture and constants, as far as it gets.
UpdateSceneDepth(outcome) ==
  LET made == [sceneDepth EXCEPT !.created = TRUE]
  IN CASE outcome = "pipeline" -> NoDepth
       [] outcome = "texture" -> [made EXCEPT !.size = 0]
       [] outcome = "updated" -> Encoded([made EXCEPT !.size = window])

Outcomes ==
  {"updated"} \cup (IF sceneDepth.created THEN {} ELSE {"pipeline"})
              \cup (IF sceneDepth.size = window THEN {} ELSE {"texture"})

\* The old texture's view is released before a new one is made.
ReleasesView(outcome) == sceneDepth.size # 0 /\ sceneDepth.size # window

\* OnBeginEffects binds DEPTH to a view there is; it is unbound before the next
\* thing can happen to that view.
HeldAfterEffects(outcome) ==
  IF outcome = "updated" THEN "none"
  ELSE IF ReleasesView(outcome) THEN Released(held) ELSE held

\* DrawHook after cSC43DRender::Draw has painted the scene anew, in a pass of
\* its own: RenderSceneEffects.
RenderSceneEffects(shadows, outcome) ==
  /\ shadows
  /\ IF runtime /\ ready
     THEN /\ sceneDepth' = UpdateSceneDepth(outcome)
          /\ held' = HeldAfterEffects(outcome)
          /\ effectsInBackBuffer' = TRUE /\ effectsThisFrame' = TRUE
          /\ applied' = 1
          /\ rendered' = TRUE
          /\ shown' = [shown EXCEPT !.depth =
                         outcome = "updated" => sceneDepth'.size = window
                                                  /\ sceneDepth'.constants = farPlane]
     ELSE /\ outcome = "updated"
          /\ applied' = 0
          /\ UNCHANGED <<sceneDepth, held, effectsInBackBuffer, effectsThisFrame, rendered,
                         shown>>
  /\ UNCHANGED <<window, runtime, farPlane>>

PassEnds(pass) ==
  \/ PassDrawsNothing(pass)
  \/ \E created \in BOOLEAN : PassCannotDraw(pass, created)
  \/ \E S \in SUBSET Casters, R \in city.reaches, shaded \in BOOLEAN :
       \E failed \in Failing(R, shaded) : PassDraws(pass, S, R, shaded, failed)

StaticPass == \E pass \in Passes :
  /\ pass.kind # "dynamic"
  /\ PassEnds(pass)
  /\ UNCHANGED frameVars

SceneEnds == \E pass \in Passes, outcome \in Outcomes :
  /\ pass.kind = "dynamic"
  /\ RenderSceneEffects(PassEnds(pass), outcome)

-----------------------------------------------------------------------------
(* The end of a frame.                                                     *)

\* Mutant of Marks: this frame's effects are not looked at.
MarksNothing == FALSE

\* FinishReShadeFrame renders on no target, so that ReShade counts the frame.
Marks == runtime /\ effectsInBackBuffer /\ ~effectsThisFrame

\* FlushFrame gets as far as Present, with the back buffer there is or, after a
\* resize, an empty one.  ReShade applies its effects to the frame if nothing was
\* rendered through it.
FlushFrame ==
  LET appliedAtPresent == IF runtime /\ ~rendered /\ ~Marks THEN 1 ELSE 0
  IN /\ ready /\ city.effects
     /\ shown' = [shown EXCEPT !.times = applied + appliedAtPresent,
                               !.rendered = rendered \/ ~runtime]
     /\ effectsThisFrame' = FALSE
     /\ rendered' = FALSE
     /\ UNCHANGED shadowVars
     /\ UNCHANGED <<window, runtime, farPlane, sceneDepth, held, effectsInBackBuffer, applied>>

SceneNext ==
  \/ DestroyD3D11Context
  \/ \E size \in Windows : CreateBackBufferTargets(size)
  \/ LoseBackBuffer
  \/ \E far \in FarPlanes : OnReloadedEffects(far)
  \/ ClearColor
  \/ ShadowsOnly
  \/ StaticPass
  \/ SceneEnds
  \/ FlushFrame

SceneSpec == SceneInit /\ [][SceneNext]_sceneVars

-----------------------------------------------------------------------------
\* A capture is drawn from its own place in the arena, with the geometry it was
\* last captured with: no rebuild, device or replaced entry lets a draw read
\* what another caster has put there.
CastersDrawThemselves == composite.casters

\* A prerendered model never shades its own picture and is shaded by every other
\* one: the numbers the pass has drawn lead to its own boxes, not an earlier
\* pass's.
ModelsKnowTheirOwn == composite.owners

\* A pass in which nothing fails makes the self test, whatever failed before it: but
\* not from a pass whose CreateBuffer of the boxes failed up to the next one that
\* needs more boxes than that pass did.
SelfTestComesBack == composite.tested

\* "A prerendered model never shadows itself", in passes in which nothing fails: the
\* claim without that exception, which the boxes' stale capacity refutes.
ModelsNeverShadowThemselves == composite.spared

\* The composite never reads a terrain texture of an earlier map, whichever of
\* the two could be made.
TerrainIsCurrent == composite.terrain

\* A frame's pixels never go through the effects twice, and miss them only if
\* effects were rendered in this frame on something since painted over.
EffectsAppearOnce == shown.times <= 1 /\ (shown.times = 0 => shown.rendered)

\* ReShade never holds a view of the depth texture that the driver has released,
\* and what its effects are given for depth has the window's size and their far
\* plane, after resizes, lost devices and reloaded effects alike.
DepthIsForTheseEffects == held # "gone" /\ shown.depth
=============================================================================
