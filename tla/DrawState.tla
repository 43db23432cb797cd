------------------------------- MODULE DrawState -------------------------------
(***************************************************************************)
(* What draws are made with.  SC4 sets state in any order and draws; a     *)
(* draw uploads only the groups of shader constants that setters marked,   *)
(* and binds only what the driver believes is not bound.  Blits, callbacks *)
(* and passes of the driver's own change the context in between, hooks of  *)
(* Present do so unasked, and uploads may fail.  A belief that is wrong    *)
(* shows only in the picture.                                              *)
(***************************************************************************)
EXTENDS Naturals, Sequences, SequencesExt

CONSTANTS
  Groups,        \* ConstantGroup: groups of shader constants
  Header,        \* CONSTANTS_HEADER, the group that also holds the flags
  Flags,         \* the constants that BindGeometryPipeline works out itself
  Values,        \* of a group, of the flags or of a matrix
  Viewports,
  WholeWindow,   \* the viewport of SetViewport()
  Slots,         \* what draws bind and the driver keeps a belief of
  Pipeline,      \* the input layout and vertex shader (geometryPipelineBound)
  Index,         \* the index buffer, which only indexed draws bind
  RenderStates,  \* what ApplyRenderStates sets, in its order
  Watched,       \* what ForeignContextState compares with the belief
  Overlays,      \* what a hook of Present may leave changed: sets of slots,
                 \* "target" and "viewport"
  Objects,       \* per slot, what draws may bind
  Unknown,       \* no belief; as constantBufferCache, empty
  Other          \* anything that is not the driver's

ASSUME GroupsAssumption == Header \in Groups /\ Flags \notin Groups
ASSUME SlotsAssumption ==
  /\ Pipeline \in Slots /\ Index \in Slots /\ Pipeline # Index
  /\ RenderStates \in Seq(Slots \ {Pipeline, Index})
  /\ Watched \subseteq Slots \ ToSet(RenderStates) /\ Pipeline \in Watched
ASSUME NamesAssumption ==
  /\ WholeWindow \in Viewports /\ Other \notin Viewports
  /\ Unknown # Other
  /\ \A s \in Slots : {Unknown, Other} \cap Objects[s] = {}
  /\ Unknown \notin [Groups \cup {Flags} -> Values]

VARIABLES
  device,      \* "none", "untargeted" (no back buffer) or "ready"
  lost,        \* deviceLost
  state,       \* per group, what the setters have left
  modelView,   \* matrices[MODEL_VIEW]
  inputs,      \* flagInputs a draw would have: textures, lighting, normals
  wanted,      \* per slot, what a draw should bind
  viewport,    \* SC4's
  constantsDirty,
  drawConstantsDirty,
  constantsFlagInputs,
  driverConstants,     \* as last refreshed
  constantBufferCache, \* as last uploaded
  buffer,      \* contents of drawConstantBuffer and stateConstantBuffer
  applied,     \* geometryPipelineBound, appliedPixelShader, ...
  context,     \* what is bound
  drawnRight   \* history: the last draw was made with what SC4 had set

game == <<state, modelView, inputs, wanted>>
constants == <<constantsDirty, drawConstantsDirty, constantsFlagInputs, driverConstants,
               constantBufferCache, buffer>>
vars == <<device, lost, game, viewport, constants, applied, context, drawnRight>>

Fields == Groups \cup {Flags}
Object == UNION {Objects[s] : s \in Slots}
Wanted == {w \in [Slots -> Object] : \A s \in Slots : w[s] \in Objects[s]}

TypeOK ==
  /\ device \in {"none", "untargeted", "ready"}
  /\ lost \in BOOLEAN
  /\ state \in [Groups -> Values] /\ modelView \in Values /\ inputs \in Values
  /\ wanted \in Wanted /\ viewport \in Viewports
  /\ constantsDirty \subseteq Groups
  /\ drawConstantsDirty \in BOOLEAN
  /\ constantsFlagInputs \in Values
  /\ driverConstants \in [Fields -> Values]
  /\ constantBufferCache \in [Fields -> Values] \cup {Unknown}
  /\ buffer \in [draw : Values \cup {Other}, state : [Fields -> Values \cup {Other}]]
  /\ applied \in [Slots -> Object \cup {Unknown}]
  /\ context \in [slots : [Slots -> Object \cup {Other}], target : BOOLEAN,
                 viewport : Viewports \cup {Other}]
  /\ drawnRight \in BOOLEAN

NoBeliefs == [s \in Slots |-> Unknown]
Cleared == [slots |-> [s \in Slots |-> Other], target |-> FALSE, viewport |-> Other]
NewBuffers == [draw |-> Other, state |-> [f \in Fields |-> Other]]

Init ==
  /\ device = "none" /\ lost = FALSE
  /\ \E v \in Values :
       /\ state = [g \in Groups |-> v] /\ modelView = v /\ inputs = v
       /\ constantsFlagInputs = v /\ driverConstants = [f \in Fields |-> v]
  /\ wanted \in Wanted
  /\ viewport = WholeWindow
  /\ constantsDirty = Groups /\ drawConstantsDirty = TRUE
  /\ constantBufferCache = Unknown /\ buffer = NewBuffers
  /\ applied = NoBeliefs /\ context = Cleared
  /\ drawnRight = TRUE

-----------------------------------------------------------------------------
(* SC4 sets state.                                                         *)

\* SetConstant marks a group when its bytes change.
Marked(new) == constantsDirty \cup {g \in Groups : new[g] # state[g]}

\* Any setter of shader constants: one call may set several groups.
SetConstants(new) ==
  /\ state' = new
  /\ constantsDirty' = Marked(new)
  /\ UNCHANGED <<device, lost, modelView, inputs, wanted, viewport, drawConstantsDirty,
                 constantsFlagInputs, driverConstants, constantBufferCache, buffer,
                 applied, context, drawnRight>>

\* LoadMatrix, in model-view mode.
LoadMatrix(m) ==
  /\ modelView' = m
  /\ drawConstantsDirty' = (drawConstantsDirty \/ m # modelView)
  /\ UNCHANGED <<device, lost, state, inputs, wanted, viewport, constantsDirty,
                 constantsFlagInputs, driverConstants, constantBufferCache, buffer,
                 applied, context, drawnRight>>

\* Textures, texture stages and vertex formats mark nothing.
ChangeInputs(i) ==
  /\ inputs' = i
  /\ UNCHANGED <<device, lost, state, modelView, wanted, viewport, constants, applied,
                 context, drawnRight>>

\* Capabilities, blending, depth, shading, primitives, textures and uploads.
Choose(s, v) ==
  /\ wanted' = [wanted EXCEPT ![s] = v]
  /\ UNCHANGED <<device, lost, state, modelView, inputs, viewport, constants, applied,
                 context, drawnRight>>

\* SetViewport, which needs a device but no targets to reach the context.
SetViewport(v) ==
  /\ viewport' = v
  /\ context' = IF device = "none" THEN context ELSE [context EXCEPT !.viewport = v]
  /\ UNCHANGED <<device, lost, game, constants, applied, drawnRight>>

-----------------------------------------------------------------------------
(* BindGeometryPipeline: constants first, then bindings, then the render   *)
(* states, whose objects may have to be created.                           *)

\* The constants a rebuild from everything SC4 has set would give.
Fresh == [f \in Fields |-> IF f = Flags THEN inputs ELSE state[f]]

InGroups(f, G) == IF f = Flags THEN Header \in G ELSE f \in G

\* Mutant of ToRefresh: an upload that failed leaves only the marked groups.
ToRefreshMarked ==
  constantsDirty \cup (IF inputs # constantsFlagInputs THEN {Header} ELSE {})

\* dirty, once inputs no setter marks are looked at.
ToRefresh ==
  IF constantBufferCache = Unknown THEN Groups
  ELSE constantsDirty \cup (IF inputs # constantsFlagInputs THEN {Header} ELSE {})

Refreshed ==
  [f \in Fields |-> IF InGroups(f, ToRefresh) THEN Fresh[f] ELSE driverConstants[f]]

HasChanged ==
  constantBufferCache # Unknown =>
    \E f \in Fields : InGroups(f, ToRefresh) /\ Refreshed[f] # constantBufferCache[f]

\* Mapping the constant buffer fails: everything is uploaded by the next draw.
NotUploaded ==
  /\ driverConstants' = Refreshed
  /\ constantBufferCache' = Unknown
  /\ UNCHANGED <<constantsDirty, constantsFlagInputs>>

CanDraw == device = "ready" /\ ~lost

\* A failed Map may be how the driver learns of a lost device.
DrawWithoutDrawConstants(loses) ==
  /\ CanDraw
  /\ drawConstantsDirty
  /\ lost' = loses
  /\ UNCHANGED <<device, game, viewport, constants, applied, context, drawnRight>>

DrawWithoutConstants(loses) ==
  /\ CanDraw
  /\ HasChanged
  /\ lost' = loses
  /\ NotUploaded
  /\ drawConstantsDirty' = FALSE
  /\ buffer' = [buffer EXCEPT !.draw = IF drawConstantsDirty THEN modelView ELSE @]
  /\ UNCHANGED <<device, game, viewport, applied, context, drawnRight>>

\* Both constant buffers after a draw that got past them.
UploadConstants ==
  /\ drawConstantsDirty' = FALSE
  /\ constantsDirty' = {}
  /\ constantsFlagInputs' = inputs
  /\ driverConstants' = Refreshed
  /\ constantBufferCache' = IF HasChanged THEN Refreshed ELSE constantBufferCache
  /\ buffer' = [draw |-> IF drawConstantsDirty THEN modelView ELSE buffer.draw,
                state |-> IF HasChanged THEN Refreshed ELSE buffer.state]

\* Whatever of S the driver does not believe to be bound is bound.
BindSlots(S) ==
  /\ applied' = [s \in Slots |-> IF s \in S THEN wanted[s] ELSE applied[s]]
  /\ context' = [context EXCEPT !.slots =
       [s \in Slots |-> IF s \in S /\ applied[s] # wanted[s] THEN wanted[s] ELSE @[s]]]

AlwaysBound == Slots \ (ToSet(RenderStates) \cup {Index})

\* The n-th render state is needed and cannot be created: those before it are
\* set, and nothing is drawn.  Whether its object exists already is left out.
DrawWithoutRenderState(n) ==
  /\ CanDraw
  /\ applied[RenderStates[n]] # wanted[RenderStates[n]]
  /\ UploadConstants
  /\ BindSlots(AlwaysBound \cup {RenderStates[i] : i \in 1 .. n - 1})
  /\ UNCHANGED <<device, lost, game, viewport, drawnRight>>

\* SC4's draw, with everything it set before.
Draw(indexed) ==
  LET used == IF indexed THEN Slots ELSE Slots \ {Index}
  IN /\ CanDraw
     /\ UploadConstants
     /\ BindSlots(used)
     /\ drawnRight' = /\ buffer'.draw = modelView /\ buffer'.state = Fresh
                      /\ \A s \in used : context'.slots[s] = wanted[s]
                      /\ context.target /\ context.viewport = viewport
     /\ UNCHANGED <<device, lost, game, viewport>>

-----------------------------------------------------------------------------
(* Who else uses the context.                                              *)

\* Mutant of InvalidateD3D11StateCache: render states are taken to be still set.
InvalidateBindingsOnly ==
  applied' = [s \in Slots |-> IF s \in ToSet(RenderStates) THEN applied[s] ELSE Unknown]

InvalidateD3D11StateCache == applied' = NoBeliefs

\* ClearState, the driver's targets and SC4's viewport.
Owned == [Cleared EXCEPT !.target = TRUE, !.viewport = viewport]

\* RestoreOwnedContextState, as it ends frame callbacks, scene effects, live
\* shadows and the frame rate counter.
RestoreOwnedContextState ==
  /\ device = "ready"
  /\ context' = Owned
  /\ InvalidateD3D11StateCache
  /\ UNCHANGED <<device, lost, game, viewport, constants, drawnRight>>

\* DrawBlit puts the viewport back, and has the rest bound again.
DrawBlit ==
  /\ CanDraw
  /\ context' = [context EXCEPT !.slots = [s \in Slots |-> IF s = Index THEN @[s] ELSE Other]]
  /\ InvalidateD3D11StateCache
  /\ UNCHANGED <<device, lost, game, viewport, constants, drawnRight>>

\* The index and vertex buffers are only compared when there is a belief.
ForeignContextState(c) ==
  \/ ~c.target \/ c.viewport # viewport
  \/ /\ applied[Pipeline] # Unknown
     /\ \E s \in Watched : applied[s] # Unknown /\ c.slots[s] # applied[s]

(***************************************************************************)
(* What the driver relies on of hooks: one that changes anything changes   *)
(* something that is always compared, or nothing that is not.              *)
(***************************************************************************)
OverlaysShow ==
  \A o \in Overlays :
    \/ o \subseteq Watched
    \/ o \cap ({"target", "viewport"} \cup (Watched \ {Index})) # {}

\* The context once a hook has changed what is in o.
Overlaid(o) ==
  [slots |-> [s \in Slots |-> IF s \in o THEN Other ELSE context.slots[s]],
   target |-> context.target /\ "target" \notin o,
   viewport |-> IF "viewport" \in o THEN Other ELSE context.viewport]

\* The end of Flush: Present, with its hooks, succeeds.
Present(o) ==
  /\ CanDraw
  /\ IF ForeignContextState(Overlaid(o))
       THEN context' = Owned /\ InvalidateD3D11StateCache
       ELSE context' = Overlaid(o) /\ UNCHANGED applied
  /\ UNCHANGED <<device, lost, game, viewport, constants, drawnRight>>

\* Present fails, or Map in DrawBlit, and the device may turn out to be lost.  A hook
\* is taken to leave the context alone in a Present that fails.
PresentOrBlitFails(loses) ==
  /\ CanDraw
  /\ lost' = loses
  /\ UNCHANGED <<device, game, viewport, constants, applied, context, drawnRight>>

\* ResizeBackBufferIfNeeded: the new targets may not be created.
ResizeBackBuffer(created, loses) ==
  /\ device # "none" /\ ~lost
  /\ device' = IF created THEN "ready" ELSE "untargeted"
  /\ lost' = loses
  /\ viewport' = IF created THEN WholeWindow ELSE viewport
  /\ context' = IF created THEN [Cleared EXCEPT !.target = TRUE, !.viewport = WholeWindow] ELSE Cleared
  /\ InvalidateD3D11StateCache
  /\ UNCHANGED <<game, constants, drawnRight>>

-----------------------------------------------------------------------------
(* The device.                                                             *)

\* What setters marked, and the flag inputs, stay as they are.
DestroyD3D11Context ==
  /\ device # "none"
  /\ device' = "none"
  /\ context' = Cleared /\ buffer' = NewBuffers
  /\ InvalidateD3D11StateCache
  /\ drawConstantsDirty' = TRUE
  /\ constantBufferCache' = Unknown
  /\ UNCHANGED <<lost, game, viewport, constantsDirty, constantsFlagInputs, driverConstants,
                 drawnRight>>

\* SetVideoMode, as far as the targets.
CreateD3D11Context ==
  /\ device = "none"
  /\ device' = "ready" /\ lost' = FALSE
  /\ viewport' = WholeWindow
  /\ context' = [Cleared EXCEPT !.target = TRUE, !.viewport = WholeWindow]
  /\ UNCHANGED <<game, constants, applied, drawnRight>>

Next ==
  \/ \E new \in [Groups -> Values] : SetConstants(new)
  \/ \E v \in Values : LoadMatrix(v) \/ ChangeInputs(v)
  \/ \E s \in Slots : \E v \in Objects[s] : Choose(s, v)
  \/ \E v \in Viewports : SetViewport(v)
  \/ \E loses \in BOOLEAN : DrawWithoutDrawConstants(loses) \/ DrawWithoutConstants(loses)
  \/ \E n \in 1 .. Len(RenderStates) : DrawWithoutRenderState(n)
  \/ \E indexed \in BOOLEAN : Draw(indexed)
  \/ RestoreOwnedContextState
  \/ DrawBlit
  \/ \E o \in Overlays : Present(o)
  \/ \E loses \in BOOLEAN : PresentOrBlitFails(loses)
  \/ \E created \in BOOLEAN, loses \in BOOLEAN : ResizeBackBuffer(created, loses)
  \/ DestroyD3D11Context
  \/ CreateD3D11Context

Spec == Init /\ [][Next]_vars

-----------------------------------------------------------------------------
\* Whatever failed, was interrupted or used the context before it, a draw is
\* made with the state SC4 has set, into the driver's target.
DrawsUseCurrentState == drawnRight

\* A belief about the context is right: a binding is only left out because it is
\* there.
BelievedIsBound ==
  \A s \in Slots : applied[s] # Unknown => context.slots[s] = applied[s]

\* "Groups not marked dirty are current", on the CPU and, once uploaded, in the
\* GPU's buffer.
CleanGroupsAreCurrent ==
  \A f \in Groups \ constantsDirty :
    /\ driverConstants[f] = state[f]
    /\ constantBufferCache # Unknown => buffer.state[f] = state[f]

\* ForeignContextState looks no further than targets and viewport while
\* geometryPipelineBound is false: then nothing is believed that a hook could
\* have changed.
UnboundPipelineMeansNoBelief ==
  applied[Pipeline] = Unknown => applied = NoBeliefs
================================================================================
