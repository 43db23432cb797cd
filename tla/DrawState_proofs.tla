---------------------------- MODULE DrawState_proofs ----------------------------
(***************************************************************************)
(* Draws are made with what SC4 has set, proved for any groups, slots and  *)
(* render states, when hooks of Present show what they change.             *)
(***************************************************************************)
EXTENDS DrawState, TLAPS

(***************************************************************************)
(* The strengthening that is inductive.  A group that is not marked may be *)
(* left out of a refresh because what was refreshed last is still right,   *)
(* and of an upload because the cache is what the buffer holds; the flags  *)
(* are right for the inputs of the draw that built them.  Beliefs come     *)
(* and go together, which is why an unbound pipeline says there are none.  *)
(***************************************************************************)
Refreshes ==
  \A f \in Groups \ constantsDirty : driverConstants[f] = state[f]

CacheIsUploaded ==
  constantBufferCache # Unknown =>
    /\ buffer.state = constantBufferCache
    /\ \A f \in Groups \ constantsDirty : constantBufferCache[f] = state[f]
    /\ Header \notin constantsDirty =>
         /\ driverConstants[Flags] = constantsFlagInputs
         /\ constantBufferCache[Flags] = constantsFlagInputs

ConstantsAreSafe ==
  /\ Refreshes
  /\ CacheIsUploaded
  /\ ~drawConstantsDirty => buffer.draw = modelView

BeliefsAreSafe ==
  /\ BelievedIsBound
  /\ UnboundPipelineMeansNoBelief
  /\ applied[Pipeline] # Unknown => \A s \in AlwaysBound : applied[s] # Unknown
  /\ device = "none" => applied = NoBeliefs
  /\ device = "ready" => context.target /\ context.viewport = viewport

DrawsAreSafe ==
  /\ TypeOK
  /\ ConstantsAreSafe
  /\ BeliefsAreSafe
  /\ DrawsUseCurrentState

-----------------------------------------------------------------------------
(* Constants.                                                              *)

\* What a draw that gets past the constants leaves in them.
LEMMA RefreshedIsFresh ==
  ASSUME TypeOK, ConstantsAreSafe, NEW f \in Fields,
         constantBufferCache # Unknown \/ f # Flags \/ Header \in ToRefresh
  PROVE  Refreshed[f] = Fresh[f]
<1>1. CASE f = Flags
  <2>1. CASE Header \in ToRefresh
    BY <1>1, <2>1 DEF Refreshed, InGroups, Fields
  <2>2. CASE Header \notin ToRefresh
    <3>1. constantBufferCache # Unknown /\ Header \notin constantsDirty /\ inputs = constantsFlagInputs
      BY <1>1, <2>2, GroupsAssumption DEF ToRefresh
    <3> QED
      BY <1>1, <2>2, <3>1 DEF Refreshed, InGroups, Fields, Fresh, ConstantsAreSafe, CacheIsUploaded
  <2> QED
    BY <2>1, <2>2
<1>2. CASE f # Flags
  <2>1. f \in Groups
    BY <1>2 DEF Fields
  <2>2. CASE f \in ToRefresh
    BY <1>2, <2>1, <2>2 DEF Refreshed, InGroups, Fields
  <2>3. CASE f \notin ToRefresh
    <3>1. f \notin constantsDirty
      BY <2>1, <2>3 DEF ToRefresh, TypeOK
    <3> QED
      BY <1>2, <2>1, <2>3, <3>1 DEF Refreshed, InGroups, Fields, Fresh, ConstantsAreSafe, Refreshes
  <2> QED
    BY <2>2, <2>3
<1> QED
  BY <1>1, <1>2

\* After every refresh the constants are those of a rebuild from scratch.
LEMMA RefreshedIsRebuilt ==
  ASSUME TypeOK, ConstantsAreSafe
  PROVE  /\ Refreshed = Fresh
         /\ Refreshed \in [Fields -> Values]
<1>1. \A f \in Fields : Refreshed[f] = Fresh[f]
  <2>1. CASE constantBufferCache # Unknown
    BY <2>1, RefreshedIsFresh
  <2>2. CASE constantBufferCache = Unknown
    <3>1. Header \in ToRefresh
      BY <2>2, GroupsAssumption DEF ToRefresh
    <3> QED
      BY <3>1, RefreshedIsFresh
  <2> QED
    BY <2>1, <2>2
<1>2. Refreshed = Fresh
  BY <1>1 DEF Refreshed, Fresh
<1>3. Fresh \in [Fields -> Values]
  BY DEF Fresh, Fields, TypeOK
<1> QED
  BY <1>2, <1>3

\* A draw that uploads nothing finds the rebuild in the buffer already.
LEMMA UnchangedIsUploaded ==
  ASSUME TypeOK, ConstantsAreSafe, ~HasChanged
  PROVE  constantBufferCache = Fresh /\ buffer.state = Fresh
<1>1. constantBufferCache # Unknown
  BY DEF HasChanged
<1>2. constantBufferCache \in [Fields -> Values]
  BY <1>1 DEF TypeOK
<1>3. ASSUME NEW f \in Fields PROVE constantBufferCache[f] = Fresh[f]
  <2>1. CASE InGroups(f, ToRefresh)
    BY <1>1, <2>1, RefreshedIsRebuilt DEF HasChanged
  <2>2. CASE ~InGroups(f, ToRefresh) /\ f = Flags
    <3>1. Header \notin constantsDirty /\ inputs = constantsFlagInputs
      BY <1>1, <2>2, GroupsAssumption DEF ToRefresh, InGroups
    <3> QED
      BY <1>1, <2>2, <3>1 DEF ConstantsAreSafe, CacheIsUploaded, Fresh, Fields
  <2>3. CASE ~InGroups(f, ToRefresh) /\ f # Flags
    <3>1. f \in Groups \ constantsDirty
      BY <1>1, <2>3 DEF ToRefresh, InGroups, Fields
    <3> QED
      BY <1>1, <2>3, <3>1 DEF ConstantsAreSafe, CacheIsUploaded, Fresh, Fields
  <2> QED
    BY <2>1, <2>2, <2>3
<1>4. constantBufferCache = Fresh
  BY <1>2, <1>3 DEF Fresh
<1> QED
  BY <1>1, <1>4 DEF ConstantsAreSafe, CacheIsUploaded

\* Both constant buffers hold what SC4 has set once a draw got past them.
LEMMA UploadedIsFresh ==
  ASSUME TypeOK, ConstantsAreSafe, UploadConstants, UNCHANGED game
  PROVE  /\ buffer'.draw = modelView /\ buffer'.state = Fresh
         /\ constantBufferCache' = Fresh /\ driverConstants' = Fresh
         /\ buffer' \in [draw : Values \cup {Other}, state : [Fields -> Values \cup {Other}]]
         /\ ConstantsAreSafe'
<1>1. Refreshed = Fresh /\ Fresh \in [Fields -> Values]
  BY RefreshedIsRebuilt
<1>2. constantBufferCache' = Fresh /\ driverConstants' = Fresh /\ buffer'.state = Fresh
  <2>1. CASE HasChanged
    BY <1>1, <2>1 DEF UploadConstants
  <2>2. CASE ~HasChanged
    BY <1>1, <2>2, UnchangedIsUploaded DEF UploadConstants
  <2> QED
    BY <2>1, <2>2
<1>3. buffer'.draw = modelView /\ modelView \in Values
  BY DEF UploadConstants, ConstantsAreSafe, TypeOK
<1>4. buffer' = [draw |-> buffer'.draw, state |-> buffer'.state]
  BY DEF UploadConstants
<1>5. \A f \in Groups : Fresh[f] = state[f]
  BY GroupsAssumption DEF Fresh, Fields
<1>6. Fresh[Flags] = inputs
  BY DEF Fresh, Fields
<1>7. ConstantsAreSafe'
  BY <1>2, <1>3, <1>5, <1>6
     DEF ConstantsAreSafe, Refreshes, CacheIsUploaded, UploadConstants, game
<1> QED
  BY <1>1, <1>2, <1>3, <1>4, <1>7

-----------------------------------------------------------------------------
(* Bindings.                                                               *)

\* Every draw binds the pipeline, and so has a belief of it.
LEMMA PipelineIsAlwaysBound == Pipeline \in AlwaysBound
<1>1. ToSet(RenderStates) \subseteq Slots \ {Pipeline, Index}
  BY SlotsAssumption DEF ToSet
<1> QED
  BY <1>1, SlotsAssumption DEF AlwaysBound

\* An object a draw wants is one of its slot's, and so is neither of the names.
LEMMA WantedIsAnObject ==
  ASSUME TypeOK, NEW s \in Slots
  PROVE  /\ wanted[s] \in Objects[s] /\ wanted[s] \in Object
         /\ wanted[s] # Unknown /\ wanted[s] # Other
BY NamesAssumption DEF TypeOK, Wanted, Object

\* Binding what is not believed to be bound leaves all of S bound and believed.
LEMMA BindingIsSafe ==
  ASSUME TypeOK, BeliefsAreSafe, device = "ready", UNCHANGED <<device, game, viewport>>,
         NEW S \in SUBSET Slots, AlwaysBound \subseteq S, BindSlots(S)
  PROVE  /\ \A s \in S : context'.slots[s] = wanted[s]
         /\ BeliefsAreSafe'
         /\ applied' \in [Slots -> Object \cup {Unknown}]
         /\ context' \in [slots : [Slots -> Object \cup {Other}], target : BOOLEAN,
                          viewport : Viewports \cup {Other}]
<1> DEFINE bound == [s \in Slots |->
                       IF s \in S /\ applied[s] # wanted[s] THEN wanted[s] ELSE context.slots[s]]
<1>1. context' = [context EXCEPT !.slots = bound]
  BY DEF BindSlots
<1>2. /\ context'.slots = bound /\ context'.target = context.target
      /\ context'.viewport = context.viewport
  BY <1>1 DEF TypeOK
<1>3. bound \in [Slots -> Object \cup {Other}]
  BY WantedIsAnObject DEF TypeOK
<1>4. context' \in [slots : [Slots -> Object \cup {Other}], target : BOOLEAN,
                    viewport : Viewports \cup {Other}]
  BY <1>1, <1>3 DEF TypeOK
<1>5. applied' \in [Slots -> Object \cup {Unknown}]
  BY WantedIsAnObject DEF BindSlots, TypeOK
<1>6. ASSUME NEW s \in S PROVE context'.slots[s] = wanted[s]
  <2>1. CASE applied[s] = wanted[s]
    BY <1>2, <2>1, WantedIsAnObject DEF BeliefsAreSafe, BelievedIsBound
  <2>2. CASE applied[s] # wanted[s]
    BY <1>2, <2>2
  <2> QED
    BY <2>1, <2>2
<1>7. BelievedIsBound'
  <2> SUFFICES ASSUME NEW s \in Slots, applied'[s] # Unknown
               PROVE  context'.slots[s] = applied'[s]
    BY DEF BelievedIsBound
  <2>1. CASE s \in S
    BY <1>6, <2>1 DEF BindSlots
  <2>2. CASE s \notin S
    BY <1>2, <2>2 DEF BindSlots, BeliefsAreSafe, BelievedIsBound
  <2> QED
    BY <2>1, <2>2
<1>8. \A s \in AlwaysBound : applied'[s] # Unknown
  BY WantedIsAnObject DEF BindSlots
<1>9. applied'[Pipeline] # Unknown
  BY <1>8, PipelineIsAlwaysBound
<1>10. BeliefsAreSafe'
  BY <1>2, <1>7, <1>8, <1>9 DEF BeliefsAreSafe, UnboundPipelineMeansNoBelief
<1> QED
  BY <1>4, <1>5, <1>6, <1>10

\* A context of the driver's own, or one without any targets, about which
\* nothing is believed.
LEMMA NoBeliefsAreSafe ==
  ASSUME TypeOK', applied' = NoBeliefs,
         device' = "ready" => context'.target /\ context'.viewport = viewport'
  PROVE  BeliefsAreSafe'
<1>1. \A s \in Slots : applied'[s] = Unknown
  BY DEF NoBeliefs
<1> QED
  BY <1>1, SlotsAssumption DEF BeliefsAreSafe, BelievedIsBound, UnboundPipelineMeansNoBelief

\* What ClearState leaves, and the driver's targets and a viewport after it.
LEMMA ClearedIsTyped ==
  /\ Cleared \in [slots : [Slots -> Object \cup {Other}], target : BOOLEAN,
                  viewport : Viewports \cup {Other}]
  /\ \A v \in Viewports :
       /\ [Cleared EXCEPT !.target = TRUE, !.viewport = v]
            \in [slots : [Slots -> Object \cup {Other}], target : BOOLEAN,
                 viewport : Viewports \cup {Other}]
       /\ [Cleared EXCEPT !.target = TRUE, !.viewport = v].target
       /\ [Cleared EXCEPT !.target = TRUE, !.viewport = v].viewport = v
BY DEF Cleared

\* Losing every belief is well typed.
LEMMA NoBeliefsAreTyped == NoBeliefs \in [Slots -> Object \cup {Unknown}]
BY DEF NoBeliefs

\* A hook that shows what it changes is noticed unless it changed nothing the
\* driver has a belief of.
LEMMA UnnoticedIsHarmless ==
  ASSUME TypeOK, BeliefsAreSafe, OverlaysShow, device = "ready",
         NEW o \in Overlays, ~ForeignContextState(Overlaid(o))
  PROVE  /\ "target" \notin o /\ "viewport" \notin o
         /\ \A s \in Slots : applied[s] # Unknown => Overlaid(o).slots[s] = applied[s]
<1>1. \A s \in Slots : applied[s] # Other
  <2> SUFFICES ASSUME NEW s \in Slots, applied[s] = Other PROVE FALSE
    OBVIOUS
  <2>1. Other \in Object
    BY NamesAssumption DEF TypeOK
  <2> QED
    BY <2>1, NamesAssumption DEF Object
<1>2. /\ Overlaid(o).target = (context.target /\ "target" \notin o)
      /\ Overlaid(o).viewport = IF "viewport" \in o THEN Other ELSE context.viewport
      /\ Overlaid(o).slots = [s \in Slots |-> IF s \in o THEN Other ELSE context.slots[s]]
  BY DEF Overlaid
<1>3. "target" \notin o
  BY <1>2 DEF ForeignContextState
<1>4. "viewport" \notin o
  BY <1>2, NamesAssumption DEF ForeignContextState, TypeOK
<1>5. ASSUME NEW s \in Slots, applied[s] # Unknown
      PROVE  Overlaid(o).slots[s] = applied[s]
  <2>1. applied[Pipeline] # Unknown
    BY <1>5 DEF BeliefsAreSafe, UnboundPipelineMeansNoBelief, NoBeliefs
  <2>2. CASE s \notin o
    BY <1>2, <1>5, <2>2 DEF BeliefsAreSafe, BelievedIsBound
  <2>3. CASE s \in o /\ o \subseteq Watched
    BY <1>5, <2>1, <2>3 DEF ForeignContextState
  <2>4. CASE o \cap (Watched \ {Index}) # {}
    <3>1. PICK w \in Watched \ {Index} : w \in o
      BY <2>4
    <3>2. CASE applied[w] # Unknown
      <4>1. Overlaid(o).slots[w] = Other /\ w \in Slots
        BY <1>2, <3>1, SlotsAssumption
      <4> QED
        BY <1>1, <2>1, <3>1, <3>2, <4>1 DEF ForeignContextState
    <3>3. CASE applied[w] = Unknown
      <4>1. w \in AlwaysBound
        BY <3>1, SlotsAssumption DEF AlwaysBound
      <4> QED
        BY <2>1, <3>3, <4>1 DEF BeliefsAreSafe
    <3> QED
      BY <3>2, <3>3
  <2> QED
    BY <1>3, <1>4, <2>2, <2>3, <2>4 DEF OverlaysShow
<1> QED
  BY <1>3, <1>4, <1>5

-----------------------------------------------------------------------------
(* One lemma for each kind of step.                                        *)

\* Nothing is marked clean, believed or drawn at the start.
LEMMA InitIsSafe ==
  ASSUME Init
  PROVE  DrawsAreSafe
<1>1. TypeOK
  <2>1. wanted \in Wanted /\ viewport \in Viewports
    BY NamesAssumption DEF Init
  <2>2. context \in [slots : [Slots -> Object \cup {Other}], target : BOOLEAN,
                     viewport : Viewports \cup {Other}]
    BY ClearedIsTyped DEF Init
  <2>3. applied \in [Slots -> Object \cup {Unknown}]
    BY NoBeliefsAreTyped DEF Init
  <2> QED
    BY <2>1, <2>2, <2>3 DEF Init, TypeOK, NewBuffers, Fields
<1>2. ConstantsAreSafe
  BY DEF Init, ConstantsAreSafe, Refreshes, CacheIsUploaded
<1>3. BeliefsAreSafe
  <2>1. \A s \in Slots : applied[s] = Unknown
    BY DEF Init, NoBeliefs
  <2> QED
    BY <2>1, SlotsAssumption
       DEF Init, BeliefsAreSafe, BelievedIsBound, UnboundPipelineMeansNoBelief
<1> QED
  BY <1>1, <1>2, <1>3 DEF DrawsAreSafe, Init, DrawsUseCurrentState

\* Constants are safe as long as neither they nor what setters left change.
LEMMA ConstantsStay ==
  ASSUME ConstantsAreSafe, UNCHANGED <<state, modelView, constants>>
  PROVE  ConstantsAreSafe'
BY DEF ConstantsAreSafe, Refreshes, CacheIsUploaded, constants

\* Beliefs are safe as long as neither they nor the context change.
LEMMA BeliefsStay ==
  ASSUME BeliefsAreSafe, UNCHANGED <<device, viewport, applied, context>>
  PROVE  BeliefsAreSafe'
BY DEF BeliefsAreSafe, BelievedIsBound, UnboundPipelineMeansNoBelief

\* SC4's setters: what changes is marked, or is looked at by every draw.
LEMMA SettersAreSafe ==
  ASSUME DrawsAreSafe,
         \/ \E new \in [Groups -> Values] : SetConstants(new)
         \/ \E v \in Values : LoadMatrix(v) \/ ChangeInputs(v)
         \/ \E s \in Slots : \E v \in Objects[s] : Choose(s, v)
         \/ \E v \in Viewports : SetViewport(v)
  PROVE  DrawsAreSafe'
<1> USE DEF DrawsAreSafe
<1>1. ASSUME NEW new \in [Groups -> Values], SetConstants(new)
      PROVE  DrawsAreSafe'
  <2>1. TypeOK'
    BY <1>1 DEF SetConstants, Marked, TypeOK
  <2>2. ConstantsAreSafe'
    <3>1. \A f \in Groups \ constantsDirty' : f \notin constantsDirty /\ state'[f] = state[f]
      BY <1>1 DEF SetConstants, Marked
    <3>2. Header \notin constantsDirty' => Header \notin constantsDirty
      BY <1>1 DEF SetConstants, Marked
    <3> QED
      BY <1>1, <3>1, <3>2 DEF SetConstants, ConstantsAreSafe, Refreshes, CacheIsUploaded
  <2> QED
    BY <1>1, <2>1, <2>2, BeliefsStay DEF SetConstants, DrawsUseCurrentState
<1>2. ASSUME NEW v \in Values, LoadMatrix(v)
      PROVE  DrawsAreSafe'
  <2>1. TypeOK'
    BY <1>2 DEF LoadMatrix, TypeOK
  <2>2. ConstantsAreSafe'
    BY <1>2 DEF LoadMatrix, ConstantsAreSafe, Refreshes, CacheIsUploaded
  <2> QED
    BY <1>2, <2>1, <2>2, BeliefsStay DEF LoadMatrix, DrawsUseCurrentState
<1>3. ASSUME NEW v \in Values, ChangeInputs(v)
      PROVE  DrawsAreSafe'
  <2>1. TypeOK'
    BY <1>3 DEF ChangeInputs, constants, TypeOK
  <2> QED
    BY <1>3, <2>1, ConstantsStay, BeliefsStay DEF ChangeInputs, DrawsUseCurrentState
<1>4. ASSUME NEW s \in Slots, NEW v \in Objects[s], Choose(s, v)
      PROVE  DrawsAreSafe'
  <2>1. wanted' \in Wanted
    <3>1. wanted \in [Slots -> Object] /\ \A t \in Slots : wanted[t] \in Objects[t]
      BY DEF TypeOK, Wanted
    <3>2. v \in Object
      BY <1>4 DEF Object
    <3> QED
      BY <1>4, <3>1, <3>2 DEF Choose, Wanted
  <2>2. TypeOK'
    BY <1>4, <2>1 DEF Choose, constants, TypeOK
  <2> QED
    BY <1>4, <2>2, ConstantsStay, BeliefsStay DEF Choose, DrawsUseCurrentState
<1>5. ASSUME NEW v \in Viewports, SetViewport(v)
      PROVE  DrawsAreSafe'
  <2>1. /\ context'.slots = context.slots /\ context'.target = context.target
        /\ device # "none" => context'.viewport = v
        /\ context' \in [slots : [Slots -> Object \cup {Other}], target : BOOLEAN,
                          viewport : Viewports \cup {Other}]
    BY <1>5 DEF SetViewport, TypeOK
  <2>2. TypeOK'
    BY <1>5, <2>1 DEF SetViewport, game, constants, TypeOK
  <2>3. BeliefsAreSafe'
    BY <1>5, <2>1
       DEF SetViewport, BeliefsAreSafe, BelievedIsBound, UnboundPipelineMeansNoBelief
  <2> QED
    BY <1>5, <2>2, <2>3, ConstantsStay DEF SetViewport, game, DrawsUseCurrentState
<1> QED
  BY <1>1, <1>2, <1>3, <1>4, <1>5

\* A draw that fails in its constants has not changed a binding, and leaves
\* constants the next draw completes.
LEMMA FailedUploadsAreSafe ==
  ASSUME DrawsAreSafe, NEW loses \in BOOLEAN,
         DrawWithoutDrawConstants(loses) \/ DrawWithoutConstants(loses)
  PROVE  DrawsAreSafe'
<1> USE DEF DrawsAreSafe
<1>1. CASE DrawWithoutDrawConstants(loses)
  <2>1. TypeOK'
    BY <1>1 DEF DrawWithoutDrawConstants, game, constants, TypeOK
  <2> QED
    BY <1>1, <2>1, ConstantsStay, BeliefsStay
       DEF DrawWithoutDrawConstants, game, DrawsUseCurrentState
<1>2. CASE DrawWithoutConstants(loses)
  <2>1. driverConstants' = Fresh /\ driverConstants' \in [Fields -> Values]
    BY <1>2, RefreshedIsRebuilt DEF DrawWithoutConstants, NotUploaded
  <2>2. /\ buffer'.draw = modelView
        /\ buffer' \in [draw : Values \cup {Other}, state : [Fields -> Values \cup {Other}]]
    BY <1>2 DEF DrawWithoutConstants, ConstantsAreSafe, TypeOK
  <2>3. TypeOK'
    BY <1>2, <2>1, <2>2 DEF DrawWithoutConstants, NotUploaded, game, TypeOK
  <2>4. ConstantsAreSafe'
    <3>1. \A f \in Groups : Fresh[f] = state[f]
      BY GroupsAssumption DEF Fresh, Fields
    <3> QED
      BY <1>2, <2>1, <2>2, <3>1
         DEF DrawWithoutConstants, NotUploaded, game, ConstantsAreSafe, Refreshes, CacheIsUploaded
  <2> QED
    BY <1>2, <2>3, <2>4, BeliefsStay DEF DrawWithoutConstants, DrawsUseCurrentState
<1> QED
  BY <1>1, <1>2

\* A draw that lacks a render state has bound what it needs before it.
LEMMA DrawWithoutRenderStateIsSafe ==
  ASSUME DrawsAreSafe, NEW n \in 1 .. Len(RenderStates), DrawWithoutRenderState(n)
  PROVE  DrawsAreSafe'
<1> DEFINE S == AlwaysBound \cup {RenderStates[i] : i \in 1 .. n - 1}
<1>1. S \subseteq Slots
  BY SlotsAssumption DEF AlwaysBound
<1>2. UploadConstants /\ UNCHANGED game /\ BindSlots(S) /\ device = "ready"
      /\ UNCHANGED <<device, lost, viewport, drawnRight>>
  BY DEF DrawWithoutRenderState, CanDraw
<1>3. /\ ConstantsAreSafe'
      /\ driverConstants' = Fresh /\ constantBufferCache' = Fresh
      /\ buffer' \in [draw : Values \cup {Other}, state : [Fields -> Values \cup {Other}]]
  BY <1>2, UploadedIsFresh DEF DrawsAreSafe
<1>4. /\ BeliefsAreSafe'
      /\ applied' \in [Slots -> Object \cup {Unknown}]
      /\ context' \in [slots : [Slots -> Object \cup {Other}], target : BOOLEAN,
                        viewport : Viewports \cup {Other}]
  BY <1>1, <1>2, BindingIsSafe DEF DrawsAreSafe
<1>5. Fresh \in [Fields -> Values]
  BY RefreshedIsRebuilt DEF DrawsAreSafe
<1>6. TypeOK'
  BY <1>2, <1>3, <1>4, <1>5 DEF DrawsAreSafe, TypeOK, game, UploadConstants
<1> QED
  BY <1>2, <1>3, <1>4, <1>6 DEF DrawsAreSafe, DrawsUseCurrentState

\* A draw is made with what SC4 has set.
LEMMA DrawIsSafe ==
  ASSUME DrawsAreSafe, NEW indexed \in BOOLEAN, Draw(indexed)
  PROVE  DrawsAreSafe'
<1> DEFINE used == IF indexed THEN Slots ELSE Slots \ {Index}
<1>1. used \subseteq Slots /\ AlwaysBound \subseteq used
  BY DEF AlwaysBound
<1>2. UploadConstants /\ UNCHANGED game /\ BindSlots(used) /\ device = "ready"
      /\ UNCHANGED <<device, lost, viewport>>
  BY DEF Draw, CanDraw
<1>3. /\ ConstantsAreSafe' /\ buffer'.draw = modelView /\ buffer'.state = Fresh
      /\ driverConstants' = Fresh /\ constantBufferCache' = Fresh
      /\ buffer' \in [draw : Values \cup {Other}, state : [Fields -> Values \cup {Other}]]
  BY <1>2, UploadedIsFresh DEF DrawsAreSafe
<1>4. /\ \A s \in used : context'.slots[s] = wanted[s]
      /\ BeliefsAreSafe'
      /\ applied' \in [Slots -> Object \cup {Unknown}]
      /\ context' \in [slots : [Slots -> Object \cup {Other}], target : BOOLEAN,
                        viewport : Viewports \cup {Other}]
  BY <1>1, <1>2, BindingIsSafe DEF DrawsAreSafe
<1>5. Fresh \in [Fields -> Values]
  BY RefreshedIsRebuilt DEF DrawsAreSafe
<1>6. drawnRight'
  BY <1>2, <1>3, <1>4 DEF Draw, DrawsAreSafe, BeliefsAreSafe
<1>7. TypeOK'
  BY <1>2, <1>3, <1>4, <1>5, <1>6 DEF DrawsAreSafe, TypeOK, game, UploadConstants
<1> QED
  BY <1>3, <1>4, <1>6, <1>7 DEF DrawsAreSafe, DrawsUseCurrentState

\* Whoever else used the context, the driver's beliefs are gone when it draws next.
LEMMA OthersAreSafe ==
  ASSUME DrawsAreSafe, OverlaysShow,
         \/ RestoreOwnedContextState
         \/ DrawBlit
         \/ \E o \in Overlays : Present(o)
         \/ \E loses \in BOOLEAN : PresentOrBlitFails(loses)
  PROVE  DrawsAreSafe'
<1> USE DEF DrawsAreSafe
<1>1. CASE RestoreOwnedContextState
  <2>1. context' \in [slots : [Slots -> Object \cup {Other}], target : BOOLEAN,
                      viewport : Viewports \cup {Other}]
        /\ context'.target /\ context'.viewport = viewport
    BY <1>1, ClearedIsTyped DEF RestoreOwnedContextState, Owned, TypeOK
  <2>2. TypeOK'
    BY <1>1, <2>1, NoBeliefsAreTyped
       DEF RestoreOwnedContextState, InvalidateD3D11StateCache, game, constants, TypeOK
  <2>3. BeliefsAreSafe'
    BY <1>1, <2>1, <2>2, NoBeliefsAreSafe
       DEF RestoreOwnedContextState, InvalidateD3D11StateCache
  <2> QED
    BY <1>1, <2>2, <2>3, ConstantsStay DEF RestoreOwnedContextState, game, DrawsUseCurrentState
<1>2. CASE DrawBlit
  <2>1. context' \in [slots : [Slots -> Object \cup {Other}], target : BOOLEAN,
                      viewport : Viewports \cup {Other}]
        /\ context'.target /\ context'.viewport = viewport
    BY <1>2 DEF DrawBlit, CanDraw, BeliefsAreSafe, TypeOK
  <2>2. TypeOK'
    BY <1>2, <2>1, NoBeliefsAreTyped
       DEF DrawBlit, InvalidateD3D11StateCache, game, constants, TypeOK
  <2>3. BeliefsAreSafe'
    BY <1>2, <2>1, <2>2, NoBeliefsAreSafe DEF DrawBlit, InvalidateD3D11StateCache
  <2> QED
    BY <1>2, <2>2, <2>3, ConstantsStay DEF DrawBlit, game, DrawsUseCurrentState
<1>3. ASSUME NEW o \in Overlays, Present(o) PROVE DrawsAreSafe'
  <2>1. device = "ready"
    BY <1>3 DEF Present, CanDraw
  <2>2. CASE ForeignContextState(Overlaid(o))
    <3>1. context' \in [slots : [Slots -> Object \cup {Other}], target : BOOLEAN,
                        viewport : Viewports \cup {Other}]
          /\ context'.target /\ context'.viewport = viewport
      BY <1>3, <2>2, ClearedIsTyped DEF Present, Owned, TypeOK
    <3>2. TypeOK'
      BY <1>3, <2>2, <3>1, NoBeliefsAreTyped
         DEF Present, InvalidateD3D11StateCache, game, constants, TypeOK
    <3>3. BeliefsAreSafe'
      BY <1>3, <2>2, <3>1, <3>2, NoBeliefsAreSafe DEF Present, InvalidateD3D11StateCache
    <3> QED
      BY <1>3, <3>2, <3>3, ConstantsStay DEF Present, game, DrawsUseCurrentState
  <2>3. CASE ~ForeignContextState(Overlaid(o))
    <3>1. /\ "target" \notin o /\ "viewport" \notin o
          /\ \A s \in Slots : applied[s] # Unknown => Overlaid(o).slots[s] = applied[s]
      BY <1>3, <2>1, <2>3, UnnoticedIsHarmless
    <3>2. context' = Overlaid(o) /\ applied' = applied
      BY <1>3, <2>3 DEF Present
    <3>3. /\ context' \in [slots : [Slots -> Object \cup {Other}], target : BOOLEAN,
                            viewport : Viewports \cup {Other}]
          /\ context'.target = context.target /\ context'.viewport = context.viewport
      BY <3>1, <3>2 DEF Overlaid, TypeOK
    <3>4. TypeOK'
      BY <1>3, <3>2, <3>3 DEF Present, game, constants, TypeOK
    <3>5. BeliefsAreSafe'
      BY <1>3, <3>1, <3>2, <3>3
         DEF Present, BeliefsAreSafe, BelievedIsBound, UnboundPipelineMeansNoBelief
    <3> QED
      BY <1>3, <3>4, <3>5, ConstantsStay DEF Present, game, DrawsUseCurrentState
  <2> QED
    BY <2>2, <2>3
<1>4. ASSUME NEW loses \in BOOLEAN, PresentOrBlitFails(loses) PROVE DrawsAreSafe'
  <2>1. TypeOK'
    BY <1>4 DEF PresentOrBlitFails, game, constants, TypeOK
  <2> QED
    BY <1>4, <2>1, ConstantsStay, BeliefsStay DEF PresentOrBlitFails, game, DrawsUseCurrentState
<1> QED
  BY <1>1, <1>2, <1>3, <1>4

\* New targets, a destroyed device and a new one start with no belief at all.
LEMMA DevicesAreSafe ==
  ASSUME DrawsAreSafe,
         \/ \E created \in BOOLEAN, loses \in BOOLEAN : ResizeBackBuffer(created, loses)
         \/ DestroyD3D11Context
         \/ CreateD3D11Context
  PROVE  DrawsAreSafe'
<1> USE DEF DrawsAreSafe
<1>1. ASSUME NEW created \in BOOLEAN, NEW loses \in BOOLEAN, ResizeBackBuffer(created, loses)
      PROVE  DrawsAreSafe'
  <2>1. /\ context' \in [slots : [Slots -> Object \cup {Other}], target : BOOLEAN,
                          viewport : Viewports \cup {Other}]
        /\ device' \in {"untargeted", "ready"} /\ viewport' \in Viewports
        /\ device' = "ready" => context'.target /\ context'.viewport = viewport'
    BY <1>1, ClearedIsTyped, NamesAssumption DEF ResizeBackBuffer, TypeOK
  <2>2. TypeOK'
    BY <1>1, <2>1, NoBeliefsAreTyped
       DEF ResizeBackBuffer, InvalidateD3D11StateCache, game, constants, TypeOK
  <2>3. BeliefsAreSafe'
    BY <1>1, <2>1, <2>2, NoBeliefsAreSafe DEF ResizeBackBuffer, InvalidateD3D11StateCache
  <2> QED
    BY <1>1, <2>2, <2>3, ConstantsStay DEF ResizeBackBuffer, game, DrawsUseCurrentState
<1>2. CASE DestroyD3D11Context
  <2>1. NewBuffers \in [draw : Values \cup {Other}, state : [Fields -> Values \cup {Other}]]
    BY DEF NewBuffers
  <2>2. TypeOK'
    BY <1>2, <2>1, ClearedIsTyped, NoBeliefsAreTyped
       DEF DestroyD3D11Context, InvalidateD3D11StateCache, game, TypeOK
  <2>3. BeliefsAreSafe'
    BY <1>2, <2>2, NoBeliefsAreSafe DEF DestroyD3D11Context, InvalidateD3D11StateCache
  <2>4. ConstantsAreSafe'
    BY <1>2 DEF DestroyD3D11Context, game, ConstantsAreSafe, Refreshes, CacheIsUploaded
  <2> QED
    BY <1>2, <2>2, <2>3, <2>4 DEF DestroyD3D11Context, DrawsUseCurrentState
<1>3. CASE CreateD3D11Context
  <2>1. /\ context' \in [slots : [Slots -> Object \cup {Other}], target : BOOLEAN,
                          viewport : Viewports \cup {Other}]
        /\ viewport' \in Viewports /\ context'.target /\ context'.viewport = viewport'
    BY <1>3, ClearedIsTyped, NamesAssumption DEF CreateD3D11Context
  <2>2. TypeOK'
    BY <1>3, <2>1 DEF CreateD3D11Context, game, constants, TypeOK
  <2>3. BeliefsAreSafe'
    BY <1>3, <2>1, <2>2, NoBeliefsAreSafe DEF CreateD3D11Context, BeliefsAreSafe
  <2> QED
    BY <1>3, <2>2, <2>3, ConstantsStay DEF CreateD3D11Context, game, DrawsUseCurrentState
<1> QED
  BY <1>1, <1>2, <1>3

-----------------------------------------------------------------------------
(* Theorems.                                                               *)

\* No step of the driver, and no hook that shows what it changes, undoes it.
LEMMA StepIsSafe ==
  ASSUME DrawsAreSafe, OverlaysShow, [Next]_vars
  PROVE  DrawsAreSafe'
<1>1. CASE UNCHANGED vars
  <2>1. TypeOK'
    BY <1>1 DEF DrawsAreSafe, vars, game, constants, TypeOK
  <2> QED
    BY <1>1, <2>1, ConstantsStay, BeliefsStay
       DEF DrawsAreSafe, vars, game, constants, DrawsUseCurrentState
<1>2. CASE Next
  BY <1>2, SettersAreSafe, FailedUploadsAreSafe, DrawWithoutRenderStateIsSafe, DrawIsSafe,
     OthersAreSafe, DevicesAreSafe DEF Next
<1> QED
  BY <1>1, <1>2

\* The strengthened invariant holds throughout, if hooks show what they change.
THEOREM Safety == ASSUME OverlaysShow PROVE Spec => []DrawsAreSafe
<1>1. Init => DrawsAreSafe
  BY InitIsSafe
<1>2. DrawsAreSafe /\ [Next]_vars => DrawsAreSafe'
  BY StepIsSafe
<1> QED
  BY <1>1, <1>2, PTL DEF Spec

\* Every variable keeps its type.
THEOREM TypeCorrect == ASSUME OverlaysShow PROVE Spec => []TypeOK
<1>1. DrawsAreSafe => TypeOK
  BY DEF DrawsAreSafe
<1> QED
  BY <1>1, Safety, PTL

\* Every draw is made with the constants, bindings, target and viewport SC4 has
\* set, whatever failed or used the context before it.
THEOREM DrawsAreRight == ASSUME OverlaysShow PROVE Spec => []DrawsUseCurrentState
<1>1. DrawsAreSafe => DrawsUseCurrentState
  BY DEF DrawsAreSafe
<1> QED
  BY <1>1, Safety, PTL

\* What the driver believes to be bound is, so what it skips is not needed.
THEOREM BeliefsAreRight == ASSUME OverlaysShow PROVE Spec => []BelievedIsBound
<1>1. DrawsAreSafe => BelievedIsBound
  BY DEF DrawsAreSafe, BeliefsAreSafe
<1> QED
  BY <1>1, Safety, PTL

\* Groups of constants that are not marked are current on both sides.
THEOREM CleanGroupsStayCurrent == ASSUME OverlaysShow PROVE Spec => []CleanGroupsAreCurrent
<1>1. DrawsAreSafe => CleanGroupsAreCurrent
  BY DEF DrawsAreSafe, ConstantsAreSafe, Refreshes, CacheIsUploaded, CleanGroupsAreCurrent
<1> QED
  BY <1>1, Safety, PTL

\* While the pipeline is not bound there is no belief a hook could make wrong.
THEOREM UnboundPipelineIsUnbelieved ==
  ASSUME OverlaysShow PROVE Spec => []UnboundPipelineMeansNoBelief
<1>1. DrawsAreSafe => UnboundPipelineMeansNoBelief
  BY DEF DrawsAreSafe, BeliefsAreSafe
<1> QED
  BY <1>1, Safety, PTL
================================================================================
