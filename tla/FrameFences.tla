------------------------------ MODULE FrameFences ------------------------------
(***************************************************************************)
(* How the driver learns that the GPU has finished a frame.  Every Flush   *)
(* ends the frame it closes with a D3D11_QUERY_EVENT from a small ring of  *)
(* fences, and completedFrame is moved up from the fences that have been   *)
(* signalled.  The geometry cache and the terrain stream ask FrameCompleted*)
(* before they write over bytes that queued draws may still read.          *)
(*                                                                         *)
(* The module has no specification of its own: GeometryCache and           *)
(* TerrainStream extend it and take its steps together with theirs.        *)
(***************************************************************************)
EXTENDS Integers

CONSTANTS
  Fences,   \* slots of frameFences (8 in the driver)
  MaxFrame  \* bound of the models: the last frame that is ended

ASSUME FencesAssumption == Fences \in Nat \ {0}
ASSUME MaxFrameAssumption == MaxFrame \in Nat \ {0}

VARIABLES
  device,         \* "none": no context, "ready", or "lost" (deviceLost)
  currentFrame,   \* the frame the draws now being recorded belong to
  completedFrame, \* every frame up to this one is known to be done
  frameFences,    \* [query, frame]: the frame whose commands precede the End
                  \* of the slot's query (0: no query), and the slot's label
  gpuDone         \* the GPU has finished every frame up to this one

fenceVars == <<device, currentFrame, completedFrame, frameFences, gpuDone>>

NoFence == [query |-> 0, frame |-> 0]
Slots == 0 .. Fences - 1

FencesInit ==
  /\ currentFrame = 1
  /\ completedFrame = 0
  /\ frameFences = [i \in Slots |-> NoFence]
  /\ gpuDone = 0

FencesTypeOK ==
  /\ device \in {"none", "ready", "lost"}
  /\ currentFrame \in Nat \ {0}
  /\ completedFrame \in Nat
  /\ frameFences \in [Slots -> [query : Nat, frame : Nat]]
  /\ gpuDone \in Nat

\* DestroyD3D11Context starts the frames and the fences over.
ForgetFences ==
  /\ currentFrame' = 1
  /\ completedFrame' = 0
  /\ frameFences' = [i \in Slots |-> NoFence]
  /\ gpuDone' = 0

\* Mutant of EndedFence: a query still in use is relabelled, and not ended again.
RelabelledFence(fence, created) ==
  IF fence.query # 0 THEN [fence EXCEPT !.frame = currentFrame]
  ELSE IF created THEN [query |-> currentFrame, frame |-> currentFrame]
  ELSE fence

\* The fence of the current frame in its slot.  created: CreateQuery succeeded.
EndedFence(fence, created) ==
  IF fence.query # 0 \/ created
    THEN [query |-> currentFrame, frame |-> currentFrame]
    ELSE fence

(***************************************************************************)
(* EndFrameFence.  A slot that has a query ends it again for this frame,   *)
(* even when its earlier frame is still pending.  A slot without one needs *)
(* CreateQuery, which may fail: the frame then has no fence of its own.    *)
(***************************************************************************)
EndFrameFence(created) ==
  /\ device = "ready"
  /\ currentFrame < MaxFrame
  /\ frameFences' = [frameFences EXCEPT ![currentFrame % Fences] = EndedFence(@, created)]
  /\ currentFrame' = currentFrame + 1
  /\ UNCHANGED <<device, completedFrame, gpuDone>>

\* The oldest frame whose fence FrameCompleted looks at.
FirstPending ==
  LET oldest == IF currentFrame > Fences THEN currentFrame - Fences ELSE 1
  IN IF completedFrame + 1 > oldest THEN completedFrame + 1 ELSE oldest

\* The slot of frame n still holds the fence that answers for frame n.
Answers(n) ==
  /\ frameFences[n % Fences].query # 0
  /\ frameFences[n % Fences].frame = n

\* GetData answers that a query is done only once the GPU has passed its End.
Signalled(n) == frameFences[n % Fences].query <= gpuDone

(***************************************************************************)
(* completed is a value FrameCompleted(frame) can leave in completedFrame: *)
(* it walks the pending fences from the oldest on and stops at one that is *)
(* not done.  GetData does not flush and may also fail, so a fence can     *)
(* read as pending after the GPU has passed it.                            *)
(***************************************************************************)
PollFences(frame, completed) ==
  \/ completed = completedFrame
  \/ /\ frame > completedFrame
     /\ frame < currentFrame
     /\ completed \in FirstPending .. currentFrame - 1
     /\ Answers(completed)
     /\ \A n \in FirstPending .. completed : Answers(n) => Signalled(n)

\* The GPU finishes the frames that were ended, in order.
GpuFinishesFrame ==
  /\ gpuDone + 1 < currentFrame
  /\ gpuDone' = gpuDone + 1
  /\ UNCHANGED <<device, currentFrame, completedFrame, frameFences>>

\* What FrameCompleted may rely on: it never runs ahead of the GPU.
CompletedFramesAreDone ==
  /\ completedFrame <= gpuDone
  /\ gpuDone < currentFrame
  /\ \A i \in Slots : frameFences[i].query \in {0, frameFences[i].frame}
================================================================================
