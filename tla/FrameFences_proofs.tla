-------------------------- MODULE FrameFences_proofs ---------------------------
(***************************************************************************)
(* FrameCompleted never says that a frame is done which the GPU has not    *)
(* finished, for any number of fences and frames.  The lemmas are stated   *)
(* step by step, for the modules whose steps contain these.                *)
(***************************************************************************)
EXTENDS FrameFences, TLAPS

FencesAreSafe == FencesTypeOK /\ CompletedFramesAreDone

\* A frame's slot is one of the slots.
LEMMA SlotOfFrame == \A n \in Nat : n % Fences \in Slots
BY FencesAssumption DEF Slots

\* A driver without a context starts with fences that answer for nothing.
LEMMA InitialFences ==
  ASSUME FencesInit, device \in {"none", "ready", "lost"}
  PROVE  FencesAreSafe
BY DEF FencesInit, FencesAreSafe, FencesTypeOK, CompletedFramesAreDone, NoFence

\* DestroyD3D11Context leaves such fences too.
LEMMA ForgottenFences ==
  ASSUME ForgetFences, device' \in {"none", "ready", "lost"}
  PROVE  FencesAreSafe'
BY DEF ForgetFences, FencesAreSafe, FencesTypeOK, CompletedFramesAreDone, NoFence

\* EndFrameFence may end a slot again that is still pending: the slot then answers
\* for the later frame only, which is the safe side.
LEMMA EndedFences ==
  ASSUME FencesAreSafe, NEW created \in BOOLEAN, EndFrameFence(created)
  PROVE  FencesAreSafe'
<1> DEFINE slot == currentFrame % Fences
           fence == EndedFence(frameFences[slot], created)
<1>1. currentFrame \in Nat /\ slot \in Slots
  BY SlotOfFrame DEF FencesAreSafe, FencesTypeOK
<1>2. /\ fence \in [query : Nat, frame : Nat]
      /\ fence.query \in {0, fence.frame}
  BY <1>1 DEF FencesAreSafe, FencesTypeOK, CompletedFramesAreDone, EndedFence
<1> HIDE DEF fence
<1>3. frameFences' = [frameFences EXCEPT ![slot] = fence]
  BY DEF EndFrameFence, fence
<1> QED
  BY <1>1, <1>2, <1>3 DEF EndFrameFence, FencesAreSafe, FencesTypeOK, CompletedFramesAreDone

\* Whatever FrameCompleted leaves in completedFrame, the GPU has finished.
LEMMA PolledFramesAreDone ==
  ASSUME FencesAreSafe, NEW frame \in Nat, NEW completed, PollFences(frame, completed)
  PROVE  /\ completed \in Nat
         /\ completedFrame <= completed
         /\ completed <= gpuDone
<1>1. CASE completed = completedFrame
  BY <1>1 DEF FencesAreSafe, FencesTypeOK, CompletedFramesAreDone
<1>2. CASE /\ completed \in FirstPending .. currentFrame - 1
           /\ Answers(completed)
           /\ \A n \in FirstPending .. completed : Answers(n) => Signalled(n)
  <2>1. /\ completed \in Nat
        /\ completedFrame < completed
        /\ completed \in FirstPending .. completed
    BY <1>2, FencesAssumption DEF FirstPending, FencesAreSafe, FencesTypeOK
  <2>2. frameFences[completed % Fences].query = completed
    BY <1>2, <2>1, SlotOfFrame DEF Answers, FencesAreSafe, FencesTypeOK, CompletedFramesAreDone
  <2>3. Signalled(completed)
    BY <1>2, <2>1
  <2> QED
    BY <2>1, <2>2, <2>3 DEF Signalled, FencesAreSafe, FencesTypeOK
<1> QED
  BY <1>1, <1>2 DEF PollFences

\* A poll, or no poll, keeps the fences safe.
LEMMA PolledFences ==
  ASSUME FencesAreSafe, completedFrame' \in Nat, completedFrame' <= gpuDone,
         device' \in {"none", "ready", "lost"},
         UNCHANGED <<currentFrame, frameFences, gpuDone>>
  PROVE  FencesAreSafe'
BY DEF FencesAreSafe, FencesTypeOK, CompletedFramesAreDone

\* The GPU only makes it easier.
LEMMA FinishedFences ==
  ASSUME FencesAreSafe, GpuFinishesFrame
  PROVE  FencesAreSafe' /\ gpuDone' = gpuDone + 1 /\ gpuDone' < currentFrame
BY DEF FencesAreSafe, FencesTypeOK, CompletedFramesAreDone, GpuFinishesFrame
================================================================================
