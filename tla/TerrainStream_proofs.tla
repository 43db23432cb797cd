------------------------- MODULE TerrainStream_proofs --------------------------
(***************************************************************************)
(* The terrain's stream never writes over vertices a queued draw reads,    *)
(* for any number of segments, fences and frames and any failure, other    *)
(* than those a failed Map has left exposed.  (Those it may write over:    *)
(* the run terrain_stream_map shows how.)                                  *)
(***************************************************************************)
EXTENDS TerrainStream, FrameFences_proofs

(***************************************************************************)
(* What makes a write to a segment safe: reads that are not exposed lie    *)
(* before the cursor, so an append misses them; all are no later than the  *)
(* segment's last use, so a refill whose last use is done has none left.   *)
(***************************************************************************)
SegmentIsSafe(s) ==
  /\ s.cursor <= SegmentVertices
  /\ s.lastUse <= currentFrame
  /\ s.buffer \/ s.reads = {}
  /\ \A r \in s.reads :
       /\ r.frame <= s.lastUse
       /\ r.frame > gpuDone
       /\ r.exposed \/ r.lo + r.count <= s.cursor

StreamIsSafe ==
  /\ FencesAreSafe
  /\ TypeOK
  /\ QueuedDrawsIntact
  /\ ReservationInBuffer
  /\ \A i \in Indices : SegmentIsSafe(ring.segments[i])

\* Moving on in the ring arrives at one of its segments.
LEMMA TargetIsIndex ==
  ASSUME TypeOK, NEW count \in Nat
  PROVE  Target(count) \in Indices
<1>1. (ring.active + 1) % StreamSegments \in Indices
  BY StreamAssumption DEF TypeOK, Indices
<1> QED
  BY <1>1 DEF Target, TypeOK

\* The ring a StreamUpload finds after choosing its segment: the reads are still
\* those of before, and a segment that was moved to starts at 0.
LEMMA PreparedRing ==
  ASSUME StreamIsSafe, NEW count \in Nat \ {0}, count <= SegmentVertices,
         device = "ready",
         NEW i, i = Target(count), NEW s, s = Prepared(count).segments[i]
  PROVE  /\ i \in Indices
         /\ Prepared(count) \in [segments : [Indices -> StreamSegment], active : Indices]
         /\ s \in StreamSegment
         /\ s.cursor + count <= SegmentVertices
         /\ s.lastUse <= currentFrame
         /\ \A r \in s.reads : r.frame <= s.lastUse /\ r.frame > gpuDone
         /\ IF IsFull(count) THEN s.cursor = 0 ELSE s = ring.segments[i]
         /\ s.buffer
         /\ \A j \in Indices : j # i => Prepared(count).segments[j] = ring.segments[j]
<1>1. /\ i \in Indices
      /\ ring.segments \in [Indices -> StreamSegment]
      /\ ring \in [segments : [Indices -> StreamSegment], active : Indices]
      /\ ring.segments[i] \in StreamSegment
      /\ SegmentIsSafe(ring.segments[i])
  BY TargetIsIndex DEF StreamIsSafe, TypeOK
<1>2. CASE IsFull(count)
  <2> DEFINE new == StartedOver(ring.segments[i])
  <2>1. /\ new \in StreamSegment
        /\ new.cursor = 0 /\ new.buffer
        /\ new.reads = ring.segments[i].reads
        /\ new.lastUse = IF ring.segments[i].buffer THEN ring.segments[i].lastUse ELSE 0
    BY <1>1 DEF StartedOver, StreamSegment, Read
  <2>2. new.reads # {} => new.lastUse = ring.segments[i].lastUse
    BY <1>1, <2>1 DEF SegmentIsSafe
  <2>3. new.lastUse <= ring.segments[i].lastUse
    BY <1>1, <2>1 DEF StreamSegment, Read
  <2>4. new.lastUse <= currentFrame
    BY <1>1, <2>1, <2>3 DEF SegmentIsSafe, StreamSegment, Read, StreamIsSafe, FencesAreSafe, FencesTypeOK
  <2>5. Prepared(count) = [segments |-> [ring.segments EXCEPT ![i] = new], active |-> i]
    BY <1>2 DEF Prepared
  <2>6. \A r \in new.reads : r.frame <= new.lastUse /\ r.frame > gpuDone
    BY <1>1, <2>1, <2>2 DEF SegmentIsSafe
  <2> HIDE DEF new
  <2>7. s = new
    BY <1>1, <2>5
  <2> QED
    BY <1>1, <1>2, <2>1, <2>5, <2>6, <2>7, <2>4
<1>3. CASE ~IsFull(count)
  <2>1. Prepared(count) = ring /\ i = ring.active
    BY <1>3 DEF Prepared, Target
  <2>2. s = ring.segments[i]
    BY <2>1
  <2>3. s.buffer /\ ~(s.cursor + count > SegmentVertices)
    BY <1>3, <2>1, <2>2 DEF IsFull
  <2>4. s.cursor + count <= SegmentVertices
    BY <1>1, <2>2, <2>3, StreamAssumption DEF StreamSegment, Read
  <2> QED
    BY <1>1, <1>3, <2>1, <2>2, <2>3, <2>4 DEF SegmentIsSafe
<1> QED
  BY <1>2, <1>3

\* The upload itself.  After a refill without a rename no read is left, and an
\* append starts where the last read ends.
LEMMA UploadIsSafe ==
  ASSUME StreamIsSafe, device = "ready",
         NEW count \in Nat \ {0}, count <= SegmentVertices, StreamUpload(count),
         UNCHANGED reservation
  PROVE  StreamIsSafe'
<1> DEFINE i == Target(count)
           s == Prepared(count).segments[i]
<1>1. PICK completed \in completedFrame .. currentFrame :
        /\ AsksForFence(count, completed)
        /\ completedFrame' = completed
        /\ LET discard == IsFull(count) /\ s.lastUse > completed
               reads == IF discard THEN {} ELSE s.reads
               hit == {r \in reads : Overlaps(r, s.cursor, count)}
           IN /\ overwritten' = {r.exposed : r \in hit}
              /\ ring' = [Prepared(count) EXCEPT !.segments[i] = Appended(s, reads \ hit, count)]
        /\ UNCHANGED <<device, currentFrame, frameFences, gpuDone>>
  BY DEF StreamUpload
<1> DEFINE discard == IsFull(count) /\ s.lastUse > completed
           reads == IF discard THEN {} ELSE s.reads
           hit == {r \in reads : Overlaps(r, s.cursor, count)}
           read == [lo |-> s.cursor, count |-> count, frame |-> currentFrame,
                    exposed |-> FALSE]
           new == Appended(s, reads \ hit, count)
<1>2. /\ i \in Indices
      /\ Prepared(count) \in [segments : [Indices -> StreamSegment], active : Indices]
      /\ s \in StreamSegment
      /\ s.cursor + count <= SegmentVertices
      /\ \A r \in s.reads : r.frame <= s.lastUse /\ r.frame > gpuDone
      /\ IF IsFull(count) THEN s.cursor = 0 ELSE s = ring.segments[i]
      /\ s.buffer
      /\ \A j \in Indices : j # i => Prepared(count).segments[j] = ring.segments[j]
  BY PreparedRing
<1>3. /\ currentFrame \in Nat /\ gpuDone \in Nat
      /\ gpuDone < currentFrame
      /\ completedFrame <= gpuDone
  BY DEF StreamIsSafe, FencesAreSafe, FencesTypeOK, CompletedFramesAreDone
<1>4. /\ completed \in Nat
      /\ completed <= gpuDone
      /\ IsFull(count) /\ ~discard => s.lastUse <= completed
  <2>1. CASE IsFull(count) /\ s.lastUse # 0
    <3>1. PollFences(s.lastUse, completed) /\ s.lastUse \in Nat
      BY <1>1, <1>2, <2>1 DEF AsksForFence, StreamSegment, Read
    <3>2. completed \in Nat /\ completed <= gpuDone
      BY <3>1, PolledFramesAreDone DEF StreamIsSafe
    <3> QED
      BY <3>1, <3>2, <2>1
  <2>2. CASE ~(IsFull(count) /\ s.lastUse # 0)
    <3>1. completed = completedFrame
      BY <1>1, <2>2 DEF AsksForFence
    <3>2. completedFrame \in Nat
      BY DEF StreamIsSafe, FencesAreSafe, FencesTypeOK
    <3> QED
      BY <1>3, <3>1, <3>2, <2>2
  <2> QED
    BY <2>1, <2>2
<1>5. \A r \in reads :
        /\ r \in Read
        /\ r.frame <= currentFrame
        /\ r.frame > gpuDone
        /\ r.exposed \/ r.lo + r.count <= s.cursor
  <2> SUFFICES ASSUME NEW r \in reads, ~discard
               PROVE  /\ r \in Read
                      /\ r.frame <= currentFrame
                      /\ r.frame > gpuDone
                      /\ r.exposed \/ r.lo + r.count <= s.cursor
    OBVIOUS
  <2>1. /\ r \in s.reads
        /\ r \in Read
        /\ r.frame <= s.lastUse /\ r.frame > gpuDone
    BY <1>2 DEF StreamSegment, Read
  <2>2. ~IsFull(count)
    BY <2>1, <1>2, <1>3, <1>4 DEF StreamSegment, Read
  <2>3. r.exposed \/ r.lo + r.count <= s.cursor
    BY <1>2, <2>1, <2>2 DEF StreamIsSafe, SegmentIsSafe
  <2>4. s.lastUse <= currentFrame
    BY <1>2, <2>2 DEF StreamIsSafe, SegmentIsSafe
  <2> QED
    BY <2>1, <2>3, <2>4, <1>2, <1>3 DEF StreamSegment, Read
<1>6. /\ read \in Read
      /\ new \in StreamSegment
      /\ new.cursor = s.cursor + count
      /\ new.lastUse = currentFrame
      /\ new.reads = (reads \ hit) \cup {read}
      /\ new.buffer
  <2>1. reads \in SUBSET Read
    BY <1>5
  <2>2. s.cursor \in Nat /\ read \in Read
    BY <1>2, <1>3 DEF StreamSegment, Read
  <2>3. (reads \ hit) \cup {read} \in SUBSET Read
    BY <2>1, <2>2
  <2> HIDE DEF reads, hit, s
  <2> QED
    BY <1>3, <2>2, <2>3 DEF Appended, StreamSegment, Read
<1>7. /\ ring'.segments = [Prepared(count).segments EXCEPT ![i] = new]
      /\ ring'.active = Prepared(count).active
      /\ ring' \in [segments : [Indices -> StreamSegment], active : Indices]
  <2> HIDE DEF new
  <2>1. ring' = [Prepared(count) EXCEPT !.segments[i] = new]
    BY <1>1 DEF new
  <2> QED
    BY <2>1, <1>2, <1>6
<1>8. QueuedDrawsIntact' /\ overwritten' \subseteq BOOLEAN
  <2>1. \A r \in hit : r.exposed = TRUE
    BY <1>5, <1>2 DEF Overlaps, StreamSegment, Read
  <2>2. overwritten' = {r.exposed : r \in hit}
    BY <1>1
  <2> HIDE DEF hit
  <2> QED
    BY <2>1, <2>2 DEF QueuedDrawsIntact
<1>9. ASSUME NEW j \in Indices
      PROVE  SegmentIsSafe(ring.segments[j])'
  <2>1. CASE j = i
    <3>1. ring'.segments[j] = new
      BY <1>2, <1>7, <2>1
    <3>2. \A r \in new.reads :
            /\ r.frame <= new.lastUse
            /\ r.frame > gpuDone
            /\ r.exposed \/ r.lo + r.count <= new.cursor
      <4>1. s.cursor \in Nat
        BY <1>2 DEF StreamSegment, Read
      <4> HIDE DEF new, reads, hit
      <4> QED
        BY <1>3, <1>5, <1>6, <4>1 DEF Read
    <3>3. /\ new.cursor <= SegmentVertices
          /\ new.lastUse <= currentFrame
          /\ new.buffer
      BY <1>2, <1>3, <1>6
    <3> HIDE DEF new
    <3> QED
      BY <1>1, <3>1, <3>2, <3>3 DEF SegmentIsSafe
  <2>2. CASE j # i
    <3>1. ring'.segments[j] = ring.segments[j]
      BY <1>2, <1>7, <2>2
    <3> QED
      BY <1>1, <3>1 DEF SegmentIsSafe, StreamIsSafe
  <2> QED
    BY <2>1, <2>2
<1>10. FencesAreSafe'
  <2>1. device' \in {"none", "ready", "lost"}
    BY <1>1
  <2> QED
    BY <1>1, <1>3, <1>4, <2>1, PolledFences DEF StreamIsSafe
<1> QED
  BY <1>7, <1>8, <1>9, <1>10
     DEF StreamIsSafe, TypeOK, FencesAreSafe, ReservationInBuffer

\* A draw that cannot be streamed leaves a ring that is as safe: a segment that was
\* started over for it has all its reads exposed.
LEMMA FailedUploadIsSafe ==
  ASSUME StreamIsSafe, device = "ready",
         NEW count \in Nat \ {0}, count <= SegmentVertices,
         NEW lost \in BOOLEAN,
         StreamCannotMap(count, lost) \/ StreamFindsNoMemory(count, lost),
         UNCHANGED reservation
  PROVE  StreamIsSafe'
<1> DEFINE i == Target(count)
           s == Prepared(count).segments[i]
<1>1. /\ i \in Indices
      /\ ring.segments \in [Indices -> StreamSegment]
      /\ ring.segments[i] \in StreamSegment
  BY TargetIsIndex DEF StreamIsSafe, TypeOK
<1>2. /\ completedFrame \in Nat /\ completedFrame <= gpuDone
      /\ device' \in {"none", "ready", "lost"}
      /\ UNCHANGED <<currentFrame, frameFences, gpuDone, overwritten, reservation>>
  BY DEF StreamIsSafe, FencesAreSafe, FencesTypeOK, CompletedFramesAreDone,
         StreamCannotMap, StreamFindsNoMemory
<1>3. CASE StreamCannotMap(count, lost)
  <2>2. /\ Prepared(count) \in [segments : [Indices -> StreamSegment], active : Indices]
        /\ s \in StreamSegment
        /\ s.cursor + count <= SegmentVertices
        /\ s.lastUse <= currentFrame
        /\ \A r \in s.reads : r.frame <= s.lastUse /\ r.frame > gpuDone
        /\ s.buffer
        /\ \A j \in Indices : j # i => Prepared(count).segments[j] = ring.segments[j]
    BY PreparedRing
  <2>3. PICK completed \in completedFrame .. currentFrame :
          AsksForFence(count, completed) /\ completedFrame' = completed
    BY <1>3 DEF StreamCannotMap
  <2>4. completed \in Nat /\ completed <= gpuDone
    <3>1. CASE IsFull(count) /\ s.lastUse # 0
      <4>1. PollFences(s.lastUse, completed) /\ s.lastUse \in Nat
        BY <2>2, <2>3, <3>1 DEF AsksForFence, StreamSegment, Read
      <4> QED
        BY <4>1, PolledFramesAreDone DEF StreamIsSafe
    <3>2. CASE ~(IsFull(count) /\ s.lastUse # 0)
      BY <1>2, <2>3, <3>2 DEF AsksForFence
    <3> QED
      BY <3>1, <3>2
  <2>5. FencesAreSafe'
    BY <1>2, <2>3, <2>4, PolledFences DEF StreamIsSafe
  <2>6. s.cursor <= SegmentVertices
    BY <2>2, StreamAssumption DEF StreamSegment, Read
  <2>7. CASE IsFull(count)
    <3> DEFINE new == Exposed(s)
    <3>1. /\ new \in StreamSegment
          /\ new.buffer /\ new.cursor = s.cursor /\ new.lastUse = s.lastUse
          /\ new.reads = {[r EXCEPT !.exposed = TRUE] : r \in s.reads}
      <4>1. ASSUME NEW r \in s.reads
            PROVE  [r EXCEPT !.exposed = TRUE] \in Read
        BY <2>2 DEF StreamSegment, Read
      <4>2. {[r EXCEPT !.exposed = TRUE] : r \in s.reads} \in SUBSET Read
        BY <4>1
      <4> HIDE DEF s
      <4> QED
        BY <2>2, <4>2 DEF Exposed, StreamSegment
    <3>2. \A r \in new.reads : r.exposed /\ r.frame <= s.lastUse /\ r.frame > gpuDone
      <4> HIDE DEF new
      <4> QED
        BY <2>2, <3>1 DEF StreamSegment, Read
    <3>3. ring' = [Prepared(count) EXCEPT !.segments[i] = new]
      BY <1>3, <2>7 DEF StreamCannotMap
    <3> HIDE DEF new
    <3>4. /\ ring'.segments = [Prepared(count).segments EXCEPT ![i] = new]
          /\ ring' \in [segments : [Indices -> StreamSegment], active : Indices]
      BY <1>1, <2>2, <3>1, <3>3
    <3>5. ASSUME NEW j \in Indices
          PROVE  SegmentIsSafe(ring.segments[j])'
      <4>1. CASE j = i
        <5>1. ring'.segments[j] = new
          BY <1>1, <2>2, <3>4, <4>1
        <5> QED
          BY <1>2, <2>2, <2>6, <3>1, <3>2, <5>1 DEF SegmentIsSafe
      <4>2. CASE j # i
        <5>1. ring'.segments[j] = ring.segments[j]
          BY <1>1, <2>2, <3>4, <4>2
        <5> QED
          BY <1>2, <5>1 DEF SegmentIsSafe, StreamIsSafe
      <4> QED
        BY <4>1, <4>2
    <3> QED
      BY <1>2, <2>5, <3>4, <3>5
         DEF StreamIsSafe, TypeOK, FencesAreSafe, ReservationInBuffer, QueuedDrawsIntact
  <2>8. CASE ~IsFull(count)
    <3>1. ring' = ring
      BY <1>3, <2>8 DEF StreamCannotMap
    <3> QED
      BY <1>2, <2>5, <3>1
         DEF StreamIsSafe, TypeOK, FencesAreSafe, ReservationInBuffer, QueuedDrawsIntact,
             SegmentIsSafe
  <2> QED
    BY <2>7, <2>8
<1>4. CASE StreamFindsNoMemory(count, lost)
  <2> DEFINE new == [ring.segments[i] EXCEPT !.cursor = 0]
  <2>1. /\ new \in StreamSegment
        /\ new.cursor = 0
        /\ new.lastUse = ring.segments[i].lastUse
        /\ new.reads = ring.segments[i].reads
    BY <1>1 DEF StreamSegment, Read
  <2>2. ring.segments[i].reads = {}
    BY <1>1, <1>4 DEF StreamFindsNoMemory, StreamIsSafe, SegmentIsSafe
  <2>3. ring' = [ring EXCEPT !.active = i, !.segments[i].cursor = 0]
    BY <1>4 DEF StreamFindsNoMemory
  <2> HIDE DEF new
  <2>4. /\ ring'.segments = [ring.segments EXCEPT ![i] = new]
        /\ ring'.active = i
        /\ ring' \in [segments : [Indices -> StreamSegment], active : Indices]
    BY <1>1, <2>1, <2>3 DEF new, StreamIsSafe, TypeOK
  <2>5. FencesAreSafe'
    BY <1>2, <1>4, PolledFences DEF StreamFindsNoMemory, StreamIsSafe
  <2>6. ASSUME NEW j \in Indices
        PROVE  SegmentIsSafe(ring.segments[j])'
    <3>1. SegmentIsSafe(ring.segments[j]) /\ ring.segments[i].lastUse <= currentFrame
      BY <1>1 DEF StreamIsSafe, SegmentIsSafe
    <3>2. CASE j = i
      BY <1>1, <1>2, <2>1, <2>2, <2>4, <3>1, <3>2, StreamAssumption DEF SegmentIsSafe
    <3>3. CASE j # i
      <4>1. ring'.segments[j] = ring.segments[j]
        BY <1>1, <2>4, <3>3
      <4> QED
        BY <1>2, <3>1, <4>1 DEF SegmentIsSafe
    <3> QED
      BY <3>2, <3>3
  <2> QED
    BY <1>2, <2>4, <2>5, <2>6
       DEF StreamIsSafe, TypeOK, FencesAreSafe, ReservationInBuffer, QueuedDrawsIntact
<1> QED
  BY <1>3, <1>4

\* A draw, however its upload ends.
LEMMA DrawIsSafe ==
  ASSUME StreamIsSafe,
         NEW first \in Nat, NEW count \in Nat, DrawPrims(first, count)
  PROVE  StreamIsSafe'
<1>1. /\ device = "ready" /\ UNCHANGED reservation
      /\ count \in Nat \ {0} /\ count <= SegmentVertices
  BY DEF DrawPrims
<1>2. CASE StreamUpload(count)
  BY <1>1, <1>2, UploadIsSafe
<1>3. CASE \E lost \in BOOLEAN : StreamCannotMap(count, lost) \/ StreamFindsNoMemory(count, lost)
  BY <1>1, <1>3, FailedUploadIsSafe
<1> QED
  BY <1>2, <1>3 DEF DrawPrims

\* The empty ring of a driver without a context is safe.
LEMMA EmptyRingIsSafe ==
  /\ EmptyRing \in [segments : [Indices -> StreamSegment], active : Indices]
  /\ \A i \in Indices : EmptyRing.segments[i] = NewSegment
  /\ NewSegment.cursor = 0 /\ NewSegment.lastUse = 0 /\ NewSegment.reads = {}
BY StreamAssumption DEF EmptyRing, NewSegment, StreamSegment, Read, Indices

\* No step of SC4, the driver or the GPU breaks the invariant.
LEMMA StreamStep ==
  ASSUME StreamIsSafe, [Next]_vars
  PROVE  StreamIsSafe'
<1> USE DEF StreamIsSafe
<1> DEFINE Unmoved == UNCHANGED <<fenceVars, ring, overwritten>>
<1>1. ASSUME Unmoved, reservation' \in [start : Nat, cursor : Nat, locked : BOOLEAN],
             ReservationInBuffer'
      PROVE  StreamIsSafe'
  BY <1>1 DEF fenceVars, FencesAreSafe, FencesTypeOK, CompletedFramesAreDone, TypeOK,
              SegmentIsSafe, Answers, QueuedDrawsIntact
<1>2. CASE CreateDevice
  BY <1>2 DEF CreateDevice, FencesAreSafe, FencesTypeOK, CompletedFramesAreDone, TypeOK,
              SegmentIsSafe, ReservationInBuffer, QueuedDrawsIntact
<1>3. CASE DestroyD3D11Context
  <2>1. FencesAreSafe'
    BY <1>3, ForgottenFences DEF DestroyD3D11Context
  <2>2. ASSUME NEW i \in Indices PROVE SegmentIsSafe(ring.segments[i])'
    BY <1>3, EmptyRingIsSafe, StreamAssumption
       DEF DestroyD3D11Context, ForgetFences, SegmentIsSafe
  <2> QED
    BY <1>3, <2>1, <2>2, EmptyRingIsSafe
       DEF DestroyD3D11Context, TypeOK, FencesAreSafe, ReservationInBuffer, QueuedDrawsIntact
<1>4. ASSUME NEW count \in Counts, GetVertices(count) PROVE StreamIsSafe'
  <2>1. /\ Unmoved
        /\ reservation' \in [start : Nat, cursor : Nat, locked : BOOLEAN]
        /\ ReservationInBuffer'
    BY <1>4, StreamAssumption DEF GetVertices, Counts, TypeOK, ReservationInBuffer
  <2> QED
    BY <2>1, <1>1
<1>5. ASSUME NEW count \in Counts, ContinueVertices(count) PROVE StreamIsSafe'
  <2>1. /\ Unmoved
        /\ reservation' \in [start : Nat, cursor : Nat, locked : BOOLEAN]
        /\ ReservationInBuffer'
    BY <1>5, StreamAssumption DEF ContinueVertices, Counts, TypeOK, ReservationInBuffer
  <2> QED
    BY <2>1, <1>1
<1>6. CASE ReleaseVertices
  BY <1>1, <1>6 DEF ReleaseVertices, TypeOK, ReservationInBuffer
<1>7. CASE Reset
  BY <1>1, <1>7, StreamAssumption DEF Reset, TypeOK, ReservationInBuffer
<1>8. ASSUME NEW first \in 0 .. MaxVertices, NEW count \in Counts, DrawPrims(first, count)
      PROVE  StreamIsSafe'
  BY <1>8, DrawIsSafe, StreamAssumption DEF Counts
<1>9. ASSUME NEW created \in BOOLEAN, EndFrame(created) PROVE StreamIsSafe'
  <2>1. FencesAreSafe'
    BY <1>9, EndedFences DEF EndFrame
  <2>2. ASSUME NEW i \in Indices PROVE SegmentIsSafe(ring.segments[i])'
    BY <1>9 DEF EndFrame, EndFrameFence, SegmentIsSafe, TypeOK, StreamSegment, Read,
                FencesTypeOK
  <2> QED
    BY <1>9, <2>1, <2>2 DEF EndFrame, TypeOK, FencesAreSafe, ReservationInBuffer, QueuedDrawsIntact
<1>10. CASE GpuFinishes
  <2>1. FencesAreSafe' /\ gpuDone' = gpuDone + 1
    BY <1>10, FinishedFences DEF GpuFinishes
  <2> DEFINE Pending(s) == [s EXCEPT !.reads = {r \in @ : r.frame > gpuDone'}]
  <2>2. ring' = [ring EXCEPT !.segments = [i \in Indices |-> Pending(ring.segments[i])]]
    BY <1>10 DEF GpuFinishes
  <2>3. ASSUME NEW s \in StreamSegment
        PROVE  /\ Pending(s) \in StreamSegment
               /\ Pending(s).buffer = s.buffer
               /\ Pending(s).cursor = s.cursor
               /\ Pending(s).lastUse = s.lastUse
               /\ Pending(s).reads = {r \in s.reads : r.frame > gpuDone'}
    BY DEF StreamSegment, Read
  <2> HIDE DEF Pending
  <2>4. /\ ring' \in [segments : [Indices -> StreamSegment], active : Indices]
        /\ \A i \in Indices : ring'.segments[i] = Pending(ring.segments[i])
    BY <2>2, <2>3 DEF TypeOK
  <2>5. ASSUME NEW i \in Indices PROVE SegmentIsSafe(ring.segments[i])'
    <3>1. ring.segments[i] \in StreamSegment /\ SegmentIsSafe(ring.segments[i])
      BY DEF TypeOK
    <3>2. UNCHANGED <<device, currentFrame>>
      BY <1>10 DEF GpuFinishes, GpuFinishesFrame
    <3> QED
      BY <2>3, <2>4, <3>1, <3>2 DEF SegmentIsSafe
  <2> QED
    BY <1>10, <2>1, <2>4, <2>5
       DEF GpuFinishes, TypeOK, FencesAreSafe, ReservationInBuffer, QueuedDrawsIntact
<1>11. CASE UNCHANGED vars
  BY <1>1, <1>11 DEF vars, TypeOK, ReservationInBuffer
<1> QED
  BY <1>2, <1>3, <1>4, <1>5, <1>6, <1>7, <1>8, <1>9, <1>10, <1>11 DEF Next

\* A driver that has just been constructed.
LEMMA InitialStream == Init => StreamIsSafe
<1> SUFFICES ASSUME Init PROVE StreamIsSafe
  OBVIOUS
<1>1. FencesAreSafe
  BY InitialFences DEF Init
<1>2. ASSUME NEW i \in Indices PROVE SegmentIsSafe(ring.segments[i])
  BY EmptyRingIsSafe, StreamAssumption DEF Init, FencesInit, SegmentIsSafe
<1> QED
  BY <1>1, <1>2, EmptyRingIsSafe, StreamAssumption
     DEF Init, StreamIsSafe, TypeOK, FencesAreSafe, ReservationInBuffer, QueuedDrawsIntact

\* The strengthening holds throughout.
THEOREM StreamIsSafeAlways == Spec => []StreamIsSafe
<1> QED
  BY StreamStep, InitialStream, PTL DEF Spec

\* StreamUpload's "Appends never overlap what a queued draw reads", as far as the
\* code keeps it: no write ever touches vertices that a draw the GPU has not finished
\* reads, unless a Map failed after their segment had been started over.
THEOREM QueuedDrawsStayIntact == Spec => []QueuedDrawsIntact
<1>1. StreamIsSafe => QueuedDrawsIntact
  BY DEF StreamIsSafe
<1> QED
  BY <1>1, StreamIsSafeAlways, PTL

\* FrameCompleted never runs ahead of the GPU.
THEOREM CompletedFramesStayDone == Spec => []CompletedFramesAreDone
<1>1. StreamIsSafe => CompletedFramesAreDone
  BY DEF StreamIsSafe, FencesAreSafe
<1> QED
  BY <1>1, StreamIsSafeAlways, PTL

\* Every write stays in its segment.
THEOREM StreamStaysInItsSegment == Spec => []StreamStaysInSegment
<1>1. StreamIsSafe => StreamStaysInSegment
  BY DEF StreamIsSafe, SegmentIsSafe, StreamStaysInSegment
<1> QED
  BY <1>1, StreamIsSafeAlways, PTL

\* What draws read of the extension's buffer is inside it.
THEOREM ReservationStaysInBuffer == Spec => []ReservationInBuffer
<1>1. StreamIsSafe => ReservationInBuffer
  BY DEF StreamIsSafe
<1> QED
  BY <1>1, StreamIsSafeAlways, PTL

\* Every state is well typed.
THEOREM TypeCorrect == Spec => []TypeOK
<1>1. StreamIsSafe => TypeOK
  BY DEF StreamIsSafe
<1> QED
  BY <1>1, StreamIsSafeAlways, PTL
================================================================================
