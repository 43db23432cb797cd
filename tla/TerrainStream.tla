----------------------------- MODULE TerrainStream -----------------------------
(***************************************************************************)
(* The terrain's vertices.  SC4 reserves a range of one fixed buffer,      *)
(* fills it, and draws parts of the reservation (the vertex buffer         *)
(* extension).  Each draw converts the vertices it reads and streams them  *)
(* through a small ring of dynamic buffers of their own (StreamUpload).    *)
(* Lengths are counted in vertices.                                        *)
(***************************************************************************)
EXTENDS FrameFences

CONSTANTS
  StreamSegments,  \* segments of a StreamRing (4)
  SegmentVertices, \* vertices that fit a stream segment
  MaxVertices      \* vertices of the extension's buffer (32768)

ASSUME StreamAssumption ==
  /\ StreamSegments \in Nat \ {0}
  /\ SegmentVertices \in Nat \ {0}
  /\ MaxVertices \in Nat \ {0}

VARIABLES
  ring,         \* the stream's segments and the active one
  overwritten,  \* history: of the queued reads the last upload wrote over, whether
                \* a Map that failed had left them exposed
  reservation   \* extensionVertexStart, extensionVertexCursor and
                \* extensionVerticesLocked

vars == <<fenceVars, ring, overwritten, reservation>>

Indices == 0 .. StreamSegments - 1

\* History: what a draw reads of a segment, and whether the segment was since
\* started over by an upload whose Map failed.
Read == [lo : Nat, count : Nat, frame : Nat, exposed : BOOLEAN]

\* reads is history: what draws still queued read from the current copy, as far
\* as no upload has written over it yet.
StreamSegment == [buffer : BOOLEAN, cursor : Nat, lastUse : Nat, reads : SUBSET Read]
NewSegment == [buffer |-> FALSE, cursor |-> 0, lastUse |-> 0, reads |-> {}]
EmptyRing == [segments |-> [i \in Indices |-> NewSegment], active |-> 0]

TypeOK ==
  /\ FencesTypeOK
  /\ ring \in [segments : [Indices -> StreamSegment], active : Indices]
  /\ overwritten \subseteq BOOLEAN
  /\ reservation \in [start : Nat, cursor : Nat, locked : BOOLEAN]

Init ==
  /\ device = "none"
  /\ FencesInit
  /\ ring = EmptyRing
  /\ overwritten = {}
  /\ reservation = [start |-> 0, cursor |-> 0, locked |-> FALSE]

CreateDevice ==
  /\ device = "none"
  /\ device' = "ready"
  /\ UNCHANGED <<currentFrame, completedFrame, frameFences, gpuDone,
                 ring, overwritten, reservation>>

\* DestroyD3D11Context forgets the stream, the fences and the frame count.  The
\* reservation is SC4's and stays.
DestroyD3D11Context ==
  /\ device # "none"
  /\ device' = "none"
  /\ ForgetFences
  /\ ring' = EmptyRing
  /\ overwritten' = {}
  /\ UNCHANGED reservation

-----------------------------------------------------------------------------
\* GetVertices: a reservation that does not fit starts over at the front.
GetVertices(count) ==
  LET start == IF reservation.cursor + count > MaxVertices THEN 0 ELSE reservation.cursor
  IN /\ count <= MaxVertices
     /\ ~reservation.locked
     /\ reservation' = [start |-> start, cursor |-> start + count, locked |-> TRUE]
     /\ UNCHANGED <<fenceVars, ring, overwritten>>

\* ContinueVertices extends the reservation that is being filled.
ContinueVertices(count) ==
  /\ reservation.locked
  /\ count <= MaxVertices - reservation.cursor
  /\ reservation' = [reservation EXCEPT !.cursor = @ + count]
  /\ UNCHANGED <<fenceVars, ring, overwritten>>

ReleaseVertices ==
  /\ reservation.locked
  /\ reservation' = [reservation EXCEPT !.locked = FALSE]
  /\ UNCHANGED <<fenceVars, ring, overwritten>>

Reset ==
  /\ reservation' = [start |-> 0, cursor |-> 0, locked |-> FALSE]
  /\ UNCHANGED <<fenceVars, ring, overwritten>>

\* A draw may read the first count vertices of the reservation.
ExtensionReservationHolds(count) ==
  /\ ~reservation.locked
  /\ count # 0
  /\ count <= reservation.cursor - reservation.start

-----------------------------------------------------------------------------
\* The active segment cannot take count vertices more.
IsFull(count) ==
  LET s == ring.segments[ring.active]
  IN ~s.buffer \/ s.cursor + count > SegmentVertices

\* The segment a StreamUpload of count vertices writes to.
Target(count) ==
  IF IsFull(count) /\ ring.segments[ring.active].buffer
    THEN (ring.active + 1) % StreamSegments ELSE ring.active

\* Mutant of StartedOver: the segment forgets that it was ever used.
StartedOverAsNew(s) == [s EXCEPT !.buffer = TRUE, !.cursor = 0, !.lastUse = 0]

\* A segment that is filled from the front again, with a buffer of its own.
StartedOver(s) ==
  [s EXCEPT !.buffer = TRUE, !.cursor = 0,
            !.lastUse = IF s.buffer THEN s.lastUse ELSE 0]

\* The ring when the target has been chosen: a segment moved to starts over.
Prepared(count) ==
  IF IsFull(count)
    THEN [segments |-> [ring.segments EXCEPT ![Target(count)] = StartedOver(@)],
          active |-> Target(count)]
    ELSE ring

\* A new buffer is needed for the target, and cannot be created.
StreamFindsNoMemory(count, lost) ==
  LET i == Target(count)
  IN /\ ~ring.segments[i].buffer
     /\ ring' = [ring EXCEPT !.active = i, !.segments[i].cursor = 0]
     /\ device' = IF lost THEN "lost" ELSE device
     /\ UNCHANGED <<currentFrame, completedFrame, frameFences, gpuDone, overwritten>>

\* Only a segment just moved to is asked about: an append goes ahead.
AsksForFence(count, completed) ==
  LET s == Prepared(count).segments[Target(count)]
  IN IF IsFull(count) /\ s.lastUse # 0
       THEN PollFences(s.lastUse, completed)
       ELSE completed = completedFrame

\* A segment started over whose Map failed: the cursor is at the front already,
\* and the next upload will not know that queued draws read what lies behind it.
Exposed(s) == [s EXCEPT !.reads = {[r EXCEPT !.exposed = TRUE] : r \in @}]

StreamCannotMap(count, lost) ==
  /\ ring' = IF IsFull(count)
                THEN [Prepared(count) EXCEPT !.segments[Target(count)] = Exposed(@)]
                ELSE ring
  /\ \E completed \in completedFrame .. currentFrame :
       AsksForFence(count, completed) /\ completedFrame' = completed
  /\ device' = IF lost THEN "lost" ELSE device
  /\ UNCHANGED <<currentFrame, frameFences, gpuDone, overwritten>>

Overlaps(r, lo, count) == r.lo < lo + count /\ lo < r.lo + r.count

\* A segment with the upload at its cursor, and the draw that reads it queued.
Appended(s, reads, count) ==
  [buffer |-> TRUE, cursor |-> s.cursor + count, lastUse |-> currentFrame,
   reads |-> reads \cup {[lo |-> s.cursor, count |-> count, frame |-> currentFrame,
                          exposed |-> FALSE]}]

\* The vertices are copied to the cursor, and the draw that reads them is queued.
StreamUpload(count) ==
  LET i == Target(count)
      s == Prepared(count).segments[i]
  IN \E completed \in completedFrame .. currentFrame :
       /\ AsksForFence(count, completed)
       /\ completedFrame' = completed
       /\ LET discard == IsFull(count) /\ s.lastUse > completed
              reads == IF discard THEN {} ELSE s.reads
              hit == {r \in reads : Overlaps(r, s.cursor, count)}
          IN /\ overwritten' = {r.exposed : r \in hit}
             /\ ring' = [Prepared(count) EXCEPT !.segments[i] = Appended(s, reads \ hit, count)]
       /\ UNCHANGED <<device, currentFrame, frameFences, gpuDone>>

\* DrawPrims (first = 0) and DrawPrimsIndexed: only the vertices the draw reads
\* are streamed.  A culled draw streams nothing and is not a step here.
DrawPrims(first, count) ==
  /\ device = "ready"
  /\ ExtensionReservationHolds(first + count)
  /\ count # 0
  /\ count <= SegmentVertices
  /\ \/ StreamUpload(count)
     \/ \E lost \in BOOLEAN : StreamCannotMap(count, lost)
     \/ \E lost \in BOOLEAN : StreamFindsNoMemory(count, lost)
  /\ UNCHANGED reservation

EndFrame(created) ==
  /\ EndFrameFence(created)
  /\ UNCHANGED <<ring, overwritten, reservation>>

GpuFinishes ==
  /\ GpuFinishesFrame
  /\ ring' = [ring EXCEPT !.segments = [i \in Indices |->
       [ring.segments[i] EXCEPT !.reads = {r \in @ : r.frame > gpuDone'}]]]
  /\ UNCHANGED <<overwritten, reservation>>

Counts == 1 .. MaxVertices

Next ==
  \/ CreateDevice
  \/ DestroyD3D11Context
  \/ \E count \in Counts : GetVertices(count)
  \/ \E count \in Counts : ContinueVertices(count)
  \/ ReleaseVertices
  \/ Reset
  \/ \E first \in 0 .. MaxVertices, count \in Counts : DrawPrims(first, count)
  \/ \E created \in BOOLEAN : EndFrame(created)
  \/ GpuFinishes

Spec == Init /\ [][Next]_vars

-----------------------------------------------------------------------------
(* What StreamUpload keeps of its "Appends never overlap what a queued     *)
(* draw reads": the only reads still queued that a write without a rename  *)
(* ever touches are those of a segment that was started over for an upload *)
(* whose Map then failed.  The next start of that segment makes it good.   *)
QueuedDrawsIntact == FALSE \notin overwritten

(* The comment as it stands, which the failed Map refutes: a segment taken *)
(* for one that is being appended to is written from the front, without    *)
(* asking the fences and without a rename.                                 *)
AppendsNeverOverlap == overwritten = {}

\* The reservation stays inside the extension's buffer across any sequence of
\* reservations and extensions, so what draws read and SC4 fills is allocated.
ReservationInBuffer ==
  /\ reservation.start <= reservation.cursor
  /\ reservation.cursor <= MaxVertices

\* Every write stays inside its segment, also after failed uploads.
StreamStaysInSegment ==
  \A i \in Indices : ring.segments[i].cursor <= SegmentVertices
================================================================================
