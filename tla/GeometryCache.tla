----------------------------- MODULE GeometryCache -----------------------------
(***************************************************************************)
(* One geometry cache of the driver (vertices or indices): a ring of       *)
(* dynamic buffers filled from the front, the table of what was uploaded   *)
(* where, and the rules for refilling a segment the GPU may still read.    *)
(*                                                                         *)
(* Every draw uploads its geometry with UploadCachedBuffer, or finds it    *)
(* with UseCachedBuffer, and then queues a draw that reads it.  The CPU    *)
(* runs ahead of the GPU: a queued draw reads its bytes some frames later. *)
(* A write with WRITE_NO_OVERWRITE changes the bytes those draws read; one *)
(* with WRITE_DISCARD renames the buffer and leaves their copy alone.      *)
(***************************************************************************)
EXTENDS FrameFences, FiniteSets

CONSTANTS
  Keys,             \* digests of the geometry SC4 draws
  Size,             \* bytes each key uploads
  Segments,         \* GEOMETRY_CACHE_SEGMENTS
  Configured,       \* segments in the untrimmed ring
  TrimmedSegments,  \* TRIMMED_CACHE_SEGMENTS
  NormalCapacity,   \* bytes of an ordinary segment
  MaxEntries,       \* MAX_CACHE_ENTRIES_PER_SEGMENT
  NoEntry, NoBuffer

ASSUME SizeAssumption == Size \in [Keys -> Nat \ {0}]
ASSUME RingAssumption ==
  /\ Configured \in Nat \ {0}
  /\ TrimmedSegments \in Nat \ {0}
  /\ Segments \in Nat
  /\ Configured <= Segments
\* A segment is a whole number of megabytes: an upload that fits the budget
\* also does when it is rounded up.
ASSUME CapacityAssumption ==
  /\ NormalCapacity \in Nat \ {0}
  /\ NormalCapacity % 4 = 0
  /\ MaxEntries \in Nat \ {0}
ASSUME NoBufferAssumption == NoBuffer \notin 0 .. Segments - 1
ASSUME NoEntryAssumption == NoEntry \notin [segment : 0 .. Segments - 1, offset : Nat]

VARIABLE
  cache  \* the segments, the table of entries, the active segment, whether the
         \* ring is trimmed, and the segment dynamicVertexBuffer or
         \* dynamicIndexBuffer points into

vars == <<fenceVars, cache>>

Indices == 0 .. Segments - 1
Span == [key : Keys, lo : Nat]
Read == [key : Keys, lo : Nat, frame : Nat]
Entry == [segment : Indices, offset : Nat]

(***************************************************************************)
(* Two fields are history, which the driver does not keep: reads is what   *)
(* draws still queued read from the buffer's current copy, and spans what  *)
(* that copy holds of it and of the segment's keys.  Bytes that belong to  *)
(* neither are not recorded.                                               *)
(***************************************************************************)
Segment == [buffer : BOOLEAN, capacity : Nat, cursor : Nat, lastUse : Nat,
            keys : SUBSET Keys, spans : SUBSET Span, reads : SUBSET Read]

FreeSegment == [buffer |-> FALSE, capacity |-> 0, cursor |-> 0, lastUse |-> 0,
                keys |-> {}, spans |-> {}, reads |-> {}]

EmptyCache(trimmed) ==
  [segments |-> [i \in Indices |-> FreeSegment],
   entries |-> [k \in Keys |-> NoEntry],
   active |-> 0, trimmed |-> trimmed, dynamic |-> NoBuffer]

Cache == [segments : [Indices -> Segment],
          entries : [Keys -> Entry \cup {NoEntry}],
          active : Indices, trimmed : BOOLEAN,
          dynamic : Indices \cup {NoBuffer}]

TypeOK == FencesTypeOK /\ cache \in Cache

Least(m, n) == IF m < n THEN m ELSE n
Greatest(m, n) == IF m < n THEN n ELSE m
RoundUp(n) == ((n + 3) \div 4) * 4

\* The segments the ring goes round.
Ring(trimmed) == IF trimmed THEN Least(Configured, TrimmedSegments) ELSE Configured
Budget == NormalCapacity * Configured

\* Of the bytes spans, the ones that keys or reads refer to.
Held(spans, keys, reads) ==
  {x \in spans : x.key \in keys \/ \E r \in reads : r.key = x.key /\ r.lo = x.lo}

Disjoint(s, lo, bytes) == s.lo + Size[s.key] <= lo \/ lo + bytes <= s.lo

-----------------------------------------------------------------------------
(* What a segment is cleared and refilled by.                              *)

\* The keys whose entries clearing the segments of S erases: only the ones listed
\* in a segment's keys are looked for.
Erased(c, S) ==
  {k \in Keys :
     /\ c.entries[k] # NoEntry
     /\ c.entries[k].segment \in S
     /\ k \in c.segments[c.entries[k].segment].keys}

\* ClearCacheSegment, for the segments of a set.  Releasing also frees the buffer
\* and forgets it as the last upload's buffer (ReleaseSegmentBuffer).
ClearSegments(c, S, release) ==
  [segments |-> [i \in Indices |->
     IF i \notin S THEN c.segments[i]
     ELSE IF release THEN FreeSegment
     ELSE [c.segments[i] EXCEPT
             !.cursor = 0, !.keys = {},
             !.spans = Held(@, {}, c.segments[i].reads)]],
   entries |-> [k \in Keys |-> IF k \in Erased(c, S) THEN NoEntry ELSE c.entries[k]],
   active |-> c.active, trimmed |-> c.trimmed,
   dynamic |-> IF release /\ c.dynamic \in S THEN NoBuffer ELSE c.dynamic]

\* TrimCache: everything past the shortened ring goes back to SC4.
TrimCache(c) ==
  [ClearSegments(c, {i \in Indices : i >= Ring(TRUE)}, TRUE) EXCEPT !.trimmed = TRUE]

\* The active segment cannot take bytes more.
IsFull(c, bytes) ==
  LET s == c.segments[c.active]
  IN \/ ~s.buffer
     \/ s.cursor + bytes > s.capacity
     \/ Cardinality(s.keys) >= MaxEntries

(***************************************************************************)
(* The ring moves on: it is trimmed when address space is low and restored *)
(* when there is plenty, and the segment it arrives at is emptied.  A      *)
(* segment left empty by an upload that failed is used without moving.     *)
(***************************************************************************)
Recycle(c, bytes, space) ==
  LET used == c.segments[c.active].buffer /\ c.segments[c.active].cursor # 0
      trims == used /\ ~c.trimmed /\ space = "low"
      grows == used /\ c.trimmed /\ space = "plenty"
      resized == IF trims THEN TrimCache(c)
                 ELSE [c EXCEPT !.trimmed = @ /\ ~grows]
      active == IF used THEN (c.active + 1) % Ring(resized.trimmed) ELSE c.active
      oversized == /\ resized.segments[active].capacity > NormalCapacity
                   /\ bytes <= NormalCapacity
  IN [ClearSegments(resized, {active}, oversized) EXCEPT !.active = active]

\* The bytes of the buffers of the segments of S, each as its segment and its place.
Bytes(c, S) == UNION {{i} \X (1 .. c.segments[i].capacity) : i \in S}

Total(c, S) == Cardinality(Bytes(c, S))

\* Mutant of Fits: the new buffer itself is not counted.
FitsAlready(c, S, capacity) == Total(c, Indices \ (S \cup {c.active})) <= Budget

\* A new buffer for the active segment fits the budget without the segments of S.
Fits(c, S, capacity) == Total(c, Indices \ (S \cup {c.active})) + capacity <= Budget

(***************************************************************************)
(* The segments released to make room for a buffer of capacity bytes: the  *)
(* ones after the active segment, for as long as the budget is exceeded    *)
(* without the ones before them.                                           *)
(***************************************************************************)
Victims(c, capacity) ==
  LET ring == Ring(c.trimmed)
      After(n) == {(c.active + step) % ring : step \in 1 .. n}
      Needed == {step \in 1 .. ring - 1 : ~Fits(c, After(step - 1), capacity)}
  IN {(c.active + step) % ring : step \in Needed}

NeedsBuffer(c, bytes) ==
  ~c.segments[c.active].buffer \/ c.segments[c.active].capacity < bytes

\* The active segment without its buffer.  lastUse keeps its value.
DropBuffer(c) ==
  [c EXCEPT !.segments[c.active] =
     [@ EXCEPT !.buffer = FALSE, !.capacity = 0, !.spans = {}, !.reads = {}]]

\* ReleaseSegmentBuffer: nothing points to the buffer any more.
WithoutBuffer(c) ==
  [DropBuffer(c) EXCEPT !.dynamic = IF @ = c.active THEN NoBuffer ELSE @]

WithBuffer(c, capacity) ==
  [c EXCEPT !.segments[c.active] =
     [@ EXCEPT !.buffer = TRUE, !.capacity = capacity, !.lastUse = 0]]

\* After one failed allocation every other segment is dropped for the retry.
DropOthers(c) == ClearSegments(c, Indices \ {c.active}, TRUE)

(***************************************************************************)
(* The active segment gets a buffer.  alloc is how CreateBuffer answers:   *)
(* "ok", "retry" (only the second, smaller attempt succeeds), "fail" (no   *)
(* attempt does), "lost" (the first attempt finds the device lost).        *)
(***************************************************************************)
Allocate(c, bytes, alloc) ==
  LET capacity == Greatest(NormalCapacity, bytes)
      freed == WithoutBuffer(ClearSegments(c, Victims(c, capacity), TRUE))
  IN CASE alloc = "ok" -> WithBuffer(freed, capacity)
       [] alloc = "retry" -> WithBuffer(DropOthers(freed), RoundUp(bytes))
       [] alloc = "fail" -> DropOthers(freed)
       [] alloc = "lost" -> freed

\* The cache once the active segment has had its chance to move on.
Advanced(k, space) ==
  IF IsFull(cache, Size[k]) THEN Recycle(cache, Size[k], space) ELSE cache

\* The cache with room for k in its active segment, when allocation succeeds.
Room(k, space, alloc) ==
  LET c == Advanced(k, space)
  IN IF IsFull(cache, Size[k]) /\ NeedsBuffer(c, Size[k])
       THEN Allocate(c, Size[k], alloc) ELSE c

\* The active segment is filled from the start again.
Refill(c) == c.segments[c.active].cursor = 0 /\ c.segments[c.active].lastUse # 0

\* Mutant of Listed: the entry is inserted first, and the key is not listed when
\* there is no memory for it.
ListedOnce(keys, k, remembered) == IF remembered /\ keys = {} THEN {k} ELSE keys

\* The keys of a segment k was uploaded to: k is taken off again when the table
\* has no memory for its entry.
Listed(keys, k, remembered) == IF remembered THEN keys \cup {k} ELSE keys

(***************************************************************************)
(* The upload is copied to the cursor.  Renaming leaves the bytes of the   *)
(* new copy undefined and the queued draws with the old one.  remembered   *)
(* is FALSE when the bookkeeping ran out of memory.                        *)
(***************************************************************************)
Write(c, k, discard, remembered) ==
  LET i == c.active
      s == c.segments[i]
      kept == IF discard THEN {} ELSE {x \in s.spans : Disjoint(x, s.cursor, Size[k])}
  IN [c EXCEPT
       !.segments[i] = [s EXCEPT
          !.spans = kept \cup {[key |-> k, lo |-> s.cursor]},
          !.reads = IF discard THEN {} ELSE @,
          !.cursor = RoundUp(s.cursor + Size[k]),
          !.lastUse = currentFrame,
          !.keys = Listed(@, k, remembered)],
       !.entries[k] = IF remembered THEN [segment |-> i, offset |-> s.cursor] ELSE @,
       !.dynamic = i]

\* A draw queued now reads k at offset lo of the segment just used.
Queue(c, k, lo) ==
  [c EXCEPT !.segments[c.dynamic].reads =
     @ \cup {[key |-> k, lo |-> lo, frame |-> currentFrame]}]

-----------------------------------------------------------------------------
Init ==
  /\ device = "none"
  /\ FencesInit
  /\ cache = EmptyCache(FALSE)

\* SetVideoMode creates a device and its context.
CreateDevice ==
  /\ device = "none"
  /\ device' = "ready"
  /\ UNCHANGED <<currentFrame, completedFrame, frameFences, gpuDone, cache>>

(***************************************************************************)
(* DestroyD3D11Context: the segments, the tables, the fences and the frame *)
(* count start over.  Only vertexCacheTrimmed and indexCacheTrimmed stay.  *)
(***************************************************************************)
DestroyD3D11Context ==
  /\ device # "none"
  /\ device' = "none"
  /\ ForgetFences
  /\ cache' = EmptyCache(cache.trimmed)

\* The table leads k to a segment that has its buffer.
Cached(k) ==
  /\ cache.entries[k] # NoEntry
  /\ cache.segments[cache.entries[k].segment].buffer

\* Mutant of UseCachedBuffer: a hit does not count as a use of the segment.
UseCachedBufferUnnoticed(k) ==
  LET e == cache.entries[k]
      used == [cache EXCEPT !.dynamic = e.segment]
  IN /\ Cached(k)
     /\ cache' = IF device = "ready" THEN Queue(used, k, e.offset) ELSE used
     /\ UNCHANGED fenceVars

(***************************************************************************)
(* UseCachedBuffer finds k: no upload, but the segment is used this frame. *)
(* A draw looks its geometry up before anything asks whether the device is *)
(* lost, and is then not queued.                                           *)
(***************************************************************************)
UseCachedBuffer(k) ==
  LET e == cache.entries[k]
      used == [cache EXCEPT !.segments[e.segment].lastUse = currentFrame,
                            !.dynamic = e.segment]
  IN /\ Cached(k)
     /\ cache' = IF device = "ready" THEN Queue(used, k, e.offset) ELSE used
     /\ UNCHANGED fenceVars

\* What UploadCachedBuffer requires before it looks for room.
Misses(k) ==
  /\ device = "ready"
  /\ ~Cached(k)
  /\ Size[k] <= Budget

\* UploadCachedBuffer, when the segment cannot be given a buffer.
UploadFindsNoMemory(k, space, alloc) ==
  /\ Misses(k)
  /\ IsFull(cache, Size[k])
  /\ NeedsBuffer(Advanced(k, space), Size[k])
  /\ alloc \in {"fail", "lost"}
  /\ cache' = Room(k, space, alloc)
  /\ device' \in IF alloc = "lost" THEN {"lost"} ELSE {device, "lost"}
  /\ UNCHANGED <<currentFrame, completedFrame, frameFences, gpuDone>>

\* FrameCompleted is asked only for a refill, and can move completedFrame up.
AsksForFence(c, completed) ==
  IF Refill(c) THEN PollFences(c.segments[c.active].lastUse, completed)
               ELSE completed = completedFrame

\* UploadCachedBuffer, when the segment cannot be mapped.
UploadCannotMap(k, space, alloc, lost) ==
  /\ Misses(k)
  /\ alloc \in {"ok", "retry"}
  /\ LET c == Room(k, space, alloc)
     IN /\ cache' = c
        /\ \E completed \in completedFrame .. currentFrame :
             /\ AsksForFence(c, completed)
             /\ completedFrame' = completed
  /\ device' = IF lost THEN "lost" ELSE device
  /\ UNCHANGED <<currentFrame, frameFences, gpuDone>>

(***************************************************************************)
(* UploadCachedBuffer, when it succeeds, and the draw that reads the       *)
(* upload.  When something else the draw needs fails it is not queued, so  *)
(* there is less to read than here, never more.                            *)
(***************************************************************************)
UploadCachedBuffer(k, space, alloc, remembered) ==
  /\ Misses(k)
  /\ alloc \in {"ok", "retry"}
  /\ LET c == Room(k, space, alloc)
     IN \E completed \in completedFrame .. currentFrame :
          /\ AsksForFence(c, completed)
          /\ completedFrame' = completed
          /\ LET discard == Refill(c) /\ c.segments[c.active].lastUse > completed
             IN cache' = Queue(Write(c, k, discard, remembered),
                               k, c.segments[c.active].cursor)
  /\ UNCHANGED <<device, currentFrame, frameFences, gpuDone>>

(***************************************************************************)
(* Flush ends the frame (EndFrameFence), then checks for low address space *)
(* (TrimGeometryCachesIfLow), at most once a second.                       *)
(***************************************************************************)
EndFrame(created, low) ==
  /\ EndFrameFence(created)
  /\ cache' = IF low /\ ~cache.trimmed
                THEN [TrimCache(cache) EXCEPT
                        !.active = IF @ >= Ring(TRUE) THEN 0 ELSE @]
                ELSE cache

\* The GPU finishes a frame: the reads of its draws are over.
GpuFinishes ==
  /\ GpuFinishesFrame
  /\ cache' = [cache EXCEPT !.segments = [i \in Indices |->
       LET s == cache.segments[i]
           pending == {r \in s.reads : r.frame > gpuDone'}
       IN [s EXCEPT !.reads = pending, !.spans = Held(@, s.keys, pending)]]]

\* AvailableAddressSpace is only asked when a used segment is full.
Spaces(k) ==
  IF IsFull(cache, Size[k]) /\ cache.segments[cache.active].cursor # 0
    THEN {"low", "some", "plenty"} ELSE {"some"}

\* CreateBuffer is only asked when the segment has no buffer large enough.
Allocations(k, space) ==
  IF IsFull(cache, Size[k]) /\ NeedsBuffer(Advanced(k, space), Size[k])
    THEN {"ok", "retry"} ELSE {"ok"}

Next ==
  \/ CreateDevice
  \/ DestroyD3D11Context
  \/ \E k \in Keys : UseCachedBuffer(k)
  \/ \E k \in Keys : \E space \in Spaces(k), alloc \in {"fail", "lost"} :
       UploadFindsNoMemory(k, space, alloc)
  \/ \E k \in Keys : \E space \in Spaces(k) :
     \E alloc \in Allocations(k, space), lost \in BOOLEAN :
       UploadCannotMap(k, space, alloc, lost)
  \/ \E k \in Keys : \E space \in Spaces(k) :
     \E alloc \in Allocations(k, space), remembered \in BOOLEAN :
       UploadCachedBuffer(k, space, alloc, remembered)
  \/ \E created \in BOOLEAN, low \in BOOLEAN : EndFrame(created, low)
  \/ GpuFinishes

Spec == Init /\ [][Next]_vars

-----------------------------------------------------------------------------
(* Every draw still queued finds the bytes it was queued with: no write    *)
(* without a rename touches bytes of a frame the GPU has not finished      *)
(* (UploadCachedBuffer: "Appends never overlap anything a queued draw      *)
(* reads").                                                                *)
QueuedDrawsIntact ==
  \A i \in Indices : \A r \in cache.segments[i].reads :
    [key |-> r.key, lo |-> r.lo] \in cache.segments[i].spans

\* A cache hit hands out bytes that really are the geometry of its key, in a
\* buffer that exists, whatever was cleared, renamed or released since.
EntriesHoldTheirData ==
  \A k \in Keys : cache.entries[k] # NoEntry =>
    LET e == cache.entries[k]
        s == cache.segments[e.segment]
    IN /\ s.buffer
       /\ e.offset + Size[k] <= s.capacity
       /\ [key |-> k, lo |-> e.offset] \in s.spans

\* A segment's keys are exactly the keys whose entry is in it, so that clearing
\* the segment forgets all of them and no key is listed twice.
KeysMatchEntries ==
  \A i \in Indices :
    cache.segments[i].keys =
      {k \in Keys : cache.entries[k] # NoEntry /\ cache.entries[k].segment = i}

\* The buffers together never exceed the configured cache size, also while
\* oversized uploads come and go, and allocations fail half way.
WithinBudget == Total(cache, Indices) <= Budget

\* A trimmed ring keeps nothing past its end, and the next upload goes to a
\* segment that is still in the ring.
TrimmedRingHoldsNothingElse ==
  /\ cache.active < Ring(cache.trimmed)
  /\ \A i \in Indices :
       i >= Ring(cache.trimmed) => cache.segments[i].capacity = 0

\* However uploads fail, and between whichever frames the ring is trimmed, the
\* memory of a 32-bit process that buffers take is bounded.
RingKeepsItsBudget == WithinBudget /\ TrimmedRingHoldsNothingElse

\* dynamicVertexBuffer and dynamicIndexBuffer are raw pointers: the segment
\* they point into still has its buffer.
DynamicBufferIsLive ==
  cache.dynamic # NoBuffer => cache.segments[cache.dynamic].buffer
================================================================================
