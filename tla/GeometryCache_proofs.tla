-------------------------- MODULE GeometryCache_proofs -------------------------
(***************************************************************************)
(* Safety of the geometry cache for every number of keys, segments and     *)
(* fences, every size, and every order of draws, failures and frames.      *)
(*                                                                         *)
(* What queued draws read stays untouched because of what a segment's      *)
(* lastUse and cursor say of them: no draw after frame lastUse reads the   *)
(* segment, and nothing at or past a cursor that has left the front is     *)
(* read.  A refill asks the fences about lastUse, an append stays past the *)
(* cursor.  What a hit hands out is right because clearing a segment finds *)
(* every entry that leads there among the segment's keys.                  *)
(***************************************************************************)
EXTENDS GeometryCache, FlatTable, FrameFences_proofs, FiniteSetTheorems,
        WellFoundedInduction

\* What the queued draws of one segment rely on.
ReadsAreSafe(s, now, done) ==
  /\ s.lastUse <= now
  /\ \A r \in s.reads : [key |-> r.key, lo |-> r.lo] \in s.spans
  /\ \A r \in s.reads : done < r.frame /\ r.frame <= s.lastUse
  /\ s.cursor = 0 \/ \A r \in s.reads : r.lo + Size[r.key] <= s.cursor

\* What a hit for key k relies on.
EntryIsSafe(c, k) ==
  LET e == c.entries[k]
      s == c.segments[e.segment]
  IN /\ s.buffer
     /\ k \in s.keys
     /\ [key |-> k, lo |-> e.offset] \in s.spans
     /\ e.offset + Size[k] <= s.cursor
     /\ e.offset + Size[k] <= s.capacity

\* The inductive invariant of the cache, in frame now with the frames up to done
\* finished.
CacheIsSafe(c, now, done) ==
  /\ c \in Cache
  /\ \A i \in Indices : ReadsAreSafe(c.segments[i], now, done)
  /\ \A k \in Keys : c.entries[k] # NoEntry => EntryIsSafe(c, k)
  /\ \A i \in Indices : \A k \in c.segments[i].keys :
       c.entries[k] # NoEntry /\ c.entries[k].segment = i
  /\ c.dynamic # NoBuffer => c.segments[c.dynamic].buffer

Safe == FencesAreSafe /\ CacheIsSafe(cache, currentFrame, gpuDone)

-----------------------------------------------------------------------------
(* The ring and the segments there are.                                    *)

\* Whatever its length, the ring stays among the segments, and is never empty.
LEMMA RingIsThere ==
  ASSUME NEW trimmed \in BOOLEAN
  PROVE  /\ Ring(trimmed) \in Nat \ {0}
         /\ Ring(trimmed) <= Segments
         /\ 0 \in Indices
         /\ \A n \in Nat : n % Ring(trimmed) \in Indices
<1>1. /\ Ring(trimmed) \in Nat \ {0}
      /\ Ring(trimmed) <= Segments
  BY RingAssumption DEF Ring, Least
<1>2. \A n \in Nat : n % Ring(trimmed) \in 0 .. Ring(trimmed) - 1
  BY <1>1
<1> QED
  BY <1>1, <1>2, RingAssumption DEF Indices

\* A free segment is safe, whatever frame it is.
LEMMA FreeSegmentIsSafe ==
  /\ FreeSegment \in Segment
  /\ \A now, done \in Nat : ReadsAreSafe(FreeSegment, now, done)
BY DEF FreeSegment, Segment, ReadsAreSafe

\* A cache without segments in use is safe.
LEMMA EmptyCacheIsSafe ==
  ASSUME NEW trimmed \in BOOLEAN, NEW now \in Nat, NEW done \in Nat
  PROVE  CacheIsSafe(EmptyCache(trimmed), now, done)
<1> DEFINE c == EmptyCache(trimmed)
<1>1. c \in Cache
  BY FreeSegmentIsSafe, RingIsThere DEF EmptyCache, Cache
<1>2. \A i \in Indices : ReadsAreSafe(c.segments[i], now, done)
  BY FreeSegmentIsSafe DEF EmptyCache
<1>3. \A k \in Keys : c.entries[k] = NoEntry
  BY DEF EmptyCache
<1>4. \A i \in Indices : c.segments[i].keys = {}
  BY DEF EmptyCache, FreeSegment
<1>5. c.dynamic = NoBuffer
  BY DEF EmptyCache
<1> QED
  BY <1>1, <1>2, <1>3, <1>4, <1>5 DEF CacheIsSafe

-----------------------------------------------------------------------------
(* Clearing segments.                                                      *)

\* What clearing makes of one segment and of its reads.
LEMMA ClearedSegment ==
  ASSUME NEW s \in Segment, NEW now \in Nat, NEW done \in Nat, ReadsAreSafe(s, now, done)
  PROVE  LET cleared == [s EXCEPT !.cursor = 0, !.keys = {}, !.spans = Held(@, {}, s.reads)]
         IN /\ cleared \in Segment
            /\ ReadsAreSafe(cleared, now, done)
            /\ cleared.buffer = s.buffer
            /\ cleared.capacity = s.capacity
            /\ cleared.cursor = 0
            /\ cleared.keys = {}
<1> DEFINE cleared == [s EXCEPT !.cursor = 0, !.keys = {}, !.spans = Held(@, {}, s.reads)]
<1>1. Held(s.spans, {}, s.reads) \in SUBSET Span
  BY DEF Held, Segment
<1>2. cleared \in Segment
  BY <1>1 DEF Segment
<1>3. /\ cleared.buffer = s.buffer
      /\ cleared.capacity = s.capacity
      /\ cleared.cursor = 0
      /\ cleared.keys = {}
      /\ cleared.lastUse = s.lastUse
      /\ cleared.reads = s.reads
      /\ cleared.spans = Held(s.spans, {}, s.reads)
  BY DEF Segment
<1>4. \A r \in s.reads : [key |-> r.key, lo |-> r.lo] \in Held(s.spans, {}, s.reads)
  BY DEF Held, ReadsAreSafe
<1> HIDE DEF cleared
<1>5. ReadsAreSafe(cleared, now, done)
  BY <1>3, <1>4 DEF ReadsAreSafe
<1> QED
  BY <1>2, <1>3, <1>5 DEF cleared

\* Clearing any set of segments, released or not, keeps the cache safe: no entry
\* is left that leads to one of them.
LEMMA ClearedCache ==
  ASSUME NEW c, NEW S, NEW release \in BOOLEAN, NEW now \in Nat, NEW done \in Nat,
         CacheIsSafe(c, now, done)
  PROVE  LET d == ClearSegments(c, S, release)
         IN /\ CacheIsSafe(d, now, done)
            /\ d.active = c.active
            /\ d.trimmed = c.trimmed
            /\ \A k \in Keys : d.entries[k] \in {c.entries[k], NoEntry}
            /\ \A i \in Indices \cap S : d.segments[i].cursor = 0 /\ d.segments[i].keys = {}
            /\ release => \A i \in Indices \cap S : d.segments[i] = FreeSegment
<1> DEFINE d == ClearSegments(c, S, release)
           Cleared(i) == [c.segments[i] EXCEPT !.cursor = 0, !.keys = {},
                                               !.spans = Held(@, {}, c.segments[i].reads)]
<1>1. /\ c \in Cache
      /\ \A i \in Indices : c.segments[i] \in Segment
      /\ \A i \in Indices : ReadsAreSafe(c.segments[i], now, done)
      /\ \A k \in Keys : c.entries[k] \in Entry \cup {NoEntry}
  BY DEF CacheIsSafe, Cache
<1>2. /\ d.segments = [i \in Indices |->
                        IF i \notin S THEN c.segments[i]
                        ELSE IF release THEN FreeSegment ELSE Cleared(i)]
      /\ d.entries = [k \in Keys |-> IF k \in Erased(c, S) THEN NoEntry ELSE c.entries[k]]
      /\ d.dynamic = IF release /\ c.dynamic \in S THEN NoBuffer ELSE c.dynamic
      /\ d.active = c.active
      /\ d.trimmed = c.trimmed
      /\ d = [segments |-> d.segments, entries |-> d.entries, active |-> d.active,
              trimmed |-> d.trimmed, dynamic |-> d.dynamic]
  BY DEF ClearSegments
<1> HIDE DEF d
<1>3. \A i \in Indices : d.segments[i] \in Segment /\ ReadsAreSafe(d.segments[i], now, done)
  <2> TAKE i \in Indices
  <2>1. Cleared(i) \in Segment /\ ReadsAreSafe(Cleared(i), now, done)
    BY <1>1, ClearedSegment
  <2> QED
    BY <1>1, <1>2, <2>1, FreeSegmentIsSafe
<1>4. \A i \in Indices : i \notin S => d.segments[i] = c.segments[i]
  BY <1>2
<1>5. release => \A i \in Indices \cap S : d.segments[i] = FreeSegment
  BY <1>2
<1>6. \A i \in Indices \cap S : d.segments[i].cursor = 0 /\ d.segments[i].keys = {}
  <2> TAKE i \in Indices \cap S
  <2>1. CASE release
    BY <2>1, <1>5 DEF FreeSegment
  <2>2. CASE ~release
    <3>1. d.segments[i] = Cleared(i)
      BY <2>2, <1>2
    <3> QED
      BY <3>1, <1>1, ClearedSegment
  <2> QED
    BY <2>1, <2>2
<1>7. d \in Cache
  <2>1. d.segments \in [Indices -> Segment]
    BY <1>2, <1>3
  <2>2. d.entries \in [Keys -> Entry \cup {NoEntry}]
    BY <1>1, <1>2
  <2>3. /\ d.active \in Indices
        /\ d.trimmed \in BOOLEAN
        /\ d.dynamic \in Indices \cup {NoBuffer}
    BY <1>1, <1>2 DEF Cache
  <2> QED
    BY <1>2, <2>1, <2>2, <2>3 DEF Cache
<1>8. \A k \in Keys : d.entries[k] \in {c.entries[k], NoEntry}
  BY <1>2
\* An entry that is left leads past S: its key is among its segment's keys.
<1>9. \A k \in Keys : d.entries[k] # NoEntry =>
        /\ d.entries[k] = c.entries[k]
        /\ c.entries[k].segment \in Indices \ S
  <2> SUFFICES ASSUME NEW k \in Keys, d.entries[k] # NoEntry
               PROVE  /\ d.entries[k] = c.entries[k]
                      /\ c.entries[k].segment \in Indices \ S
    OBVIOUS
  <2>1. d.entries[k] = c.entries[k] /\ k \notin Erased(c, S)
    BY <1>2
  <2>2. c.entries[k] \in Entry /\ k \in c.segments[c.entries[k].segment].keys
    BY <2>1, <1>1 DEF CacheIsSafe, EntryIsSafe
  <2> QED
    BY <2>1, <2>2 DEF Erased, Entry
<1>10. \A k \in Keys : d.entries[k] # NoEntry => EntryIsSafe(d, k)
  <2> SUFFICES ASSUME NEW k \in Keys, d.entries[k] # NoEntry
               PROVE  EntryIsSafe(d, k)
    OBVIOUS
  <2>1. /\ d.entries[k] = c.entries[k]
        /\ d.segments[c.entries[k].segment] = c.segments[c.entries[k].segment]
    BY <1>4, <1>9
  <2>2. EntryIsSafe(c, k)
    BY <2>1 DEF CacheIsSafe
  <2> QED
    BY <2>1, <2>2 DEF EntryIsSafe
<1>11. \A i \in Indices : \A k \in d.segments[i].keys :
         d.entries[k] # NoEntry /\ d.entries[k].segment = i
  <2> SUFFICES ASSUME NEW i \in Indices, NEW k \in d.segments[i].keys
               PROVE  d.entries[k] # NoEntry /\ d.entries[k].segment = i
    OBVIOUS
  <2>1. i \notin S /\ k \in c.segments[i].keys /\ k \in Keys
    BY <1>1, <1>4, <1>6 DEF Segment
  <2>2. c.entries[k] # NoEntry /\ c.entries[k].segment = i
    BY <2>1 DEF CacheIsSafe
  <2>3. k \notin Erased(c, S)
    BY <2>1, <2>2 DEF Erased
  <2> QED
    BY <1>2, <2>1, <2>2, <2>3
<1>12. d.dynamic # NoBuffer => d.segments[d.dynamic].buffer
  <2> SUFFICES ASSUME d.dynamic # NoBuffer
               PROVE  d.segments[d.dynamic].buffer
    OBVIOUS
  <2>1. d.dynamic = c.dynamic /\ c.dynamic \in Indices /\ ~(release /\ c.dynamic \in S)
    BY <1>1, <1>2 DEF Cache
  <2>2. c.segments[c.dynamic].buffer
    BY <2>1 DEF CacheIsSafe
  <2>3. CASE c.dynamic \notin S
    BY <2>1, <2>2, <2>3, <1>4
  <2>4. CASE c.dynamic \in S
    <3>1. d.segments[c.dynamic] = Cleared(c.dynamic)
      BY <2>1, <2>4, <1>2
    <3>2. Cleared(c.dynamic).buffer = c.segments[c.dynamic].buffer
      BY <2>1, <1>1, ClearedSegment
    <3> QED
      BY <2>1, <2>2, <3>1, <3>2
  <2> QED
    BY <2>3, <2>4
<1>13. CacheIsSafe(d, now, done)
  BY <1>3, <1>7, <1>10, <1>11, <1>12 DEF CacheIsSafe
<1> QED
  BY <1>2, <1>5, <1>6, <1>8, <1>13 DEF d

-----------------------------------------------------------------------------
(* The ring moves on.                                                      *)

\* Which segment is active, and how long the ring is, is no part of being safe.
LEMMA SameContents ==
  ASSUME NEW c, NEW d \in Cache, NEW now \in Nat, NEW done \in Nat,
         CacheIsSafe(c, now, done),
         d.segments = c.segments, d.entries = c.entries, d.dynamic = c.dynamic
  PROVE  CacheIsSafe(d, now, done)
<1>1. \A k \in Keys : EntryIsSafe(c, k) <=> EntryIsSafe(d, k)
  BY DEF EntryIsSafe
<1> QED
  BY <1>1 DEF CacheIsSafe

\* TrimCache keeps what it leaves safe.
LEMMA TrimmedCache ==
  ASSUME NEW c, NEW now \in Nat, NEW done \in Nat, CacheIsSafe(c, now, done)
  PROVE  /\ CacheIsSafe(TrimCache(c), now, done)
         /\ TrimCache(c).active = c.active
         /\ TrimCache(c).trimmed = TRUE
         /\ \A k \in Keys : TrimCache(c).entries[k] \in {c.entries[k], NoEntry}
<1> DEFINE b == ClearSegments(c, {i \in Indices : i >= Ring(TRUE)}, TRUE)
           d == [b EXCEPT !.trimmed = TRUE]
<1>1. /\ CacheIsSafe(b, now, done)
      /\ b.active = c.active
      /\ \A k \in Keys : b.entries[k] \in {c.entries[k], NoEntry}
  BY ClearedCache
<1> HIDE DEF b
<1>2. b \in Cache
  BY <1>1 DEF CacheIsSafe
<1>3. /\ d \in Cache
      /\ d.segments = b.segments /\ d.entries = b.entries /\ d.dynamic = b.dynamic
      /\ d.active = b.active /\ d.trimmed = TRUE
  BY <1>2 DEF Cache
<1>4. CacheIsSafe(d, now, done)
  BY <1>1, <1>3, SameContents
<1> QED
  BY <1>1, <1>3, <1>4 DEF TrimCache, b

\* The segment the ring arrives at is empty, and every entry that led to it is gone.
LEMMA RecycledCache ==
  ASSUME NEW c, NEW bytes, NEW space, NEW now \in Nat, NEW done \in Nat,
         CacheIsSafe(c, now, done)
  PROVE  LET d == Recycle(c, bytes, space)
         IN /\ CacheIsSafe(d, now, done)
            /\ d.segments[d.active].cursor = 0
            /\ d.segments[d.active].keys = {}
            /\ \A k \in Keys : d.entries[k] \in {c.entries[k], NoEntry}
<1> DEFINE used == c.segments[c.active].buffer /\ c.segments[c.active].cursor # 0
           trims == used /\ ~c.trimmed /\ space = "low"
           grows == used /\ c.trimmed /\ space = "plenty"
           resized == IF trims THEN TrimCache(c) ELSE [c EXCEPT !.trimmed = @ /\ ~grows]
           active == IF used THEN (c.active + 1) % Ring(resized.trimmed) ELSE c.active
           oversized == /\ resized.segments[active].capacity > NormalCapacity
                        /\ bytes <= NormalCapacity
           cleared == ClearSegments(resized, {active}, oversized)
           d == [cleared EXCEPT !.active = active]
<1>1. c \in Cache /\ c.active \in Indices /\ c.trimmed \in BOOLEAN
  BY DEF CacheIsSafe, Cache
<1>2. /\ CacheIsSafe(resized, now, done)
      /\ \A k \in Keys : resized.entries[k] \in {c.entries[k], NoEntry}
  <2>1. CASE trims
    BY <2>1, TrimmedCache
  <2>2. CASE ~trims
    <3>1. resized = [c EXCEPT !.trimmed = c.trimmed /\ ~grows]
      BY <2>2
    <3>2. (c.trimmed /\ ~grows) \in BOOLEAN
      OBVIOUS
    <3> HIDE DEF grows, resized
    <3>3. /\ resized \in Cache
          /\ resized.segments = c.segments /\ resized.entries = c.entries
          /\ resized.dynamic = c.dynamic
      BY <1>1, <3>1, <3>2 DEF Cache
    <3> QED
      BY <3>3, SameContents
  <2> QED
    BY <2>1, <2>2
<1> HIDE DEF resized
<1>3. resized.trimmed \in BOOLEAN
  BY <1>2 DEF CacheIsSafe, Cache
<1>4. active \in Indices
  <2>1. c.active + 1 \in Nat
    BY <1>1 DEF Indices
  <2>2. (c.active + 1) % Ring(resized.trimmed) \in Indices
    BY <1>3, <2>1, RingIsThere
  <2> QED
    BY <1>1, <2>2
<1> HIDE DEF used, active
<1>5. /\ CacheIsSafe(cleared, now, done)
      /\ \A k \in Keys : cleared.entries[k] \in {resized.entries[k], NoEntry}
      /\ cleared.segments[active].cursor = 0
      /\ cleared.segments[active].keys = {}
  <2>1. oversized \in BOOLEAN
    OBVIOUS
  <2> HIDE DEF oversized
  <2> QED
    BY <1>2, <1>4, <2>1, ClearedCache
<1> HIDE DEF cleared
<1>6. cleared \in Cache
  BY <1>5 DEF CacheIsSafe
<1>7. /\ d \in Cache
      /\ d.segments = cleared.segments /\ d.entries = cleared.entries
      /\ d.dynamic = cleared.dynamic /\ d.active = active
  BY <1>4, <1>6 DEF Cache
<1>8. CacheIsSafe(d, now, done)
  BY <1>5, <1>7, SameContents
<1>9. \A k \in Keys : d.entries[k] \in {c.entries[k], NoEntry}
  BY <1>2, <1>5, <1>7
<1>10. Recycle(c, bytes, space) = d
  BY DEF Recycle, d, cleared, active, resized, used
<1> HIDE DEF d
<1> QED
  BY <1>5, <1>7, <1>8, <1>9, <1>10

-----------------------------------------------------------------------------
(* The active segment gets a buffer.                                       *)

\* A segment that no entry leads to may be replaced by any safe one without keys.
LEMMA ReplacedSegment ==
  ASSUME NEW c, NEW d \in Cache, NEW now \in Nat, NEW done \in Nat,
         NEW i \in Indices, NEW t \in Segment,
         CacheIsSafe(c, now, done),
         c.segments[i].keys = {},
         ReadsAreSafe(t, now, done), t.keys = {},
         d.segments = [c.segments EXCEPT ![i] = t],
         d.entries = c.entries,
         d.dynamic # NoBuffer => d.dynamic = c.dynamic /\ (d.dynamic = i => t.buffer)
  PROVE  CacheIsSafe(d, now, done)
<1>1. c \in Cache /\ c.segments \in [Indices -> Segment]
  BY DEF CacheIsSafe, Cache
<1>2. /\ d.segments[i] = t
      /\ \A j \in Indices : j # i => d.segments[j] = c.segments[j]
  BY <1>1
<1>3. \A j \in Indices : ReadsAreSafe(d.segments[j], now, done)
  BY <1>2 DEF CacheIsSafe
<1>4. \A k \in Keys : d.entries[k] # NoEntry => EntryIsSafe(d, k)
  <2> SUFFICES ASSUME NEW k \in Keys, d.entries[k] # NoEntry
               PROVE  EntryIsSafe(d, k)
    OBVIOUS
  <2>1. EntryIsSafe(c, k) /\ c.entries[k].segment \in Indices
    BY <1>1 DEF CacheIsSafe, Cache, Entry
  <2>2. c.entries[k].segment # i
    BY <2>1 DEF EntryIsSafe
  <2> QED
    BY <1>2, <2>1, <2>2 DEF EntryIsSafe
<1>5. \A j \in Indices : \A k \in d.segments[j].keys :
        d.entries[k] # NoEntry /\ d.entries[k].segment = j
  BY <1>2 DEF CacheIsSafe
<1>6. d.dynamic # NoBuffer => d.segments[d.dynamic].buffer
  <2> SUFFICES ASSUME d.dynamic # NoBuffer
               PROVE  d.segments[d.dynamic].buffer
    OBVIOUS
  <2>1. d.dynamic \in Indices
    BY DEF Cache
  <2>2. CASE d.dynamic = i
    BY <1>2, <2>2
  <2>3. CASE d.dynamic # i
    BY <1>2, <2>1, <2>3 DEF CacheIsSafe
  <2> QED
    BY <2>2, <2>3
<1> QED
  BY <1>3, <1>4, <1>5, <1>6 DEF CacheIsSafe

\* The active segment is empty, with no buffer.
Bare(c) ==
  /\ ~c.segments[c.active].buffer
  /\ c.segments[c.active].cursor = 0
  /\ c.segments[c.active].keys = {}
  /\ c.segments[c.active].spans = {}
  /\ c.segments[c.active].reads = {}

\* Nothing is lost with the buffer of a segment that was emptied before.
LEMMA ReleasedBuffer ==
  ASSUME NEW c, NEW now \in Nat, NEW done \in Nat, CacheIsSafe(c, now, done),
         c.segments[c.active].cursor = 0, c.segments[c.active].keys = {}
  PROVE  /\ CacheIsSafe(WithoutBuffer(c), now, done)
         /\ Bare(WithoutBuffer(c))
         /\ WithoutBuffer(c).active = c.active
         /\ WithoutBuffer(c).entries = c.entries
<1> DEFINE s == c.segments[c.active]
           t == [s EXCEPT !.buffer = FALSE, !.capacity = 0, !.spans = {}, !.reads = {}]
           b == [c EXCEPT !.segments[c.active] = t]
           d == [b EXCEPT !.dynamic = IF @ = c.active THEN NoBuffer ELSE @]
<1>1. c \in Cache /\ c.active \in Indices /\ s \in Segment
  BY DEF CacheIsSafe, Cache
<1>2. /\ t \in Segment
      /\ t.buffer = FALSE /\ t.cursor = 0 /\ t.lastUse = s.lastUse
      /\ t.keys = {} /\ t.spans = {} /\ t.reads = {}
  BY <1>1 DEF Segment
<1> HIDE DEF t
<1>3. ReadsAreSafe(t, now, done)
  BY <1>1, <1>2 DEF ReadsAreSafe, CacheIsSafe
<1>4. /\ b \in Cache
      /\ b.segments = [c.segments EXCEPT ![c.active] = t]
      /\ b.entries = c.entries /\ b.active = c.active /\ b.dynamic = c.dynamic
  BY <1>1, <1>2 DEF Cache
<1> HIDE DEF b
<1>5. /\ d \in Cache
      /\ d.segments = b.segments /\ d.entries = b.entries /\ d.active = b.active
      /\ d.dynamic = IF c.dynamic = c.active THEN NoBuffer ELSE c.dynamic
  BY <1>4 DEF Cache
<1>6. d = WithoutBuffer(c)
  BY DEF d, b, t, WithoutBuffer, DropBuffer
<1> HIDE DEF d
<1>7. CacheIsSafe(d, now, done)
  BY <1>1, <1>2, <1>3, <1>4, <1>5, ReplacedSegment
<1>8. d.segments[d.active] = t
  BY <1>1, <1>4, <1>5 DEF Cache
<1> QED
  BY <1>2, <1>4, <1>5, <1>6, <1>7, <1>8 DEF Bare

\* A new buffer for a bare segment.
LEMMA NewBuffer ==
  ASSUME NEW c, NEW capacity \in Nat, NEW now \in Nat, NEW done \in Nat,
         CacheIsSafe(c, now, done), Bare(c)
  PROVE  LET d == WithBuffer(c, capacity)
         IN /\ CacheIsSafe(d, now, done)
            /\ d.entries = c.entries
            /\ d.segments[d.active].buffer
            /\ d.segments[d.active].cursor = 0
            /\ d.segments[d.active].capacity = capacity
<1> DEFINE s == c.segments[c.active]
           t == [s EXCEPT !.buffer = TRUE, !.capacity = capacity, !.lastUse = 0]
           d == [c EXCEPT !.segments[c.active] = t]
<1>1. c \in Cache /\ c.active \in Indices /\ s \in Segment
  BY DEF CacheIsSafe, Cache
<1>2. /\ t \in Segment
      /\ t.buffer = TRUE /\ t.capacity = capacity /\ t.lastUse = 0
      /\ t.cursor = 0 /\ t.keys = {} /\ t.reads = {}
  BY <1>1 DEF Segment, Bare
<1> HIDE DEF t
<1>3. ReadsAreSafe(t, now, done)
  BY <1>2 DEF ReadsAreSafe
<1>4. /\ d \in Cache
      /\ d.segments = [c.segments EXCEPT ![c.active] = t]
      /\ d.entries = c.entries /\ d.active = c.active /\ d.dynamic = c.dynamic
  BY <1>1, <1>2 DEF Cache
<1>5. d = WithBuffer(c, capacity)
  BY DEF d, t, WithBuffer
<1> HIDE DEF d
<1>6. CacheIsSafe(d, now, done)
  BY <1>1, <1>2, <1>3, <1>4, ReplacedSegment DEF Bare
<1>7. d.segments[d.active] = t
  BY <1>1, <1>4 DEF Cache
<1> QED
  BY <1>2, <1>4, <1>5, <1>6, <1>7

\* Rounding up to a multiple of 4 never loses a byte.
LEMMA RoundedUp == \A n \in Nat : RoundUp(n) \in Nat /\ n <= RoundUp(n)
BY DEF RoundUp

\* However CreateBuffer answers, the cache is safe; when it succeeds the active
\* segment is empty and takes bytes more.
LEMMA AllocatedCache ==
  ASSUME NEW c, NEW bytes \in Nat, NEW alloc \in {"ok", "retry", "fail", "lost"},
         NEW now \in Nat, NEW done \in Nat, CacheIsSafe(c, now, done),
         c.segments[c.active].cursor = 0, c.segments[c.active].keys = {}
  PROVE  LET d == Allocate(c, bytes, alloc)
         IN /\ CacheIsSafe(d, now, done)
            /\ \A k \in Keys : d.entries[k] \in {c.entries[k], NoEntry}
            /\ alloc \in {"ok", "retry"} =>
                 /\ d.segments[d.active].buffer
                 /\ d.segments[d.active].cursor = 0
                 /\ bytes <= d.segments[d.active].capacity
<1> DEFINE capacity == Greatest(NormalCapacity, bytes)
           cleared == ClearSegments(c, Victims(c, capacity), TRUE)
           freed == WithoutBuffer(cleared)
           alone == DropOthers(freed)
<1>1. c.active \in Indices
  BY DEF CacheIsSafe, Cache
<1>2. capacity \in Nat /\ bytes <= capacity
  BY CapacityAssumption DEF Greatest
<1> HIDE DEF capacity
<1>3. /\ CacheIsSafe(cleared, now, done)
      /\ \A k \in Keys : cleared.entries[k] \in {c.entries[k], NoEntry}
      /\ cleared.segments[cleared.active].cursor = 0
      /\ cleared.segments[cleared.active].keys = {}
  <2> DEFINE V == Victims(c, capacity)
  <2> HIDE DEF V
  <2>1. LET d == ClearSegments(c, V, TRUE)
        IN /\ CacheIsSafe(d, now, done)
           /\ d.active = c.active
           /\ \A k \in Keys : d.entries[k] \in {c.entries[k], NoEntry}
           /\ \A i \in Indices \cap V : d.segments[i].cursor = 0 /\ d.segments[i].keys = {}
    BY ClearedCache
  <2>3. c.active \notin V => ClearSegments(c, V, TRUE).segments[c.active] = c.segments[c.active]
    BY <1>1 DEF ClearSegments
  <2>2. cleared = ClearSegments(c, V, TRUE)
    BY DEF V
  <2> HIDE DEF cleared
  <2> QED
    BY <1>1, <2>1, <2>2, <2>3
<1> HIDE DEF cleared
<1>4. /\ CacheIsSafe(freed, now, done)
      /\ Bare(freed)
      /\ freed.entries = cleared.entries
  BY <1>3, ReleasedBuffer
<1> HIDE DEF freed
<1>5. /\ CacheIsSafe(alone, now, done)
      /\ Bare(alone)
      /\ \A k \in Keys : alone.entries[k] \in {freed.entries[k], NoEntry}
  <2>1. freed.active \in Indices
    BY <1>4 DEF CacheIsSafe, Cache
  <2> DEFINE V == Indices \ {freed.active}
  <2>2. freed.active \notin V
    OBVIOUS
  <2> HIDE DEF V
  <2>3. LET d == ClearSegments(freed, V, TRUE)
        IN /\ CacheIsSafe(d, now, done)
           /\ d.active = freed.active
           /\ \A k \in Keys : d.entries[k] \in {freed.entries[k], NoEntry}
    BY <1>4, ClearedCache
  <2>5. ClearSegments(freed, V, TRUE).segments[freed.active] = freed.segments[freed.active]
    BY <2>1, <2>2 DEF ClearSegments
  <2>4. alone = ClearSegments(freed, V, TRUE)
    BY DEF DropOthers, V
  <2> HIDE DEF alone
  <2> QED
    BY <1>4, <2>3, <2>4, <2>5 DEF Bare
<1> HIDE DEF alone
<1>6. RoundUp(bytes) \in Nat /\ bytes <= RoundUp(bytes)
  BY RoundedUp
<1>7. CASE alloc = "ok"
  <2>1. Allocate(c, bytes, alloc) = WithBuffer(freed, capacity)
    BY <1>7 DEF Allocate, freed, cleared, capacity
  <2> QED
    BY <1>2, <1>3, <1>4, <2>1, NewBuffer
<1>8. CASE alloc = "retry"
  <2>1. Allocate(c, bytes, alloc) = WithBuffer(alone, RoundUp(bytes))
    BY <1>8 DEF Allocate, alone, freed, cleared, capacity
  <2> QED
    BY <1>3, <1>4, <1>5, <1>6, <2>1, NewBuffer
<1>9. CASE alloc = "fail"
  <2>1. Allocate(c, bytes, alloc) = alone
    BY <1>9 DEF Allocate, alone, freed, cleared, capacity
  <2> QED
    BY <1>3, <1>4, <1>5, <1>9, <2>1
<1>10. CASE alloc = "lost"
  <2>1. Allocate(c, bytes, alloc) = freed
    BY <1>10 DEF Allocate, freed, cleared, capacity
  <2> QED
    BY <1>3, <1>4, <1>10, <2>1
<1> QED
  BY <1>7, <1>8, <1>9, <1>10

\* The cache before k is written: safe, and with room for k when it has a buffer.
LEMMA RoomForKey ==
  ASSUME NEW k \in Keys, NEW space, NEW alloc \in {"ok", "retry", "fail", "lost"},
         NEW now \in Nat, NEW done \in Nat, CacheIsSafe(cache, now, done)
  PROVE  LET d == Room(k, space, alloc)
         IN /\ CacheIsSafe(d, now, done)
            /\ \A j \in Keys : d.entries[j] \in {cache.entries[j], NoEntry}
            /\ alloc \in {"ok", "retry"} =>
                 /\ d.segments[d.active].buffer
                 /\ d.segments[d.active].cursor + Size[k] <= d.segments[d.active].capacity
<1>1. Size[k] \in Nat
  BY SizeAssumption
<1>2. CASE ~IsFull(cache, Size[k])
  <2>1. Room(k, space, alloc) = cache
    BY <1>2 DEF Room, Advanced
  <2>2. cache.segments[cache.active] \in Segment
    BY DEF CacheIsSafe, Cache
  <2>3. /\ cache.segments[cache.active].cursor \in Nat
        /\ cache.segments[cache.active].capacity \in Nat
    BY <2>2 DEF Segment
  <2>4. /\ cache.segments[cache.active].buffer
        /\ ~(cache.segments[cache.active].cursor + Size[k] > cache.segments[cache.active].capacity)
    BY <1>2 DEF IsFull
  <2>5. cache.segments[cache.active].cursor + Size[k] <= cache.segments[cache.active].capacity
    BY <1>1, <2>3, <2>4
  <2> QED
    BY <2>1, <2>4, <2>5
<1>3. CASE IsFull(cache, Size[k])
  <2> DEFINE c == Recycle(cache, Size[k], space)
  <2>1. /\ CacheIsSafe(c, now, done)
        /\ c.segments[c.active].cursor = 0
        /\ c.segments[c.active].keys = {}
        /\ \A j \in Keys : c.entries[j] \in {cache.entries[j], NoEntry}
    BY RecycledCache
  <2>2. Advanced(k, space) = c
    BY <1>3 DEF Advanced
  <2> HIDE DEF c
  <2>3. CASE NeedsBuffer(c, Size[k])
    <3>1. Room(k, space, alloc) = Allocate(c, Size[k], alloc)
      BY <1>3, <2>2, <2>3 DEF Room
    <3> DEFINE d == Allocate(c, Size[k], alloc)
    <3>2. /\ CacheIsSafe(d, now, done)
          /\ \A j \in Keys : d.entries[j] \in {c.entries[j], NoEntry}
          /\ alloc \in {"ok", "retry"} =>
               /\ d.segments[d.active].buffer
               /\ d.segments[d.active].cursor = 0
               /\ Size[k] <= d.segments[d.active].capacity
      BY <1>1, <2>1, AllocatedCache
    <3> HIDE DEF d
    <3>3. \A j \in Keys : d.entries[j] \in {cache.entries[j], NoEntry}
      BY <2>1, <3>2
    <3>4. Room(k, space, alloc) = d
      BY <3>1 DEF d
    <3>5. alloc \in {"ok", "retry"} =>
            d.segments[d.active].cursor + Size[k] <= d.segments[d.active].capacity
      BY <1>1, <3>2
    <3> QED
      BY <3>2, <3>3, <3>4, <3>5
  <2>4. CASE ~NeedsBuffer(c, Size[k])
    <3>1. Room(k, space, alloc) = c
      BY <1>3, <2>2, <2>4 DEF Room
    <3>2. c.segments[c.active].capacity \in Nat
      BY <2>1 DEF CacheIsSafe, Cache, Segment
    <3>3. /\ c.segments[c.active].buffer
          /\ ~(c.segments[c.active].capacity < Size[k])
      BY <2>4 DEF NeedsBuffer
    <3>4. c.segments[c.active].cursor + Size[k] <= c.segments[c.active].capacity
      BY <1>1, <2>1, <3>2, <3>3
    <3> QED
      BY <2>1, <3>1, <3>3, <3>4
  <2> QED
    BY <2>3, <2>4
<1> QED
  BY <1>2, <1>3

-----------------------------------------------------------------------------
(* An upload, and a hit.                                                   *)

(***************************************************************************)
(* From c to d segment i becomes t: its entries keep what they rely on,    *)
(* and the only new entry is the one of the key k just used.               *)
(***************************************************************************)
Uses(c, d, i, t, k) ==
  /\ d.segments = [c.segments EXCEPT ![i] = t]
  /\ d.dynamic = i
  /\ t.buffer
  /\ \A j \in Keys : j # k => d.entries[j] = c.entries[j]
  /\ d.entries[k] # NoEntry => EntryIsSafe(d, k)
  /\ c.entries[k] # NoEntry => d.entries[k] = c.entries[k]
  /\ t.keys \subseteq c.segments[i].keys \cup {k}
  /\ k \in t.keys => d.entries[k] # NoEntry /\ d.entries[k].segment = i
  /\ \A j \in Keys : c.entries[j] # NoEntry /\ c.entries[j].segment = i =>
       /\ j \in t.keys
       /\ [key |-> j, lo |-> c.entries[j].offset] \in t.spans
  /\ c.segments[i].cursor <= t.cursor
  /\ c.segments[i].capacity = t.capacity

\* A segment may be used when what its queued draws rely on stays too.
LEMMA UsedSegment ==
  ASSUME NEW c, NEW d \in Cache, NEW now \in Nat, NEW done \in Nat,
         NEW i \in Indices, NEW t \in Segment, NEW k \in Keys,
         CacheIsSafe(c, now, done),
         ReadsAreSafe(t, now, done),
         Uses(c, d, i, t, k)
  PROVE  CacheIsSafe(d, now, done)
<1>1. c \in Cache /\ c.segments \in [Indices -> Segment]
  BY DEF CacheIsSafe, Cache
<1>2. /\ d.segments[i] = t
      /\ \A j \in Indices : j # i => d.segments[j] = c.segments[j]
  BY <1>1 DEF Uses
<1>3. \A j \in Indices : ReadsAreSafe(d.segments[j], now, done)
  BY <1>2 DEF CacheIsSafe
<1>4. \A j \in Keys : d.entries[j] # NoEntry => EntryIsSafe(d, j)
  <2> SUFFICES ASSUME NEW j \in Keys, d.entries[j] # NoEntry, j # k
               PROVE  EntryIsSafe(d, j)
    BY DEF Uses
  <2>1. d.entries[j] = c.entries[j]
    BY DEF Uses
  <2>2. EntryIsSafe(c, j) /\ c.entries[j] \in Entry
    BY <1>1, <2>1 DEF CacheIsSafe, Cache
  <2>3. CASE c.entries[j].segment # i
    BY <1>2, <2>1, <2>2, <2>3 DEF EntryIsSafe, Entry
  <2>4. CASE c.entries[j].segment = i
    <3>1. /\ t.buffer
          /\ j \in t.keys
          /\ [key |-> j, lo |-> c.entries[j].offset] \in t.spans
      BY <2>1, <2>4 DEF Uses
    <3>2. /\ c.entries[j].offset + Size[j] <= c.segments[i].cursor
          /\ c.entries[j].offset + Size[j] <= c.segments[i].capacity
      BY <2>2, <2>4 DEF EntryIsSafe
    <3>3. /\ c.entries[j].offset + Size[j] \in Nat
          /\ c.segments[i].cursor \in Nat /\ t.cursor \in Nat
      BY <1>1, <2>2, SizeAssumption DEF Entry, Segment
    <3>4. /\ c.entries[j].offset + Size[j] <= t.cursor
          /\ c.entries[j].offset + Size[j] <= t.capacity
      BY <3>2, <3>3 DEF Uses
    <3> QED
      BY <1>2, <2>1, <2>4, <3>1, <3>4 DEF EntryIsSafe
  <2> QED
    BY <2>3, <2>4
<1>5. \A j \in Indices : \A m \in d.segments[j].keys :
        d.entries[m] # NoEntry /\ d.entries[m].segment = j
  <2> SUFFICES ASSUME NEW j \in Indices, NEW m \in d.segments[j].keys
               PROVE  d.entries[m] # NoEntry /\ d.entries[m].segment = j
    OBVIOUS
  <2>1. CASE j = i /\ m = k
    BY <1>2, <2>1 DEF Uses
  <2>2. CASE j # i \/ m # k
    <3>1. m \in c.segments[j].keys /\ m \in Keys
      BY <1>1, <1>2, <2>2 DEF Segment, Uses
    <3>2. c.entries[m] # NoEntry /\ c.entries[m].segment = j
      BY <3>1 DEF CacheIsSafe
    <3>3. d.entries[m] = c.entries[m]
      BY <3>1, <3>2 DEF Uses
    <3> QED
      BY <3>2, <3>3
  <2> QED
    BY <2>1, <2>2
<1>6. d.segments[d.dynamic].buffer
  BY <1>2 DEF Uses
<1> QED
  BY <1>3, <1>4, <1>5, <1>6 DEF CacheIsSafe, Uses

\* The upload of k and the draw that reads it: an append is past every queued read
\* and every entry, and a refill without a rename finds no queued read.
LEMMA WrittenCache ==
  ASSUME FencesAreSafe, NEW c, NEW k \in Keys,
         NEW discard \in BOOLEAN, NEW remembered \in BOOLEAN,
         CacheIsSafe(c, currentFrame, gpuDone),
         c.entries[k] = NoEntry,
         c.segments[c.active].buffer,
         c.segments[c.active].cursor + Size[k] <= c.segments[c.active].capacity,
         discard => c.segments[c.active].cursor = 0,
         ~discard => c.segments[c.active].cursor # 0 \/ c.segments[c.active].reads = {}
  PROVE  CacheIsSafe(Queue(Write(c, k, discard, remembered), k, c.segments[c.active].cursor),
                     currentFrame, gpuDone)
<1> DEFINE i == c.active
           s == c.segments[i]
           span == [key |-> k, lo |-> s.cursor]
           read == [key |-> k, lo |-> s.cursor, frame |-> currentFrame]
           kept == IF discard THEN {} ELSE {x \in s.spans : Disjoint(x, s.cursor, Size[k])}
           reads == IF discard THEN {} ELSE s.reads
           w == [s EXCEPT !.spans = kept \cup {span}, !.reads = reads,
                          !.cursor = RoundUp(s.cursor + Size[k]),
                          !.lastUse = currentFrame,
                          !.keys = Listed(s.keys, k, remembered)]
           t == [w EXCEPT !.reads = reads \cup {read}]
           entry == IF remembered THEN [segment |-> i, offset |-> s.cursor] ELSE c.entries[k]
           b == [c EXCEPT !.segments[i] = w, !.entries[k] = entry, !.dynamic = i]
           d == [b EXCEPT !.segments[i].reads = @ \cup {read}]
<1>1. /\ c \in Cache /\ i \in Indices /\ s \in Segment
      /\ c.segments \in [Indices -> Segment]
      /\ c.entries \in [Keys -> Entry \cup {NoEntry}]
  BY DEF CacheIsSafe, Cache
<1>2. /\ Size[k] \in Nat \ {0} /\ s.cursor \in Nat /\ s.capacity \in Nat
      /\ currentFrame \in Nat /\ gpuDone \in Nat /\ gpuDone < currentFrame
  BY <1>1, SizeAssumption DEF Segment, FencesAreSafe, FencesTypeOK, CompletedFramesAreDone
<1>3. /\ RoundUp(s.cursor + Size[k]) \in Nat
      /\ s.cursor + Size[k] <= RoundUp(s.cursor + Size[k])
  BY <1>2, RoundedUp
<1>4. /\ span \in Span /\ read \in Read
      /\ kept \in SUBSET Span /\ reads \in SUBSET Read
      /\ Listed(s.keys, k, remembered) \in SUBSET Keys
  BY <1>1, <1>2 DEF Span, Read, Segment, Listed
<1> HIDE DEF kept, reads
<1>5. w \in Segment
  BY <1>1, <1>2, <1>3, <1>4 DEF Segment
<1>6. /\ w.buffer = s.buffer /\ w.capacity = s.capacity
      /\ w.cursor = RoundUp(s.cursor + Size[k]) /\ w.lastUse = currentFrame
      /\ w.keys = Listed(s.keys, k, remembered)
      /\ w.spans = kept \cup {span} /\ w.reads = reads
  BY <1>1 DEF Segment
<1> HIDE DEF w
<1>7. /\ t \in Segment
      /\ t.buffer = s.buffer /\ t.capacity = s.capacity
      /\ t.cursor = RoundUp(s.cursor + Size[k]) /\ t.lastUse = currentFrame
      /\ t.keys = Listed(s.keys, k, remembered)
      /\ t.spans = kept \cup {span} /\ t.reads = reads \cup {read}
  BY <1>4, <1>5, <1>6 DEF Segment
\* What is kept of the reads and of the spans they need.
<1>8. \A r \in reads : /\ r \in s.reads
                       /\ r.lo + Size[r.key] <= s.cursor
                       /\ [key |-> r.key, lo |-> r.lo] \in kept
  <2> SUFFICES ASSUME NEW r \in reads
               PROVE  /\ r \in s.reads
                      /\ r.lo + Size[r.key] <= s.cursor
                      /\ [key |-> r.key, lo |-> r.lo] \in kept
    OBVIOUS
  <2>1. ~discard /\ r \in s.reads
    BY DEF reads
  <2>2. /\ s.cursor # 0
        /\ ReadsAreSafe(s, currentFrame, gpuDone)
    BY <1>1, <2>1 DEF CacheIsSafe
  <2>3. /\ r.lo + Size[r.key] <= s.cursor
        /\ [key |-> r.key, lo |-> r.lo] \in s.spans
    BY <2>1, <2>2 DEF ReadsAreSafe
  <2>4. Disjoint([key |-> r.key, lo |-> r.lo], s.cursor, Size[k])
    BY <2>3 DEF Disjoint
  <2> QED
    BY <2>1, <2>3, <2>4 DEF kept
<1>9. ReadsAreSafe(t, currentFrame, gpuDone)
  <2>1. \A r \in t.reads : [key |-> r.key, lo |-> r.lo] \in t.spans
    <3>1. [key |-> read.key, lo |-> read.lo] = span
      OBVIOUS
    <3> HIDE DEF span, read
    <3>2. \A r \in reads : [key |-> r.key, lo |-> r.lo] \in t.spans
      BY <1>7, <1>8
    <3>3. [key |-> read.key, lo |-> read.lo] \in t.spans
      BY <1>7, <3>1
    <3> QED
      BY <1>7, <3>2, <3>3
  <2>2. \A r \in reads : gpuDone < r.frame /\ r.frame <= currentFrame
    <3> SUFFICES ASSUME NEW r \in reads
                 PROVE  gpuDone < r.frame /\ r.frame <= currentFrame
      OBVIOUS
    <3>1. /\ gpuDone < r.frame /\ r.frame <= s.lastUse
          /\ s.lastUse <= currentFrame
      BY <1>1, <1>8 DEF CacheIsSafe, ReadsAreSafe
    <3>2. r.frame \in Nat /\ s.lastUse \in Nat
      BY <1>1, <1>4 DEF Segment, Read
    <3> QED
      BY <1>2, <3>1, <3>2
  <2>3. \A r \in t.reads : gpuDone < r.frame /\ r.frame <= t.lastUse
    BY <1>2, <1>7, <2>2
  <2>4. \A r \in reads : r.lo + Size[r.key] <= RoundUp(s.cursor + Size[k])
    <3> SUFFICES ASSUME NEW r \in reads
                 PROVE  r.lo + Size[r.key] <= RoundUp(s.cursor + Size[k])
      OBVIOUS
    <3>1. r.lo \in Nat /\ Size[r.key] \in Nat
      BY <1>4, SizeAssumption DEF Read
    <3>2. r.lo + Size[r.key] <= s.cursor
      BY <1>8
    <3> QED
      BY <1>2, <1>3, <3>1, <3>2
  <2>5. \A r \in t.reads : r.lo + Size[r.key] <= t.cursor
    BY <1>3, <1>7, <2>4
  <2> QED
    BY <1>2, <1>7, <2>1, <2>3, <2>5 DEF ReadsAreSafe
<1>10. /\ entry \in Entry \cup {NoEntry}
       /\ remembered => entry = [segment |-> i, offset |-> s.cursor]
       /\ ~remembered => entry = NoEntry
  BY <1>1, <1>2 DEF Entry
<1> HIDE DEF entry, t
<1>11. /\ b \in Cache
       /\ b.segments = [c.segments EXCEPT ![i] = w]
       /\ b.entries = [c.entries EXCEPT ![k] = entry]
       /\ b.dynamic = i /\ b.active = c.active
  BY <1>1, <1>5, <1>10 DEF Cache
<1> HIDE DEF b
<1>12. b.segments[i] = w
  BY <1>1, <1>11
<1>13. d = [b EXCEPT !.segments[i] = t]
  BY <1>6, <1>12 DEF t
<1>14. /\ d \in Cache
       /\ d.segments = [c.segments EXCEPT ![i] = t]
       /\ d.entries = b.entries /\ d.dynamic = i
  <2> HIDE DEF d
  <2>1. [b.segments EXCEPT ![i] = t] = [c.segments EXCEPT ![i] = t]
    BY <1>1, <1>11
  <2> QED
    BY <1>7, <1>11, <1>13, <2>1 DEF Cache
<1>15. d = Queue(Write(c, k, discard, remembered), k, s.cursor)
  <2>1. b = Write(c, k, discard, remembered)
    BY DEF b, w, entry, kept, reads, Write
  <2> HIDE DEF b
  <2> QED
    BY <1>11, <2>1 DEF Queue
<1> HIDE DEF d
<1>16. /\ d.segments[i] = t
       /\ d.entries[k] = entry
       /\ \A j \in Keys : j # k => d.entries[j] = c.entries[j]
  BY <1>1, <1>11, <1>14
<1>17. d.entries[k] # NoEntry => EntryIsSafe(d, k)
  <2> SUFFICES ASSUME d.entries[k] # NoEntry
               PROVE  EntryIsSafe(d, k)
    OBVIOUS
  <2>1. remembered /\ entry = [segment |-> i, offset |-> s.cursor]
    BY <1>10, <1>16
  <2>2. entry.segment = i /\ entry.offset = s.cursor
    BY <2>1
  <2>3. k \in t.keys /\ [key |-> k, lo |-> s.cursor] \in t.spans
    BY <1>7, <2>1 DEF Listed
  <2>4. /\ s.cursor + Size[k] <= t.cursor
        /\ s.cursor + Size[k] <= t.capacity
    BY <1>3, <1>7
  <2>5. t.buffer
    BY <1>7
  <2> QED
    BY <1>16, <2>2, <2>3, <2>4, <2>5 DEF EntryIsSafe
<1>18. ASSUME NEW j \in Keys, c.entries[j] # NoEntry, c.entries[j].segment = i
       PROVE  /\ j \in t.keys
              /\ [key |-> j, lo |-> c.entries[j].offset] \in t.spans
  <2> DEFINE x == [key |-> j, lo |-> c.entries[j].offset]
  <2>1. /\ j \in s.keys /\ x \in s.spans
        /\ c.entries[j].offset + Size[j] <= s.cursor
    BY <1>18 DEF CacheIsSafe, EntryIsSafe
  <2>2. c.entries[j].offset \in Nat /\ Size[j] \in Nat \ {0}
    BY <1>1, <1>18, SizeAssumption DEF Entry
  <2>3. s.cursor # 0
    BY <1>2, <2>1, <2>2
  <2>4. Disjoint(x, s.cursor, Size[k])
    BY <2>1 DEF Disjoint
  <2>5. x \in kept
    BY <2>1, <2>3, <2>4 DEF kept
  <2>6. j \in Listed(s.keys, k, remembered)
    BY <2>1 DEF Listed
  <2> QED
    BY <1>7, <2>5, <2>6
<1>19. /\ t.keys \subseteq s.keys \cup {k}
       /\ k \in t.keys => d.entries[k] # NoEntry /\ d.entries[k].segment = i
  <2>1. k \notin s.keys
    BY <1>1 DEF CacheIsSafe
  <2>2. CASE remembered
    <3>1. t.keys = s.keys \cup {k}
      BY <1>7, <2>2 DEF Listed
    <3>2. entry \in Entry /\ entry.segment = i
      BY <1>1, <1>2, <1>10, <2>2 DEF Entry
    <3> QED
      BY <1>16, <3>1, <3>2, NoEntryAssumption DEF Entry, Indices
  <2>3. CASE ~remembered
    BY <1>7, <2>1, <2>3 DEF Listed
  <2> QED
    BY <2>2, <2>3
<1>20. s.cursor <= t.cursor
  BY <1>2, <1>3, <1>7
<1>21. CacheIsSafe(d, currentFrame, gpuDone)
  <2>1. t.buffer /\ s.capacity = t.capacity
    BY <1>7
  <2>2. t \in Segment
    BY <1>7
  <2>3. Uses(c, d, i, t, k)
    BY <1>14, <1>16, <1>17, <1>18, <1>19, <1>20, <2>1 DEF Uses
  <2> QED
    BY <1>1, <1>2, <1>9, <1>14, <2>2, <2>3, UsedSegment
<1> QED
  BY <1>15, <1>21

\* A hit moves the segment's last use to this frame, whether or not the draw is
\* queued that reads it.
LEMMA HitCache ==
  ASSUME FencesAreSafe, CacheIsSafe(cache, currentFrame, gpuDone),
         NEW k \in Keys, UseCachedBuffer(k)
  PROVE  CacheIsSafe(cache', currentFrame, gpuDone)
<1> DEFINE e == cache.entries[k]
           i == e.segment
           s == cache.segments[i]
           read == [key |-> k, lo |-> e.offset, frame |-> currentFrame]
           w == [s EXCEPT !.lastUse = currentFrame]
           t == [w EXCEPT !.reads = @ \cup {read}]
           b == [cache EXCEPT !.segments[i].lastUse = currentFrame, !.dynamic = i]
           d == [b EXCEPT !.segments[i].reads = @ \cup {read}]
<1>1. /\ cache \in Cache /\ e \in Entry /\ e # NoEntry /\ i \in Indices
      /\ s \in Segment /\ s.buffer
      /\ cache.segments \in [Indices -> Segment]
  BY DEF CacheIsSafe, Cache, UseCachedBuffer, Cached, Entry
<1>2. /\ currentFrame \in Nat /\ gpuDone \in Nat /\ gpuDone < currentFrame
      /\ e.offset \in Nat
  BY <1>1 DEF Entry, FencesAreSafe, FencesTypeOK, CompletedFramesAreDone
<1>3. /\ EntryIsSafe(cache, k)
      /\ ReadsAreSafe(s, currentFrame, gpuDone)
  BY <1>1 DEF CacheIsSafe
<1>4. read \in Read
  BY <1>2 DEF Read
<1>5. /\ w \in Segment
      /\ w.buffer = s.buffer /\ w.capacity = s.capacity /\ w.cursor = s.cursor
      /\ w.keys = s.keys /\ w.spans = s.spans /\ w.reads = s.reads
      /\ w.lastUse = currentFrame
  BY <1>1, <1>2 DEF Segment
<1> HIDE DEF w
<1>6. /\ t \in Segment
      /\ t.buffer = s.buffer /\ t.capacity = s.capacity /\ t.cursor = s.cursor
      /\ t.keys = s.keys /\ t.spans = s.spans /\ t.reads = s.reads \cup {read}
      /\ t.lastUse = currentFrame
  BY <1>4, <1>5 DEF Segment
<1> HIDE DEF t
<1>7. /\ b \in Cache
      /\ b.segments = [cache.segments EXCEPT ![i] = w]
      /\ b.entries = cache.entries /\ b.dynamic = i
  BY <1>1, <1>5 DEF Cache, w
<1> HIDE DEF b
<1>8. /\ d \in Cache
      /\ d.segments = [cache.segments EXCEPT ![i] = t]
      /\ d.entries = cache.entries /\ d.dynamic = i
  <2>1. b.segments[i] = w
    BY <1>1, <1>7
  <2>2. d = [b EXCEPT !.segments[i] = t]
    BY <2>1 DEF t
  <2> HIDE DEF d
  <2>3. [b.segments EXCEPT ![i] = t] = [cache.segments EXCEPT ![i] = t]
    BY <1>1, <1>7
  <2> QED
    BY <1>6, <1>7, <2>2, <2>3 DEF Cache
<1>9. cache' = d \/ cache' = b
  BY <1>7 DEF UseCachedBuffer, Queue, b, d
<1> HIDE DEF d
<1>10. \A r \in s.reads : gpuDone < r.frame /\ r.frame <= currentFrame
  <2> SUFFICES ASSUME NEW r \in s.reads
               PROVE  gpuDone < r.frame /\ r.frame <= currentFrame
    OBVIOUS
  <2>1. /\ gpuDone < r.frame /\ r.frame <= s.lastUse
        /\ s.lastUse <= currentFrame
    BY <1>3 DEF ReadsAreSafe
  <2>2. r.frame \in Nat /\ s.lastUse \in Nat
    BY <1>1 DEF Segment, Read
  <2> QED
    BY <1>2, <2>1, <2>2
<1>11. ReadsAreSafe(w, currentFrame, gpuDone)
  <2>1. w.lastUse <= currentFrame
    BY <1>2, <1>5
  <2>2. \A r \in w.reads : [key |-> r.key, lo |-> r.lo] \in w.spans
    BY <1>3, <1>5 DEF ReadsAreSafe
  <2>3. \A r \in w.reads : gpuDone < r.frame /\ r.frame <= w.lastUse
    BY <1>5, <1>10
  <2>4. w.cursor = 0 \/ \A r \in w.reads : r.lo + Size[r.key] <= w.cursor
    BY <1>3, <1>5 DEF ReadsAreSafe
  <2> QED
    BY <2>1, <2>2, <2>3, <2>4 DEF ReadsAreSafe
<1>12. ReadsAreSafe(t, currentFrame, gpuDone)
  <2>1. /\ [key |-> read.key, lo |-> read.lo] \in s.spans
        /\ read.lo + Size[read.key] <= s.cursor
        /\ gpuDone < read.frame /\ read.frame <= currentFrame
    BY <1>2, <1>3 DEF EntryIsSafe
  <2> HIDE DEF read
  <2>2. \A r \in t.reads : [key |-> r.key, lo |-> r.lo] \in t.spans
    BY <1>3, <1>6, <2>1 DEF ReadsAreSafe
  <2>3. \A r \in t.reads : gpuDone < r.frame /\ r.frame <= t.lastUse
    BY <1>6, <1>10, <2>1
  <2>4. t.cursor = 0 \/ \A r \in t.reads : r.lo + Size[r.key] <= t.cursor
    BY <1>3, <1>6, <2>1 DEF ReadsAreSafe
  <2>5. t.lastUse <= currentFrame
    BY <1>2, <1>6
  <2> QED
    BY <2>2, <2>3, <2>4, <2>5 DEF ReadsAreSafe
\* Every entry of the segment finds in it what it found before.
<1>13. ASSUME NEW c \in Cache, NEW u \in Segment,
              c.segments = [cache.segments EXCEPT ![i] = u],
              c.entries = cache.entries, c.dynamic = i,
              u.buffer = s.buffer, u.capacity = s.capacity, u.cursor = s.cursor,
              u.keys = s.keys, u.spans = s.spans,
              ReadsAreSafe(u, currentFrame, gpuDone)
       PROVE  CacheIsSafe(c, currentFrame, gpuDone)
  <2>1. c.segments[i] = u
    BY <1>1, <1>13
  <2>2. EntryIsSafe(c, k)
    BY <1>3, <1>13, <2>1 DEF EntryIsSafe
  <2>3. u.keys \subseteq s.keys \cup {k}
    BY <1>13
  <2>4. \A j \in Keys : cache.entries[j] # NoEntry /\ cache.entries[j].segment = i =>
          /\ j \in u.keys
          /\ [key |-> j, lo |-> cache.entries[j].offset] \in u.spans
    BY <1>13 DEF CacheIsSafe, EntryIsSafe
  <2>5. s.cursor <= u.cursor /\ s.capacity = u.capacity
    BY <1>1, <1>13 DEF Segment
  <2>6. u.buffer
    BY <1>1, <1>13
  <2>7. Uses(cache, c, i, u, k)
    BY <1>1, <1>13, <2>2, <2>3, <2>4, <2>5, <2>6 DEF Uses
  <2> QED
    BY <1>1, <1>2, <1>13, <2>7, UsedSegment
<1> QED
  BY <1>5, <1>6, <1>7, <1>8, <1>9, <1>11, <1>12, <1>13

-----------------------------------------------------------------------------
(* Frames.                                                                 *)

\* A frame later, the cache is still safe.
LEMMA LaterFrame ==
  ASSUME NEW c, NEW now \in Nat, NEW done \in Nat, CacheIsSafe(c, now, done)
  PROVE  CacheIsSafe(c, now + 1, done)
<1>1. \A i \in Indices : ReadsAreSafe(c.segments[i], now + 1, done)
  <2> SUFFICES ASSUME NEW i \in Indices
               PROVE  ReadsAreSafe(c.segments[i], now + 1, done)
    OBVIOUS
  <2>1. /\ ReadsAreSafe(c.segments[i], now, done)
        /\ c.segments[i].lastUse \in Nat
    BY DEF CacheIsSafe, Cache, Segment
  <2>2. c.segments[i].lastUse <= now + 1
    BY <2>1 DEF ReadsAreSafe
  <2> QED
    BY <2>1, <2>2 DEF ReadsAreSafe
<1> QED
  BY <1>1 DEF CacheIsSafe

\* The end of a frame may trim the ring, and moves the active segment back into it.
LEMMA EndedFrame ==
  ASSUME FencesAreSafe, CacheIsSafe(cache, currentFrame, gpuDone),
         NEW created \in BOOLEAN, NEW low \in BOOLEAN, EndFrame(created, low)
  PROVE  CacheIsSafe(cache', currentFrame + 1, gpuDone)
<1> DEFINE b == TrimCache(cache)
           d == [b EXCEPT !.active = IF @ >= Ring(TRUE) THEN 0 ELSE @]
<1>1. currentFrame \in Nat /\ currentFrame + 1 \in Nat /\ gpuDone \in Nat
  BY DEF FencesAreSafe, FencesTypeOK
<1>2. CacheIsSafe(cache, currentFrame + 1, gpuDone)
  BY <1>1, LaterFrame
<1>3. CacheIsSafe(b, currentFrame + 1, gpuDone)
  <2> DEFINE now == currentFrame + 1
  <2>1. now \in Nat /\ CacheIsSafe(cache, now, gpuDone)
    BY <1>1, <1>2
  <2> HIDE DEF now
  <2>2. CacheIsSafe(b, now, gpuDone)
    BY <1>1, <2>1, TrimmedCache
  <2> QED
    BY <2>2 DEF now
<1> HIDE DEF b
<1>4. b \in Cache /\ 0 \in Indices
  BY <1>3, RingIsThere DEF CacheIsSafe
<1>5. /\ d \in Cache
      /\ d.segments = b.segments /\ d.entries = b.entries /\ d.dynamic = b.dynamic
  BY <1>4 DEF Cache
<1> HIDE DEF d
<1>6. CacheIsSafe(d, currentFrame + 1, gpuDone)
  BY <1>1, <1>3, <1>5, SameContents
<1>7. cache' = cache \/ cache' = d
  BY DEF EndFrame, d, b
<1> QED
  BY <1>2, <1>6, <1>7

\* When the GPU finishes a frame its reads are over, and the other reads keep the
\* bytes they need.
LEMMA FinishedFrame ==
  ASSUME FencesAreSafe, CacheIsSafe(cache, currentFrame, gpuDone), GpuFinishes
  PROVE  CacheIsSafe(cache', currentFrame, gpuDone')
<1> DEFINE Pending(i) == {r \in cache.segments[i].reads : r.frame > gpuDone'}
           Left(i) == [cache.segments[i] EXCEPT
                         !.reads = Pending(i),
                         !.spans = Held(@, cache.segments[i].keys, Pending(i))]
           d == [cache EXCEPT !.segments = [i \in Indices |-> Left(i)]]
<1>1. /\ gpuDone \in Nat /\ gpuDone' = gpuDone + 1
      /\ currentFrame \in Nat
  BY FinishedFences DEF GpuFinishes, FencesAreSafe, FencesTypeOK
<1>2. /\ cache \in Cache
      /\ cache.segments \in [Indices -> Segment]
      /\ cache.entries \in [Keys -> Entry \cup {NoEntry}]
      /\ \A i \in Indices : ReadsAreSafe(cache.segments[i], currentFrame, gpuDone)
  BY DEF CacheIsSafe, Cache
<1>3. \A i \in Indices :
        /\ Left(i) \in Segment
        /\ Left(i).buffer = cache.segments[i].buffer
        /\ Left(i).capacity = cache.segments[i].capacity
        /\ Left(i).cursor = cache.segments[i].cursor
        /\ Left(i).lastUse = cache.segments[i].lastUse
        /\ Left(i).keys = cache.segments[i].keys
        /\ Left(i).spans = Held(cache.segments[i].spans, cache.segments[i].keys, Pending(i))
        /\ Left(i).reads = Pending(i)
  BY <1>2 DEF Segment, Held
<1>4. /\ d \in Cache
      /\ \A i \in Indices : d.segments[i] = Left(i)
      /\ d.entries = cache.entries /\ d.dynamic = cache.dynamic
  BY <1>2, <1>3 DEF Cache
<1>5. cache' = d
  BY DEF GpuFinishes
<1> HIDE DEF d, Left
<1>6. ASSUME NEW i \in Indices
      PROVE  ReadsAreSafe(d.segments[i], currentFrame, gpuDone')
  <2> DEFINE s == cache.segments[i]
             t == d.segments[i]
  <2>1. /\ t.cursor = s.cursor /\ t.lastUse = s.lastUse /\ t.reads = Pending(i)
        /\ t.spans = Held(s.spans, s.keys, Pending(i))
    BY <1>3, <1>4
  <2>2. ReadsAreSafe(s, currentFrame, gpuDone)
    BY <1>2
  <2>3. \A r \in Pending(i) : r \in s.reads /\ gpuDone' < r.frame
    <3> SUFFICES ASSUME NEW r \in Pending(i)
                 PROVE  r \in s.reads /\ gpuDone' < r.frame
      OBVIOUS
    <3>1. r \in s.reads /\ r.frame > gpuDone'
      OBVIOUS
    <3>2. r.frame \in Nat
      BY <1>2, <3>1 DEF Segment, Read
    <3> QED
      BY <1>1, <3>1, <3>2
  <2> HIDE DEF Pending, t, s
  <2>4. \A r \in t.reads : [key |-> r.key, lo |-> r.lo] \in t.spans
    BY <2>1, <2>2, <2>3 DEF ReadsAreSafe, Held
  <2>5. \A r \in t.reads : gpuDone' < r.frame /\ r.frame <= t.lastUse
    BY <2>1, <2>2, <2>3 DEF ReadsAreSafe
  <2>6. t.cursor = 0 \/ \A r \in t.reads : r.lo + Size[r.key] <= t.cursor
    BY <2>1, <2>2, <2>3 DEF ReadsAreSafe
  <2>7. t.lastUse <= currentFrame
    BY <2>1, <2>2 DEF ReadsAreSafe
  <2>8. ReadsAreSafe(t, currentFrame, gpuDone')
    BY <2>4, <2>5, <2>6, <2>7 DEF ReadsAreSafe
  <2> QED
    BY <2>8 DEF t
<1>7. ASSUME NEW k \in Keys, d.entries[k] # NoEntry
      PROVE  EntryIsSafe(d, k)
  <2> DEFINE i == cache.entries[k].segment
             span == [key |-> k, lo |-> cache.entries[k].offset]
  <2>1. EntryIsSafe(cache, k) /\ i \in Indices
    BY <1>2, <1>4, <1>7 DEF CacheIsSafe, Entry
  <2>2. span \in cache.segments[i].spans /\ k \in cache.segments[i].keys
    BY <2>1 DEF EntryIsSafe
  <2>3. span \in Held(cache.segments[i].spans, cache.segments[i].keys, Pending(i))
    BY <2>2 DEF Held
  <2>4. span \in d.segments[i].spans
    BY <1>3, <1>4, <2>1, <2>3
  <2> QED
    BY <1>3, <1>4, <2>1, <2>4 DEF EntryIsSafe
<1>8. \A i \in Indices : \A k \in d.segments[i].keys :
        d.entries[k] # NoEntry /\ d.entries[k].segment = i
  <2>1. \A i \in Indices : d.segments[i].keys = cache.segments[i].keys
    BY <1>3, <1>4
  <2> QED
    BY <1>4, <2>1 DEF CacheIsSafe
<1>9. d.dynamic # NoBuffer => d.segments[d.dynamic].buffer
  <2> SUFFICES ASSUME d.dynamic # NoBuffer
               PROVE  d.segments[d.dynamic].buffer
    OBVIOUS
  <2>1. d.dynamic \in Indices /\ cache.segments[d.dynamic].buffer
    BY <1>2, <1>4 DEF CacheIsSafe, Cache
  <2>2. Left(d.dynamic).buffer = cache.segments[d.dynamic].buffer
    BY <1>3, <2>1
  <2> QED
    BY <1>4, <2>1, <2>2
<1>10. CacheIsSafe(d, currentFrame, gpuDone')
  BY <1>4, <1>6, <1>7, <1>8, <1>9 DEF CacheIsSafe
<1> QED
  BY <1>5, <1>10

-----------------------------------------------------------------------------
(* The invariant is inductive.                                             *)

\* A driver that has just been constructed.
LEMMA InitIsSafe == Init => Safe
<1> SUFFICES ASSUME Init
             PROVE  Safe
  OBVIOUS
<1>1. FencesAreSafe
  BY InitialFences DEF Init
<1>2. /\ currentFrame \in Nat /\ gpuDone \in Nat
      /\ cache = EmptyCache(FALSE)
  BY DEF Init, FencesInit
<1> QED
  BY <1>1, <1>2, EmptyCacheIsSafe DEF Safe

\* Whether or not the fences are asked, completedFrame stays behind the GPU.
LEMMA AskedFences ==
  ASSUME FencesAreSafe, NEW c, CacheIsSafe(c, currentFrame, gpuDone),
         NEW completed, AsksForFence(c, completed)
  PROVE  completed \in Nat /\ completed <= gpuDone
<1>1. CASE Refill(c)
  <2>1. c.segments[c.active].lastUse \in Nat
    BY DEF CacheIsSafe, Cache, Segment
  <2> QED
    BY <1>1, <2>1, PolledFramesAreDone DEF AsksForFence
<1>2. CASE ~Refill(c)
  BY <1>2 DEF AsksForFence, FencesAreSafe, FencesTypeOK, CompletedFramesAreDone
<1> QED
  BY <1>1, <1>2

\* Every way an upload can end.
LEMMA UploadIsSafe ==
  ASSUME Safe, NEW k \in Keys, NEW space, Misses(k),
         NEW alloc \in {"ok", "retry"}, NEW remembered \in BOOLEAN,
         UploadCachedBuffer(k, space, alloc, remembered)
  PROVE  Safe'
<1> DEFINE c == Room(k, space, alloc)
           s == c.segments[c.active]
<1>1. /\ CacheIsSafe(c, currentFrame, gpuDone)
      /\ c.entries[k] = NoEntry
      /\ s.buffer
      /\ s.cursor + Size[k] <= s.capacity
  <2>1. currentFrame \in Nat /\ gpuDone \in Nat
    BY DEF Safe, FencesAreSafe, FencesTypeOK
  <2>2. /\ CacheIsSafe(c, currentFrame, gpuDone)
        /\ c.entries[k] \in {cache.entries[k], NoEntry}
        /\ s.buffer
        /\ s.cursor + Size[k] <= s.capacity
    BY <2>1, RoomForKey DEF Safe
  <2>3. cache.entries[k] = NoEntry
    BY DEF Misses, Cached, Safe, CacheIsSafe, EntryIsSafe
  <2> QED
    BY <2>2, <2>3
<1> HIDE DEF c
<1>2. PICK completed \in completedFrame .. currentFrame :
        /\ AsksForFence(c, completed)
        /\ completedFrame' = completed
        /\ cache' = Queue(Write(c, k, Refill(c) /\ s.lastUse > completed, remembered),
                          k, s.cursor)
  BY DEF UploadCachedBuffer, c
<1> DEFINE discard == Refill(c) /\ s.lastUse > completed
<1>3. completed \in Nat /\ completed <= gpuDone
  BY <1>1, <1>2, AskedFences DEF Safe
<1>4. discard => s.cursor = 0
  BY DEF Refill
<1>5. ASSUME ~discard, s.cursor = 0
      PROVE  s.reads = {}
  <2>1. /\ c \in Cache /\ s \in Segment
        /\ ReadsAreSafe(s, currentFrame, gpuDone)
    BY <1>1 DEF CacheIsSafe, Cache
  <2>2. s.lastUse \in Nat /\ gpuDone \in Nat
    BY <2>1 DEF Segment, Safe, FencesAreSafe, FencesTypeOK
  <2>3. s.lastUse = 0 \/ s.lastUse <= completed
    BY <1>3, <1>5, <2>2 DEF Refill
  <2>4. s.lastUse <= gpuDone
    BY <1>3, <2>2, <2>3
  <2>5. ASSUME NEW r \in s.reads
        PROVE  FALSE
    <3>1. gpuDone < r.frame /\ r.frame <= s.lastUse
      BY <2>1 DEF ReadsAreSafe
    <3>2. r.frame \in Nat
      BY <2>1 DEF Segment, Read
    <3> QED
      BY <2>2, <2>4, <3>1, <3>2
  <2> QED
    BY <2>5
<1>6. discard \in BOOLEAN
  OBVIOUS
<1>7. cache' = Queue(Write(c, k, discard, remembered), k, s.cursor)
  BY <1>2
<1> HIDE DEF discard
<1>8. CacheIsSafe(cache', currentFrame, gpuDone)
  BY <1>1, <1>4, <1>5, <1>6, <1>7, WrittenCache DEF Safe
<1>9. UNCHANGED <<device, currentFrame, frameFences, gpuDone>>
  BY DEF UploadCachedBuffer
<1>10. FencesAreSafe'
  BY <1>2, <1>3, <1>9, PolledFences DEF Safe, FencesAreSafe, FencesTypeOK
<1> QED
  BY <1>8, <1>9, <1>10 DEF Safe

\* No operation, failure or frame makes a safe cache unsafe.
LEMMA StepIsSafe == Safe /\ [Next]_vars => Safe'
<1> SUFFICES ASSUME Safe, [Next]_vars
             PROVE  Safe'
  OBVIOUS
<1>1. /\ FencesAreSafe /\ CacheIsSafe(cache, currentFrame, gpuDone)
      /\ currentFrame \in Nat /\ gpuDone \in Nat /\ completedFrame \in Nat
      /\ completedFrame <= gpuDone
      /\ device \in {"none", "ready", "lost"}
      /\ cache \in Cache
  BY DEF Safe, FencesAreSafe, FencesTypeOK, CompletedFramesAreDone, CacheIsSafe
<1>2. CASE CreateDevice
  <2>1. /\ UNCHANGED <<currentFrame, completedFrame, frameFences, gpuDone, cache>>
        /\ device' = "ready"
    BY <1>2 DEF CreateDevice
  <2>2. FencesAreSafe'
    BY <1>1, <2>1, PolledFences
  <2> QED
    BY <1>1, <2>1, <2>2 DEF Safe
<1>3. CASE DestroyD3D11Context
  <2>1. ForgetFences /\ device' = "none" /\ cache' = EmptyCache(cache.trimmed)
    BY <1>3 DEF DestroyD3D11Context
  <2>2. FencesAreSafe'
    BY <2>1, ForgottenFences
  <2>3. currentFrame' \in Nat /\ gpuDone' \in Nat /\ cache.trimmed \in BOOLEAN
    BY <1>1, <2>1 DEF ForgetFences, Cache
  <2>4. CacheIsSafe(cache', currentFrame', gpuDone')
    BY <2>1, <2>3, EmptyCacheIsSafe
  <2> QED
    BY <2>2, <2>4 DEF Safe
<1>4. ASSUME NEW k \in Keys, UseCachedBuffer(k)
      PROVE  Safe'
  <2>1. CacheIsSafe(cache', currentFrame, gpuDone)
    BY <1>1, <1>4, HitCache
  <2>2. UNCHANGED fenceVars
    BY <1>4 DEF UseCachedBuffer
  <2>3. UNCHANGED <<device, currentFrame, completedFrame, frameFences, gpuDone>>
    BY <2>2 DEF fenceVars
  <2>4. FencesAreSafe'
    BY <1>1, <2>3, PolledFences
  <2> QED
    BY <2>1, <2>3, <2>4 DEF Safe
<1>5. ASSUME NEW k \in Keys, NEW space, NEW alloc \in {"fail", "lost"},
             UploadFindsNoMemory(k, space, alloc)
      PROVE  Safe'
  <2>1. /\ UNCHANGED <<currentFrame, completedFrame, frameFences, gpuDone>>
        /\ cache' = Room(k, space, alloc)
        /\ device' \in {device, "lost"}
    BY <1>5 DEF UploadFindsNoMemory
  <2>2. CacheIsSafe(cache', currentFrame, gpuDone)
    BY <1>1, <2>1, RoomForKey
  <2>3. FencesAreSafe'
    BY <1>1, <2>1, PolledFences
  <2> QED
    BY <2>1, <2>2, <2>3 DEF Safe
<1>6. ASSUME NEW k \in Keys, NEW space, NEW alloc \in {"ok", "retry"}, NEW lost \in BOOLEAN,
             UploadCannotMap(k, space, alloc, lost)
      PROVE  Safe'
  <2>1. /\ UNCHANGED <<currentFrame, frameFences, gpuDone>>
        /\ cache' = Room(k, space, alloc)
        /\ AsksForFence(Room(k, space, alloc), completedFrame')
        /\ device' \in {device, "lost"}
    BY <1>6 DEF UploadCannotMap
  <2>2. CacheIsSafe(cache', currentFrame, gpuDone)
    BY <1>1, <2>1, RoomForKey
  <2>3. completedFrame' \in Nat /\ completedFrame' <= gpuDone
    BY <1>1, <2>1, <2>2, AskedFences
  <2>4. FencesAreSafe'
    BY <1>1, <2>1, <2>3, PolledFences
  <2> QED
    BY <2>1, <2>2, <2>4 DEF Safe
<1>7. ASSUME NEW k \in Keys, NEW space, NEW alloc \in {"ok", "retry"},
             NEW remembered \in BOOLEAN, UploadCachedBuffer(k, space, alloc, remembered)
      PROVE  Safe'
  BY <1>7, UploadIsSafe DEF UploadCachedBuffer
<1>8. ASSUME NEW created \in BOOLEAN, NEW low \in BOOLEAN, EndFrame(created, low)
      PROVE  Safe'
  <2>1. EndFrameFence(created)
    BY <1>8 DEF EndFrame
  <2>2. FencesAreSafe'
    BY <1>1, <2>1, EndedFences
  <2>3. currentFrame' = currentFrame + 1 /\ gpuDone' = gpuDone
    BY <2>1 DEF EndFrameFence
  <2>4. CacheIsSafe(cache', currentFrame + 1, gpuDone)
    BY <1>1, <1>8, EndedFrame
  <2> QED
    BY <2>2, <2>3, <2>4 DEF Safe
<1>9. CASE GpuFinishes
  <2>1. FencesAreSafe' /\ currentFrame' = currentFrame
    BY <1>1, <1>9, FinishedFences DEF GpuFinishes, GpuFinishesFrame
  <2>2. CacheIsSafe(cache', currentFrame, gpuDone')
    BY <1>1, <1>9, FinishedFrame
  <2> QED
    BY <2>1, <2>2 DEF Safe
<1>10. CASE UNCHANGED vars
  <2>1. UNCHANGED <<device, currentFrame, completedFrame, frameFences, gpuDone, cache>>
    BY <1>10 DEF vars, fenceVars
  <2>2. FencesAreSafe'
    BY <1>1, <2>1, PolledFences
  <2> QED
    BY <1>1, <2>1, <2>2 DEF Safe
<1>11. ASSUME NEW k \in Keys, NEW space
       PROVE  Allocations(k, space) \subseteq {"ok", "retry"}
  BY DEF Allocations
<1> QED
  BY <1>2, <1>3, <1>4, <1>5, <1>6, <1>7, <1>8, <1>9, <1>10, <1>11 DEF Next

\* The cache and the fences are safe in every state of every behaviour.
THEOREM CacheIsSafeAlways == Spec => []Safe
<1> QED
  BY InitIsSafe, StepIsSafe, PTL DEF Spec

-----------------------------------------------------------------------------
(* What follows from it.                                                   *)

\* Every variable stays in its type.
THEOREM TypeCorrect == Spec => []TypeOK
<1>1. Safe => TypeOK
  BY DEF Safe, FencesAreSafe, CacheIsSafe, TypeOK
<1> QED
  BY <1>1, CacheIsSafeAlways, PTL

\* No write changes bytes that a queued draw reads, for any number of segments,
\* fences and frames, whichever uploads and allocations fail.
THEOREM QueuedDrawsStayIntact == Spec => []QueuedDrawsIntact
<1>1. Safe => QueuedDrawsIntact
  BY DEF Safe, CacheIsSafe, ReadsAreSafe, QueuedDrawsIntact
<1> QED
  BY <1>1, CacheIsSafeAlways, PTL

\* What a hit hands out is the geometry of its key, in a buffer that exists.
THEOREM EntriesKeepTheirData == Spec => []EntriesHoldTheirData
<1>1. Safe => EntriesHoldTheirData
  BY DEF Safe, CacheIsSafe, EntryIsSafe, EntriesHoldTheirData
<1> QED
  BY <1>1, CacheIsSafeAlways, PTL

\* A segment lists exactly the keys whose entries lead to it.
THEOREM KeysAlwaysMatchEntries == Spec => []KeysMatchEntries
<1>1. Safe => KeysMatchEntries
  <2> SUFFICES ASSUME Safe, NEW i \in Indices
               PROVE  cache.segments[i].keys =
                        {k \in Keys : cache.entries[k] # NoEntry /\ cache.entries[k].segment = i}
    BY DEF KeysMatchEntries
  <2>1. cache.segments[i].keys \subseteq Keys
    BY DEF Safe, CacheIsSafe, Cache, Segment
  <2>2. \A k \in cache.segments[i].keys :
          cache.entries[k] # NoEntry /\ cache.entries[k].segment = i
    BY DEF Safe, CacheIsSafe
  <2>3. \A k \in Keys : cache.entries[k] # NoEntry /\ cache.entries[k].segment = i
                        => k \in cache.segments[i].keys
    BY DEF Safe, CacheIsSafe, EntryIsSafe
  <2> QED
    BY <2>1, <2>2, <2>3
<1> QED
  BY <1>1, CacheIsSafeAlways, PTL

\* The buffer a draw is about to bind still exists.
THEOREM DynamicBufferStaysLive == Spec => []DynamicBufferIsLive
<1>1. Safe => DynamicBufferIsLive
  BY DEF Safe, CacheIsSafe, DynamicBufferIsLive
<1> QED
  BY <1>1, CacheIsSafeAlways, PTL

\* A frame counts as completed only when the GPU has finished it.
THEOREM CompletedFramesStayDone == Spec => []CompletedFramesAreDone
<1>1. Safe => CompletedFramesAreDone
  BY DEF Safe, FencesAreSafe
<1> QED
  BY <1>1, CacheIsSafeAlways, PTL
-----------------------------------------------------------------------------
(* The memory of the ring.                                                 *)

(***************************************************************************)
(* The inductive invariant of the ring's memory.  A new buffer may take    *)
(* what the victims leave of the budget, and when every other segment of   *)
(* the ring is a victim that is the whole budget, because nothing past the *)
(* ring has a buffer.                                                      *)
(***************************************************************************)
InBudget(c) ==
  /\ Total(c, Indices) <= Budget
  /\ c.active < Ring(c.trimmed)
  /\ \A i \in Indices : i >= Ring(c.trimmed) => c.segments[i].capacity = 0

\* Every segment of d has the buffer it has in c, or none.
Keeps(d, c) == \A i \in Indices : d.segments[i].capacity \in {0, c.segments[i].capacity}

\* The bytes of a few buffers are finitely many.
LEMMA BytesAreFinite ==
  ASSUME NEW c \in Cache, NEW S, S \subseteq Indices
  PROVE  IsFiniteSet(Bytes(c, S)) /\ Total(c, S) \in Nat
<1> DEFINE Own(i) == {i} \X (1 .. c.segments[i].capacity)
           of == [i \in S |-> Own(i)]
           parts == {Own(i) : i \in S}
<1>1. IsFiniteSet(S)
  <2>1. IsFiniteSet(Indices)
    BY RingAssumption, FS_Interval DEF Indices
  <2> QED
    BY <2>1, FS_Subset
<1>2. of \in Surjection(S, parts)
  BY DEF Surjection
<1>3. IsFiniteSet(parts)
  <2> HIDE DEF of, parts
  <2> QED
    BY <1>1, <1>2, FS_Surjection
<1>4. ASSUME NEW i \in S
      PROVE  IsFiniteSet(Own(i))
  <2>1. c.segments[i].capacity \in Int /\ 1 \in Int
    BY DEF Cache, Segment
  <2>2. IsFiniteSet({i})
    BY FS_Singleton
  <2>3. IsFiniteSet(1 .. c.segments[i].capacity)
    BY <2>1, FS_Interval
  <2> QED
    BY <2>2, <2>3, FS_Product
<1>5. \A part \in parts : IsFiniteSet(part)
  BY <1>4
<1>6. IsFiniteSet(UNION parts)
  <2> HIDE DEF parts
  <2> QED
    BY <1>3, <1>5, FS_UNION
<1>7. IsFiniteSet(Bytes(c, S))
  BY <1>6 DEF Bytes
<1> QED
  BY <1>7, FS_CardinalityType DEF Total

\* Fewer buffers of the same size take no more memory.
LEMMA FewerBytes ==
  ASSUME NEW c \in Cache, NEW d \in Cache, NEW S, S \subseteq Indices,
         NEW T, T \subseteq Indices,
         \A i \in S : \/ d.segments[i].capacity = 0
                      \/ i \in T /\ d.segments[i].capacity = c.segments[i].capacity
  PROVE  Total(d, S) <= Total(c, T)
<1>1. Bytes(d, S) \subseteq Bytes(c, T)
  <2> SUFFICES ASSUME NEW i \in S, NEW x \in {i} \X (1 .. d.segments[i].capacity)
               PROVE  x \in Bytes(c, T)
    BY DEF Bytes
  <2>1. d.segments[i].capacity # 0
    OBVIOUS
  <2>2. i \in T /\ x \in {i} \X (1 .. c.segments[i].capacity)
    BY <2>1
  <2> QED
    BY <2>2 DEF Bytes
<1> QED
  BY <1>1, BytesAreFinite, FS_Subset DEF Total

\* A segment adds the size of its buffer to the others.
LEMMA OneMoreBuffer ==
  ASSUME NEW c \in Cache, NEW i \in Indices
  PROVE  Total(c, Indices) = Total(c, Indices \ {i}) + c.segments[i].capacity
<1> DEFINE capacity == c.segments[i].capacity
           own == {i} \X (1 .. capacity)
           rest == Bytes(c, Indices \ {i})
<1>1. capacity \in Nat
  BY DEF Cache, Segment
<1>2. Bytes(c, Indices) = rest \cup own
  BY DEF Bytes
<1>3. rest \cap own = {}
  BY DEF Bytes
<1>4. IsFiniteSet(own) /\ Cardinality(own) = capacity
  <2>1. IsFiniteSet({i}) /\ Cardinality({i}) = 1
    BY FS_Singleton
  <2>2. IsFiniteSet(1 .. capacity) /\ Cardinality(1 .. capacity) = capacity
    <3> HIDE DEF capacity
    <3> QED
      BY <1>1, FS_Interval
  <2>3. IsFiniteSet(own) /\ Cardinality(own) = Cardinality({i}) * Cardinality(1 .. capacity)
    BY <2>1, <2>2, FS_Product
  <2> HIDE DEF capacity
  <2> QED
    BY <1>1, <2>1, <2>2, <2>3
<1>5. IsFiniteSet(rest) /\ Total(c, Indices \ {i}) \in Nat
  BY BytesAreFinite
<1>6. Cardinality(rest) = Total(c, Indices \ {i})
  BY DEF Total
<1> HIDE DEF own, rest, capacity
<1>7. Cardinality(rest \cup own) = Cardinality(rest) + Cardinality(own)
                                   - Cardinality(rest \cap own)
  BY <1>4, <1>5, FS_Union
<1>8. Cardinality(rest \cap own) = 0
  BY <1>3, FS_EmptySet
<1>9. Total(c, Indices) = Cardinality(rest \cup own)
  BY <1>2, Zenon DEF Total
<1>10. Total(c, Indices) = Total(c, Indices \ {i}) + capacity
  BY <1>1, <1>4, <1>5, <1>6, <1>7, <1>8, <1>9
<1> QED
  BY <1>10 DEF capacity

\* Segments without buffers take no memory.
LEMMA NoBytes ==
  ASSUME NEW c \in Cache, NEW S, S \subseteq Indices,
         \A i \in S : c.segments[i].capacity = 0
  PROVE  Total(c, S) = 0
<1>1. Bytes(c, S) = {}
  BY DEF Bytes
<1> QED
  BY <1>1, FS_EmptySet DEF Total

\* An ordinary segment fits the budget, and so does an upload that is rounded up.
LEMMA BudgetIsWhole ==
  /\ Budget \in Nat
  /\ NormalCapacity <= Budget
  /\ \A n \in Nat : n <= Budget => RoundUp(n) <= Budget
<1>1. NormalCapacity \in Nat /\ Configured \in Nat /\ Configured >= 1
  BY CapacityAssumption, RingAssumption
<1>2. Budget \in Nat /\ NormalCapacity <= Budget
  <2>1. NormalCapacity * Configured \in Nat
    BY <1>1
  <2>2. NormalCapacity * (Configured - 1) \in Nat /\ Configured - 1 \in Nat
    BY <1>1
  <2>3. NormalCapacity * Configured = NormalCapacity * (Configured - 1) + NormalCapacity
    BY <1>1
  <2> QED
    BY <1>1, <2>1, <2>2, <2>3 DEF Budget
<1>3. PICK words \in Nat : Budget = 4 * words
  <2> DEFINE words == NormalCapacity \div 4
  <2>1. words \in Nat /\ NormalCapacity = 4 * words
    BY <1>1, CapacityAssumption
  <2> HIDE DEF words
  <2>2. words * Configured \in Nat
    BY <1>1, <2>1
  <2>3. Budget = 4 * (words * Configured)
    BY <1>1, <2>1 DEF Budget
  <2> QED
    BY <2>2, <2>3
<1>4. \A n \in Nat : n <= Budget => RoundUp(n) <= Budget
  BY <1>3 DEF RoundUp
<1> QED
  BY <1>2, <1>4

\* What is past the whole ring is past the trimmed one.
LEMMA TrimmedRingIsShorter == \A i \in Nat : i >= Ring(FALSE) => i >= Ring(TRUE)
BY RingAssumption DEF Ring, Least

\* Without some of its buffers a ring stays within its budget.
LEMMA KeptBudget ==
  ASSUME NEW c \in Cache, NEW d \in Cache, InBudget(c), Keeps(d, c),
         d.active = c.active, d.trimmed = c.trimmed
  PROVE  InBudget(d)
<1>1. Total(d, Indices) <= Total(c, Indices)
  BY FewerBytes DEF Keeps
<1>2. Total(d, Indices) \in Nat /\ Total(c, Indices) \in Nat /\ Budget \in Nat
  BY BytesAreFinite, BudgetIsWhole
<1> QED
  BY <1>1, <1>2 DEF InBudget, Keeps

\* Clearing segments frees buffers or keeps them.
LEMMA ClearedBuffers ==
  ASSUME NEW c \in Cache, NEW S, NEW release \in BOOLEAN
  PROVE  LET d == ClearSegments(c, S, release)
         IN /\ Keeps(d, c)
            /\ d.active = c.active /\ d.trimmed = c.trimmed
            /\ \A i \in Indices \ S : d.segments[i] = c.segments[i]
            /\ release => \A i \in Indices \cap S : d.segments[i].capacity = 0
<1> DEFINE d == ClearSegments(c, S, release)
           Cleared(i) == [c.segments[i] EXCEPT !.cursor = 0, !.keys = {},
                                               !.spans = Held(@, {}, c.segments[i].reads)]
<1>1. \A i \in Indices : Cleared(i).capacity = c.segments[i].capacity
  BY DEF Cache, Segment
<1>2. /\ d.active = c.active /\ d.trimmed = c.trimmed
      /\ \A i \in Indices : d.segments[i] = IF i \notin S THEN c.segments[i]
                                            ELSE IF release THEN FreeSegment ELSE Cleared(i)
  BY DEF ClearSegments
<1>3. FreeSegment.capacity = 0
  BY DEF FreeSegment
<1> HIDE DEF d, Cleared
<1> QED
  BY <1>1, <1>2, <1>3 DEF Keeps, d
\* TrimCache leaves what the shortened ring has, and nothing else.
LEMMA TrimmedBuffers ==
  ASSUME NEW c \in Cache, InBudget(c)
  PROVE  LET d == TrimCache(c)
         IN /\ Keeps(d, c)
            /\ d.active = c.active /\ d.trimmed = TRUE
            /\ \A i \in Indices : i >= Ring(TRUE) => d.segments[i].capacity = 0
<1> DEFINE S == {i \in Indices : i >= Ring(TRUE)}
           b == ClearSegments(c, S, TRUE)
<1>1. /\ Keeps(b, c)
      /\ b.active = c.active
      /\ \A i \in Indices \cap S : b.segments[i].capacity = 0
  <2> HIDE DEF S
  <2> QED
    BY ClearedBuffers
<1>2. /\ TrimCache(c).segments = b.segments
      /\ TrimCache(c).active = b.active
      /\ TrimCache(c).trimmed = TRUE
  BY DEF TrimCache, ClearSegments
<1> QED
  BY <1>1, <1>2 DEF Keeps

\* The active segment is no part of what clearing leaves.
LEMMA ActiveMoves ==
  ASSUME NEW c, NEW S, NEW release \in BOOLEAN, NEW active
  PROVE  LET b == ClearSegments(c, S, release)
             d == [b EXCEPT !.active = active]
         IN d.segments = b.segments /\ d.active = active /\ d.trimmed = b.trimmed
BY DEF ClearSegments

\* Wherever the ring moves, and whether it shrinks or grows on the way, it stays
\* within its budget.
LEMMA RecycledBudget ==
  ASSUME NEW c, NEW bytes, NEW space, NEW now \in Nat, NEW done \in Nat,
         CacheIsSafe(c, now, done), InBudget(c)
  PROVE  InBudget(Recycle(c, bytes, space))
<1> DEFINE used == c.segments[c.active].buffer /\ c.segments[c.active].cursor # 0
           trims == used /\ ~c.trimmed /\ space = "low"
           grows == used /\ c.trimmed /\ space = "plenty"
           resized == IF trims THEN TrimCache(c) ELSE [c EXCEPT !.trimmed = @ /\ ~grows]
           active == IF used THEN (c.active + 1) % Ring(resized.trimmed) ELSE c.active
           oversized == /\ resized.segments[active].capacity > NormalCapacity
                        /\ bytes <= NormalCapacity
           cleared == ClearSegments(resized, {active}, oversized)
           d == [cleared EXCEPT !.active = active]
<1>1. c \in Cache /\ c.active \in Indices /\ c.trimmed \in BOOLEAN
  BY DEF CacheIsSafe, Cache
<1>15. Recycle(c, bytes, space) \in Cache
  <2> DEFINE moved == Recycle(c, bytes, space)
  <2>1. CacheIsSafe(moved, now, done)
    BY RecycledCache
  <2> HIDE DEF moved
  <2>2. moved \in Cache
    BY <2>1 DEF CacheIsSafe
  <2> QED
    BY <2>2 DEF moved
<1>2. /\ resized \in Cache
      /\ Keeps(resized, c)
      /\ \A i \in Indices : i >= Ring(resized.trimmed) => resized.segments[i].capacity = 0
      /\ ~used => resized.trimmed = c.trimmed
  <2>1. CASE trims
    <3>1. TrimCache(c) \in Cache
      BY TrimmedCache DEF CacheIsSafe
    <3> QED
      BY <1>1, <2>1, <3>1, TrimmedBuffers
  <2>2. CASE ~trims
    <3>1. resized = [c EXCEPT !.trimmed = c.trimmed /\ ~grows]
      BY <2>2
    <3>2. (c.trimmed /\ ~grows) \in BOOLEAN
      OBVIOUS
    <3>3. grows => c.trimmed /\ used
      OBVIOUS
    <3> HIDE DEF grows, resized, used
    <3>4. /\ resized \in Cache
          /\ resized.segments = c.segments
          /\ resized.trimmed = (c.trimmed /\ ~grows)
      BY <1>1, <3>1, <3>2 DEF Cache
    <3>5. Keeps(resized, c)
      BY <3>4 DEF Keeps
    <3>6. ASSUME NEW i \in Indices, i >= Ring(resized.trimmed)
          PROVE  resized.segments[i].capacity = 0
      <4>1. CASE resized.trimmed = c.trimmed
        BY <3>4, <3>6, <4>1 DEF InBudget
      <4>2. CASE resized.trimmed # c.trimmed
        <5>1. c.trimmed = TRUE /\ resized.trimmed = FALSE
          BY <1>1, <3>4, <4>2
        <5>2. i \in Nat
          BY DEF Indices
        <5>3. i >= Ring(FALSE)
          BY <3>6, <5>1, Zenon
        <5>4. i >= Ring(c.trimmed)
          BY <5>1, <5>2, <5>3, TrimmedRingIsShorter, Zenon
        <5>5. c.segments[i].capacity = 0
          BY <5>4 DEF InBudget
        <5> QED
          BY <3>4, <5>5
      <4> QED
        BY <4>1, <4>2
    <3>7. ~used => resized.trimmed = c.trimmed
      BY <1>1, <3>3, <3>4
    <3> QED
      BY <3>4, <3>5, <3>6, <3>7
  <2> QED
    BY <2>1, <2>2
<1> HIDE DEF resized
<1>3. resized.trimmed \in BOOLEAN
  BY <1>2 DEF Cache
<1>4. active < Ring(resized.trimmed)
  <2>1. CASE used
    <3>1. c.active + 1 \in Nat /\ Ring(resized.trimmed) \in Nat \ {0}
      BY <1>1, <1>3, RingIsThere DEF Indices
    <3>2. (c.active + 1) % Ring(resized.trimmed) \in 0 .. Ring(resized.trimmed) - 1
      BY <3>1
    <3>3. active = (c.active + 1) % Ring(resized.trimmed)
      BY <2>1
    <3> QED
      BY <3>1, <3>2, <3>3
  <2>2. CASE ~used
    BY <1>2, <2>2 DEF InBudget
  <2> QED
    BY <2>1, <2>2
<1> HIDE DEF active, used
<1>5. oversized \in BOOLEAN
  OBVIOUS
<1> HIDE DEF oversized
<1>6. /\ Keeps(cleared, resized)
      /\ cleared.trimmed = resized.trimmed
  BY <1>2, <1>5, ClearedBuffers
<1>7. Recycle(c, bytes, space) = d
  BY DEF Recycle, d, cleared, oversized, active, resized, used
<1>8. d \in Cache
  BY <1>7, <1>15
<1>9. /\ d.segments = cleared.segments
      /\ d.active = active
      /\ d.trimmed = resized.trimmed
  BY <1>5, <1>6, ActiveMoves
<1> HIDE DEF d, cleared
<1>10. Keeps(d, c)
  BY <1>2, <1>6, <1>9 DEF Keeps
<1>11. Total(d, Indices) <= Total(c, Indices)
  BY <1>1, <1>8, <1>10, FewerBytes DEF Keeps
<1>12. /\ Total(d, Indices) \in Nat /\ Total(c, Indices) \in Nat
       /\ Budget \in Nat
       /\ Total(c, Indices) <= Budget
  BY <1>1, <1>8, BytesAreFinite, BudgetIsWhole DEF InBudget
<1>13. Total(d, Indices) <= Budget
  BY <1>11, <1>12
<1>14. \A i \in Indices : i >= Ring(d.trimmed) => d.segments[i].capacity = 0
  BY <1>2, <1>6, <1>9 DEF Keeps
<1> QED
  BY <1>4, <1>7, <1>9, <1>13, <1>14 DEF InBudget

\* Of the steps there are, one is the first.
LEMMA FirstStep ==
  ASSUME NEW S, S \subseteq Nat, S # {}
  PROVE  \E n \in S : \A m \in S : n <= m
<1> DEFINE less == {p \in Nat \X Nat : p[1] < p[2]}
<1>1. IsWellFoundedOn(less, Nat)
  BY NatLessThanWellFounded DEF OpToRel
<1> HIDE DEF less
<1>2. PICK n \in S : \A m \in S : <<m, n>> \notin less
  BY <1>1, WFMin
<1>3. ASSUME NEW m \in S
      PROVE  n <= m
  <2>1. m < n => <<m, n>> \in less
    BY DEF less
  <2> QED
    BY <1>2, <2>1
<1> QED
  BY <1>3

\* Going round the ring from one of its segments, every other one is met.
LEMMA RoundTheRing ==
  ASSUME NEW ring \in Nat, NEW from \in 0 .. ring - 1, NEW i \in 0 .. ring - 1, i # from
  PROVE  \E step \in 1 .. ring - 1 : i = (from + step) % ring
<1> DEFINE step == IF from < i THEN i - from ELSE i - from + ring
<1>1. step \in 1 .. ring - 1
  OBVIOUS
<1>2. (from + step) % ring = i
  <2>1. CASE from < i
    <3>1. from + step = i
      BY <2>1
    <3> QED
      BY <3>1
  <2>2. CASE ~(from < i)
    <3>1. from + step = i + ring
      BY <2>2
    <3>2. (i + ring) % ring = i
      OBVIOUS
    <3> QED
      BY <3>1, <3>2
  <2> QED
    BY <2>1, <2>2
<1> HIDE DEF step
<1> QED
  BY <1>1, <1>2

(***************************************************************************)
(* Without the victims' buffers and the active segment's there is room for *)
(* a new one: either a step round the ring was not needed, and then the    *)
(* victims before it are enough, or no other segment has a buffer left.    *)
(***************************************************************************)
LEMMA VictimsMakeRoom ==
  ASSUME NEW c \in Cache, NEW d \in Cache, InBudget(c),
         NEW capacity \in Nat, capacity <= Budget,
         \A i \in Indices : d.segments[i].capacity \in {0, c.segments[i].capacity},
         \A i \in Indices : i \in Victims(c, capacity) \/ i = c.active
                            => d.segments[i].capacity = 0
  PROVE  Total(d, Indices) + capacity <= Budget
<1> DEFINE ring == Ring(c.trimmed)
           After(n) == {(c.active + step) % ring : step \in 1 .. n}
           Needed == {step \in 1 .. ring - 1 : ~Fits(c, After(step - 1), capacity)}
           Spare == (1 .. ring - 1) \ Needed
<1>1. /\ c.active \in Indices /\ c.active \in Nat
      /\ ring \in Nat \ {0} /\ ring <= Segments
      /\ c.active \in 0 .. ring - 1
  <2>1. c.active \in Indices /\ c.trimmed \in BOOLEAN
    BY DEF Cache
  <2>2. ring \in Nat \ {0} /\ ring <= Segments
    BY <2>1, RingIsThere
  <2>3. c.active < ring
    BY DEF InBudget
  <2> HIDE DEF ring
  <2> QED
    BY <2>1, <2>2, <2>3, RingAssumption DEF Indices
<1>2. Victims(c, capacity) = {(c.active + step) % ring : step \in Needed}
  BY DEF Victims
<1>3. Total(d, Indices) \in Nat /\ Budget \in Nat
  BY BytesAreFinite, BudgetIsWhole
<1>4. CASE Spare = {}
  <2>1. ASSUME NEW i \in Indices
        PROVE  d.segments[i].capacity = 0
    <3>1. CASE i = c.active
      BY <3>1
    <3>2. CASE i # c.active /\ i < ring
      <4>1. i \in 0 .. ring - 1
        BY <1>1, <3>2 DEF Indices
      <4>2. PICK step \in 1 .. ring - 1 : i = (c.active + step) % ring
        <5> HIDE DEF ring
        <5> QED
          BY <1>1, <3>2, <4>1, RoundTheRing
      <4>3. step \in Needed
        BY <1>4
      <4>4. i \in Victims(c, capacity)
        BY <1>2, <4>2, <4>3
      <4> QED
        BY <4>4
    <3>3. CASE i >= ring
      <4>1. c.segments[i].capacity = 0
        BY <3>3 DEF InBudget
      <4> QED
        BY <4>1
    <3>4. i < ring \/ i >= ring
      BY <1>1 DEF Indices
    <3> QED
      BY <3>1, <3>2, <3>3, <3>4
  <2>2. Total(d, Indices) = 0
    BY <2>1, NoBytes
  <2> QED
    BY <1>3, <2>2
<1>5. CASE Spare # {}
  <2>1. Spare \subseteq Nat
    BY <1>1
  <2>2. PICK spare \in Spare : \A m \in Spare : spare <= m
    <3> HIDE DEF Spare
    <3> QED
      BY <1>5, <2>1, FirstStep
  <2>3. spare \in 1 .. ring - 1 /\ Fits(c, After(spare - 1), capacity)
    BY <2>2
  <2>4. After(spare - 1) \subseteq Victims(c, capacity)
    <3> SUFFICES ASSUME NEW step \in 1 .. spare - 1
                 PROVE  (c.active + step) % ring \in Victims(c, capacity)
      OBVIOUS
    <3>1. step \in 1 .. ring - 1 /\ step \notin Spare
      BY <1>1, <2>1, <2>2, <2>3
    <3>2. step \in Needed
      BY <3>1
    <3> QED
      BY <1>2, <3>2
  <2> DEFINE Kept == Indices \ (After(spare - 1) \cup {c.active})
  <2>5. Total(c, Kept) + capacity <= Budget
    BY <2>3 DEF Fits
  <2>6. Total(d, Indices) <= Total(c, Kept)
    <3>1. \A i \in Indices : \/ d.segments[i].capacity = 0
                             \/ i \in Kept /\ d.segments[i].capacity = c.segments[i].capacity
      BY <2>4
    <3>2. Kept \subseteq Indices
      OBVIOUS
    <3> HIDE DEF Kept
    <3> QED
      BY <3>1, <3>2, FewerBytes
  <2>7. Total(c, Kept) \in Nat
    BY BytesAreFinite
  <2> HIDE DEF Kept
  <2> QED
    BY <1>3, <2>5, <2>6, <2>7
<1> QED
  BY <1>4, <1>5
\* A buffer the active segment did not have takes what it takes.
LEMMA NewBuffersBudget ==
  ASSUME NEW c \in Cache, NEW capacity \in Nat,
         Total(c, Indices) + capacity <= Budget,
         c.active < Ring(c.trimmed),
         \A i \in Indices : i >= Ring(c.trimmed) => c.segments[i].capacity = 0
  PROVE  WithBuffer(c, capacity) \in Cache /\ InBudget(WithBuffer(c, capacity))
<1> DEFINE a == c.active
           d == WithBuffer(c, capacity)
<1>1. /\ a \in Indices /\ c.trimmed \in BOOLEAN
      /\ c.segments \in [Indices -> Segment]
  BY DEF Cache
<1>2. /\ d \in Cache
      /\ d.active = a /\ d.trimmed = c.trimmed
      /\ d.segments[a].capacity = capacity
      /\ \A i \in Indices \ {a} : d.segments[i] = c.segments[i]
  <2> DEFINE t == [c.segments[a] EXCEPT !.buffer = TRUE, !.capacity = capacity, !.lastUse = 0]
  <2>1. t \in Segment /\ t.capacity = capacity
    BY <1>1 DEF Segment
  <2>2. d = [c EXCEPT !.segments[a] = t]
    BY DEF WithBuffer
  <2> HIDE DEF t, d
  <2>3. /\ d.segments = [c.segments EXCEPT ![a] = t]
        /\ d.active = a /\ d.trimmed = c.trimmed
        /\ d \in Cache
    BY <1>1, <2>1, <2>2 DEF Cache
  <2> QED
    BY <1>1, <2>1, <2>3
<1> HIDE DEF d
<1>3. Total(d, Indices \ {a}) <= Total(c, Indices)
  BY <1>2, FewerBytes
<1>4. Total(d, Indices) = Total(d, Indices \ {a}) + capacity
  BY <1>1, <1>2, OneMoreBuffer
<1>5. /\ Total(d, Indices \ {a}) \in Nat /\ Total(c, Indices) \in Nat
      /\ Budget \in Nat
  BY <1>2, BytesAreFinite, BudgetIsWhole
<1>6. Total(d, Indices) <= Budget
  BY <1>3, <1>4, <1>5
<1>7. \A i \in Indices : i >= Ring(d.trimmed) => d.segments[i].capacity = 0
  <2> SUFFICES ASSUME NEW i \in Indices, i >= Ring(c.trimmed)
               PROVE  d.segments[i].capacity = 0
    BY <1>2
  <2>1. Ring(c.trimmed) \in Nat /\ a \in Nat /\ i \in Nat
    BY <1>1, RingIsThere DEF Indices
  <2>2. i # a
    BY <2>1
  <2> QED
    BY <1>2, <2>2
<1> QED
  BY <1>2, <1>6, <1>7 DEF InBudget, d

\* The active segment's buffer is gone, and no other.
LEMMA DroppedBuffer ==
  ASSUME NEW c \in Cache
  PROVE  LET d == WithoutBuffer(c)
         IN /\ Keeps(d, c)
            /\ d.active = c.active /\ d.trimmed = c.trimmed
            /\ d.segments[c.active].capacity = 0
<1> DEFINE t == [c.segments[c.active] EXCEPT !.buffer = FALSE, !.capacity = 0,
                                             !.spans = {}, !.reads = {}]
           b == [c EXCEPT !.segments[c.active] = t]
           d == [b EXCEPT !.dynamic = IF @ = c.active THEN NoBuffer ELSE @]
<1>1. c.active \in Indices /\ c.segments \in [Indices -> Segment]
  BY DEF Cache
<1>2. t.capacity = 0
  BY <1>1 DEF Segment
<1>3. d = WithoutBuffer(c)
  BY DEF WithoutBuffer, DropBuffer
<1> HIDE DEF t
<1>4. /\ d.segments = [c.segments EXCEPT ![c.active] = t]
      /\ d.active = c.active /\ d.trimmed = c.trimmed
  BY DEF Cache
<1> HIDE DEF d
<1> QED
  BY <1>1, <1>2, <1>3, <1>4 DEF Keeps

\* However CreateBuffer answers, the ring stays within its budget.
LEMMA AllocatedBudget ==
  ASSUME NEW c, NEW bytes \in Nat, NEW alloc \in {"ok", "retry", "fail", "lost"},
         NEW now \in Nat, NEW done \in Nat, CacheIsSafe(c, now, done),
         c.segments[c.active].cursor = 0, c.segments[c.active].keys = {},
         InBudget(c), bytes <= Budget
  PROVE  InBudget(Allocate(c, bytes, alloc))
<1> DEFINE capacity == Greatest(NormalCapacity, bytes)
           cleared == ClearSegments(c, Victims(c, capacity), TRUE)
           freed == WithoutBuffer(cleared)
           alone == DropOthers(freed)
<1>1. c \in Cache /\ c.active \in Indices
  BY DEF CacheIsSafe, Cache
<1>2. capacity \in Nat /\ capacity <= Budget
  BY CapacityAssumption, BudgetIsWhole DEF Greatest
<1> HIDE DEF capacity
<1>3. /\ CacheIsSafe(cleared, now, done)
      /\ cleared.active = c.active /\ cleared.trimmed = c.trimmed
      /\ Keeps(cleared, c)
      /\ cleared.segments[cleared.active].cursor = 0
      /\ cleared.segments[cleared.active].keys = {}
      /\ \A i \in Indices : i \in Victims(c, capacity) => cleared.segments[i].capacity = 0
  <2> DEFINE V == Victims(c, capacity)
             b == ClearSegments(c, V, TRUE)
  <2> HIDE DEF V
  <2>1. /\ CacheIsSafe(b, now, done)
        /\ \A i \in Indices \cap V : b.segments[i].cursor = 0 /\ b.segments[i].keys = {}
    BY ClearedCache
  <2>2. /\ Keeps(b, c)
        /\ b.active = c.active /\ b.trimmed = c.trimmed
        /\ \A i \in Indices \ V : b.segments[i] = c.segments[i]
        /\ \A i \in Indices \cap V : b.segments[i].capacity = 0
    BY <1>1, ClearedBuffers
  <2>3. cleared = b
    BY DEF V
  <2> HIDE DEF b, cleared
  <2> QED
    BY <1>1, <2>1, <2>2, <2>3 DEF V
<1> HIDE DEF cleared
<1>4. cleared \in Cache
  BY <1>3 DEF CacheIsSafe
<1>5. /\ CacheIsSafe(freed, now, done)
      /\ Bare(freed)
      /\ freed.active = c.active /\ freed.trimmed = c.trimmed
      /\ Keeps(freed, c)
      /\ freed.segments[c.active].capacity = 0
      /\ \A i \in Indices : i \in Victims(c, capacity) => freed.segments[i].capacity = 0
  <2>1. CacheIsSafe(freed, now, done) /\ Bare(freed)
    BY <1>3, ReleasedBuffer
  <2>2. /\ Keeps(freed, cleared)
        /\ freed.active = cleared.active /\ freed.trimmed = cleared.trimmed
        /\ freed.segments[cleared.active].capacity = 0
    BY <1>4, DroppedBuffer
  <2> HIDE DEF freed
  <2> QED
    BY <1>3, <2>1, <2>2 DEF Keeps
<1> HIDE DEF freed
<1>6. freed \in Cache
  BY <1>5 DEF CacheIsSafe
<1>7. InBudget(freed)
  BY <1>1, <1>5, <1>6, KeptBudget
<1>8. /\ alone \in Cache
      /\ Keeps(alone, freed)
      /\ alone.active = freed.active /\ alone.trimmed = freed.trimmed
      /\ \A i \in Indices : alone.segments[i].capacity = 0
  <2> DEFINE V == Indices \ {freed.active}
             b == ClearSegments(freed, V, TRUE)
  <2>1. freed.active \notin V /\ \A i \in Indices : i \in V \/ i = freed.active
    OBVIOUS
  <2> HIDE DEF V
  <2>2. CacheIsSafe(b, now, done)
    BY <1>5, ClearedCache
  <2>3. /\ Keeps(b, freed)
        /\ b.active = freed.active /\ b.trimmed = freed.trimmed
        /\ \A i \in Indices \ V : b.segments[i] = freed.segments[i]
        /\ \A i \in Indices \cap V : b.segments[i].capacity = 0
    BY <1>6, ClearedBuffers
  <2>4. alone = b
    BY DEF DropOthers, V
  <2> HIDE DEF b, alone
  <2>5. b \in Cache
    BY <2>2 DEF CacheIsSafe
  <2> QED
    BY <1>5, <2>1, <2>3, <2>4, <2>5
<1> HIDE DEF alone
<1>9. InBudget(alone)
  BY <1>6, <1>7, <1>8, KeptBudget
<1>10. CASE alloc = "ok"
  <2>1. Allocate(c, bytes, alloc) = WithBuffer(freed, capacity)
    BY <1>10 DEF Allocate, freed, cleared, capacity
  <2>2. Total(freed, Indices) + capacity <= Budget
    BY <1>1, <1>2, <1>5, <1>6, VictimsMakeRoom DEF Keeps
  <2>3. InBudget(WithBuffer(freed, capacity))
    BY <1>2, <1>6, <1>7, <2>2, NewBuffersBudget DEF InBudget
  <2> QED
    BY <2>1, <2>3
<1>11. CASE alloc = "retry"
  <2>1. Allocate(c, bytes, alloc) = WithBuffer(alone, RoundUp(bytes))
    BY <1>11 DEF Allocate, alone, freed, cleared, capacity
  <2>2. RoundUp(bytes) \in Nat /\ RoundUp(bytes) <= Budget
    BY RoundedUp, BudgetIsWhole
  <2>3. Total(alone, Indices) = 0
    BY <1>8, NoBytes
  <2>4. Total(alone, Indices) + RoundUp(bytes) <= Budget
    BY <2>2, <2>3
  <2>5. InBudget(WithBuffer(alone, RoundUp(bytes)))
    BY <1>8, <1>9, <2>2, <2>4, NewBuffersBudget DEF InBudget
  <2> QED
    BY <2>1, <2>5
<1>12. CASE alloc = "fail"
  <2>1. Allocate(c, bytes, alloc) = alone
    BY <1>12 DEF Allocate, alone, freed, cleared, capacity
  <2> QED
    BY <1>9, <2>1
<1>13. CASE alloc = "lost"
  <2>1. Allocate(c, bytes, alloc) = freed
    BY <1>13 DEF Allocate, freed, cleared, capacity
  <2> QED
    BY <1>7, <2>1
<1> QED
  BY <1>10, <1>11, <1>12, <1>13

\* Making room for an upload that is not refused keeps the ring within its budget.
LEMMA RoomStaysInBudget ==
  ASSUME NEW k \in Keys, NEW space, NEW alloc \in {"ok", "retry", "fail", "lost"},
         NEW now \in Nat, NEW done \in Nat, CacheIsSafe(cache, now, done),
         InBudget(cache), Size[k] <= Budget
  PROVE  InBudget(Room(k, space, alloc))
<1> DEFINE c == Recycle(cache, Size[k], space)
<1>1. Size[k] \in Nat
  BY SizeAssumption
<1>2. /\ CacheIsSafe(c, now, done)
      /\ c.segments[c.active].cursor = 0
      /\ c.segments[c.active].keys = {}
  BY RecycledCache
<1>3. InBudget(c)
  BY RecycledBudget
<1>4. Room(k, space, alloc) \in {cache, c, Allocate(c, Size[k], alloc)}
  BY DEF Room, Advanced
<1> HIDE DEF c
<1>5. InBudget(Allocate(c, Size[k], alloc))
  BY <1>1, <1>2, <1>3, AllocatedBudget
<1> QED
  BY <1>3, <1>4, <1>5

\* The upload and its draw leave every buffer as large as it is.
LEMMA WrittenBudget ==
  ASSUME NEW c \in Cache, InBudget(c), NEW k \in Keys, NEW discard \in BOOLEAN,
         NEW remembered \in BOOLEAN, NEW lo, NEW d \in Cache,
         d = Queue(Write(c, k, discard, remembered), k, lo)
  PROVE  InBudget(d)
<1> DEFINE i == c.active
           s == c.segments[i]
           w == Write(c, k, discard, remembered)
<1>1. i \in Indices /\ c.segments \in [Indices -> Segment] /\ s \in Segment
  BY DEF Cache
<1>2. \E t : /\ w = [segments |-> [c.segments EXCEPT ![i] = t], entries |-> w.entries,
                     active |-> i, trimmed |-> c.trimmed, dynamic |-> i]
             /\ t.capacity = s.capacity
             /\ "capacity" \in DOMAIN t
  <2> DEFINE kept == IF discard THEN {} ELSE {x \in s.spans : Disjoint(x, s.cursor, Size[k])}
             t == [s EXCEPT !.spans = kept \cup {[key |-> k, lo |-> s.cursor]},
                            !.reads = IF discard THEN {} ELSE @,
                            !.cursor = RoundUp(s.cursor + Size[k]),
                            !.lastUse = currentFrame,
                            !.keys = Listed(@, k, remembered)]
             entry == IF remembered THEN [segment |-> i, offset |-> s.cursor] ELSE c.entries[k]
  <2>1. t.capacity = s.capacity /\ "capacity" \in DOMAIN t
    BY <1>1 DEF Segment
  <2>2. w = [c EXCEPT !.segments[i] = t, !.entries[k] = entry, !.dynamic = i]
    BY DEF Write
  <2> HIDE DEF t, entry, w
  <2>3. w = [segments |-> [c.segments EXCEPT ![i] = t], entries |-> w.entries,
             active |-> i, trimmed |-> c.trimmed, dynamic |-> i]
    BY <2>2 DEF Cache
  <2> QED
    BY <2>1, <2>3
<1>3. PICK t : /\ w = [segments |-> [c.segments EXCEPT ![i] = t], entries |-> w.entries,
                       active |-> i, trimmed |-> c.trimmed, dynamic |-> i]
               /\ t.capacity = s.capacity
               /\ "capacity" \in DOMAIN t
  BY <1>2
<1>4. d = [w EXCEPT !.segments[w.dynamic].reads =
             @ \cup {[key |-> k, lo |-> lo, frame |-> currentFrame]}]
  BY DEF Queue
<1> HIDE DEF w
<1> DEFINE queued == [t EXCEPT !.reads =
                        @ \cup {[key |-> k, lo |-> lo, frame |-> currentFrame]}]
           written == [c.segments EXCEPT ![i] = t]
<1>5. queued.capacity = s.capacity
  BY <1>3
<1>6. /\ w.dynamic = i /\ w.segments = written
      /\ written[i] = t
  BY <1>1, <1>3
<1>7. /\ d.active = c.active /\ d.trimmed = c.trimmed
      /\ d.segments = [written EXCEPT ![i].reads =
                         @ \cup {[key |-> k, lo |-> lo, frame |-> currentFrame]}]
  BY <1>3, <1>4, <1>6
<1>8. d.segments = [written EXCEPT ![i] = queued]
  BY <1>6, <1>7
<1> HIDE DEF queued
<1>9. \A j \in Indices : d.segments[j].capacity = c.segments[j].capacity
  BY <1>1, <1>5, <1>8
<1> QED
  BY <1>7, <1>9, KeptBudget DEF Keeps
\* A driver that has just been constructed, or whose context is gone, has no buffers.
LEMMA EmptyBudget ==
  ASSUME NEW trimmed \in BOOLEAN
  PROVE  InBudget(EmptyCache(trimmed))
<1> DEFINE c == EmptyCache(trimmed)
<1>1. /\ c.active = 0 /\ c.trimmed = trimmed
      /\ \A i \in Indices : c.segments[i].capacity = 0
  BY DEF EmptyCache, FreeSegment
<1>2. c \in Cache
  BY FreeSegmentIsSafe, RingIsThere DEF EmptyCache, Cache
<1>3. 0 < Ring(trimmed)
  BY RingIsThere
<1> HIDE DEF c
<1>4. Total(c, Indices) = 0
  BY <1>1, <1>2, NoBytes
<1> QED
  BY <1>1, <1>3, <1>4, BudgetIsWhole DEF InBudget, c

\* The end of a frame moves the active segment back into the ring it trims.
LEMMA EndedBudget ==
  ASSUME Safe, InBudget(cache), cache' \in Cache,
         NEW created \in BOOLEAN, NEW low \in BOOLEAN, EndFrame(created, low)
  PROVE  InBudget(cache')
<1> DEFINE b == TrimCache(cache)
           d == [b EXCEPT !.active = IF @ >= Ring(TRUE) THEN 0 ELSE @]
<1>1. cache \in Cache
  BY DEF Safe, CacheIsSafe
<1>2. cache' = cache \/ cache' = d
  BY DEF EndFrame
<1>3. ASSUME cache' = d
      PROVE  InBudget(cache')
  <2>1. /\ Keeps(b, cache)
        /\ b.active = cache.active /\ b.trimmed = TRUE
        /\ \A i \in Indices : i >= Ring(TRUE) => b.segments[i].capacity = 0
    BY <1>1, TrimmedBuffers
  <2> DEFINE ring == Ring(TRUE)
  <2>8. ring \in Nat \ {0}
    BY RingIsThere
  <2> HIDE DEF ring
  <2>2. /\ d.segments = b.segments /\ d.trimmed = b.trimmed
        /\ d.active = IF b.active >= ring THEN 0 ELSE b.active
    BY DEF TrimCache, ClearSegments, ring
  <2> HIDE DEF b, d
  <2>3. b.active \in Nat
    BY <1>1, <2>1 DEF Cache, Indices
  <2>4. d.active < Ring(d.trimmed)
    <3>1. d.active < ring
      BY <2>2, <2>3, <2>8
    <3> QED
      BY <2>1, <2>2, <3>1 DEF ring
  <2>5. Total(d, Indices) <= Total(cache, Indices)
    BY <1>1, <1>3, <2>1, <2>2, FewerBytes DEF Keeps
  <2>6. /\ Total(d, Indices) \in Nat /\ Total(cache, Indices) \in Nat
        /\ Budget \in Nat
    BY <1>1, <1>3, BytesAreFinite, BudgetIsWhole
  <2>7. Total(d, Indices) <= Budget
    BY <2>5, <2>6 DEF InBudget
  <2> QED
    BY <1>3, <2>1, <2>2, <2>4, <2>7 DEF InBudget
<1> QED
  BY <1>2, <1>3

\* The end of a frame on the GPU leaves the buffers alone.
LEMMA FinishedBudget ==
  ASSUME cache \in Cache, InBudget(cache), cache' \in Cache, GpuFinishes
  PROVE  InBudget(cache')
<1> DEFINE Pending(i) == {r \in cache.segments[i].reads : r.frame > gpuDone'}
           Left(i) == [cache.segments[i] EXCEPT
                         !.reads = Pending(i),
                         !.spans = Held(@, cache.segments[i].keys, Pending(i))]
           d == [cache EXCEPT !.segments = [i \in Indices |-> Left(i)]]
<1>1. cache' = d
  BY Zenon DEF GpuFinishes
<1>2. \A i \in Indices : Left(i).capacity = cache.segments[i].capacity
  BY DEF Cache, Segment
<1> HIDE DEF Left
<1>3. /\ d.active = cache.active /\ d.trimmed = cache.trimmed
      /\ \A i \in Indices : d.segments[i] = Left(i)
  BY DEF Cache
<1> HIDE DEF d
<1>4. Keeps(d, cache)
  BY <1>2, <1>3 DEF Keeps
<1>5. d \in Cache
  BY <1>1
<1> QED
  BY <1>1, <1>3, <1>4, <1>5, KeptBudget

\* So does a draw whose geometry is found in a segment.
LEMMA HitBudget ==
  ASSUME cache \in Cache, InBudget(cache), cache' \in Cache,
         NEW k \in Keys, UseCachedBuffer(k)
  PROVE  InBudget(cache')
<1> DEFINE e == cache.entries[k]
           i == e.segment
           s == cache.segments[i]
           read == [key |-> k, lo |-> e.offset, frame |-> currentFrame]
           w == [s EXCEPT !.lastUse = currentFrame]
           t == [w EXCEPT !.reads = @ \cup {read}]
           b == [cache EXCEPT !.segments[i].lastUse = currentFrame, !.dynamic = i]
           d == [b EXCEPT !.segments[i].reads = @ \cup {read}]
<1>1. /\ i \in Indices /\ s \in Segment
      /\ cache.segments \in [Indices -> Segment]
  BY DEF Cache, UseCachedBuffer, Cached, Entry
<1>2. w.capacity = s.capacity /\ t.capacity = s.capacity
  BY <1>1 DEF Segment
<1> HIDE DEF t
<1>3. /\ b.active = cache.active /\ b.trimmed = cache.trimmed /\ b.dynamic = i
      /\ b.segments = [cache.segments EXCEPT ![i] = w]
      /\ DOMAIN b = DOMAIN cache
      /\ "segments" \in DOMAIN b
  BY <1>1 DEF Cache
<1> HIDE DEF w, b
<1>4. b.segments[i] = w
  BY <1>1, <1>3
<1>5. d = [b EXCEPT !.segments[i] = t]
  BY <1>4 DEF t
<1>6. cache' = d \/ cache' = b
  BY <1>3 DEF UseCachedBuffer, Queue, b
<1> HIDE DEF d
<1>7. /\ d.active = b.active /\ d.trimmed = b.trimmed
      /\ d.segments = [b.segments EXCEPT ![i] = t]
  <2>1. "active" \in DOMAIN b /\ "trimmed" \in DOMAIN b
    BY <1>3 DEF Cache
  <2> QED
    BY <1>3, <1>5, <2>1
<1>8. \A j \in Indices : /\ b.segments[j].capacity = cache.segments[j].capacity
                         /\ d.segments[j].capacity = cache.segments[j].capacity
  BY <1>1, <1>2, <1>3, <1>7
<1>9. /\ Keeps(d, cache) /\ Keeps(b, cache)
      /\ d.active = cache.active /\ d.trimmed = cache.trimmed
  BY <1>3, <1>7, <1>8 DEF Keeps
<1>10. CASE cache' = d
  <2>1. d \in Cache
    BY <1>10
  <2> QED
    BY <1>9, <1>10, <2>1, KeptBudget
<1>11. CASE cache' = b
  <2>1. b \in Cache
    BY <1>11
  <2> QED
    BY <1>3, <1>9, <1>11, <2>1, KeptBudget
<1> QED
  BY <1>6, <1>10, <1>11

\* No operation takes more memory than the ring may have.
LEMMA StepKeepsBudget == Safe /\ InBudget(cache) /\ [Next]_vars => InBudget(cache')
<1> SUFFICES ASSUME Safe, InBudget(cache), [Next]_vars
             PROVE  InBudget(cache')
  OBVIOUS
<1>1. /\ cache \in Cache
      /\ CacheIsSafe(cache, currentFrame, gpuDone)
      /\ currentFrame \in Nat /\ gpuDone \in Nat
  BY DEF Safe, CacheIsSafe, FencesAreSafe, FencesTypeOK
<1>2. cache' \in Cache
  BY StepIsSafe DEF Safe, CacheIsSafe
<1>3. CASE CreateDevice \/ UNCHANGED vars
  BY <1>3 DEF CreateDevice, vars
<1>4. CASE DestroyD3D11Context
  <2>1. cache' = EmptyCache(cache.trimmed) /\ cache.trimmed \in BOOLEAN
    BY <1>1, <1>4 DEF DestroyD3D11Context, Cache
  <2> QED
    BY <2>1, EmptyBudget
<1>5. CASE GpuFinishes
  BY <1>1, <1>2, <1>5, FinishedBudget
<1>11. ASSUME NEW k \in Keys, UseCachedBuffer(k)
       PROVE  InBudget(cache')
  BY <1>1, <1>2, <1>11, HitBudget
<1>6. ASSUME NEW k \in Keys, NEW space, NEW alloc \in {"fail", "lost"},
             UploadFindsNoMemory(k, space, alloc)
      PROVE  InBudget(cache')
  <2>1. cache' = Room(k, space, alloc) /\ Size[k] <= Budget
    BY <1>6 DEF UploadFindsNoMemory, Misses
  <2> QED
    BY <1>1, <2>1, RoomStaysInBudget
<1>7. ASSUME NEW k \in Keys, NEW space, NEW alloc \in {"ok", "retry"}, NEW lost \in BOOLEAN,
             UploadCannotMap(k, space, alloc, lost)
      PROVE  InBudget(cache')
  <2>1. cache' = Room(k, space, alloc) /\ Size[k] <= Budget
    BY <1>7 DEF UploadCannotMap, Misses
  <2> QED
    BY <1>1, <2>1, RoomStaysInBudget
<1>8. ASSUME NEW k \in Keys, NEW space, NEW alloc \in {"ok", "retry"},
             NEW remembered \in BOOLEAN, UploadCachedBuffer(k, space, alloc, remembered)
      PROVE  InBudget(cache')
  <2> DEFINE c == Room(k, space, alloc)
             lo == c.segments[c.active].cursor
  <2>1. Size[k] <= Budget
    BY <1>8 DEF UploadCachedBuffer, Misses
  <2>2. InBudget(c)
    BY <1>1, <2>1, RoomStaysInBudget
  <2>3. c \in Cache
    BY <1>1, RoomForKey DEF CacheIsSafe
  <2>4. PICK discard \in BOOLEAN : cache' = Queue(Write(c, k, discard, remembered), k, lo)
    BY <1>8 DEF UploadCachedBuffer
  <2> HIDE DEF c, lo
  <2> QED
    BY <1>2, <2>2, <2>3, <2>4, WrittenBudget
<1>9. ASSUME NEW created \in BOOLEAN, NEW low \in BOOLEAN, EndFrame(created, low)
      PROVE  InBudget(cache')
  BY <1>2, <1>9, EndedBudget
<1>10. ASSUME NEW k \in Keys, NEW space
       PROVE  Allocations(k, space) \subseteq {"ok", "retry"}
  BY DEF Allocations
<1> QED
  BY <1>3, <1>4, <1>5, <1>6, <1>7, <1>8, <1>9, <1>10, <1>11 DEF Next

\* However uploads and allocations fail, the buffers together never exceed the
\* configured cache size, nothing is kept past a trimmed ring, and the next upload
\* goes to a segment that is still in it.
THEOREM RingStaysInBudget == Spec => []RingKeepsItsBudget
<1>1. Init => InBudget(cache)
  BY EmptyBudget DEF Init
<1>2. InBudget(cache) => RingKeepsItsBudget
  BY DEF InBudget, RingKeepsItsBudget, WithinBudget, TrimmedRingHoldsNothingElse
<1>3. InBudget(cache) /\ Safe /\ [Next]_vars => InBudget(cache)'
  BY StepKeepsBudget
<1> QED
  BY <1>1, <1>2, <1>3, CacheIsSafeAlways, PTL DEF Spec

-----------------------------------------------------------------------------
(***************************************************************************)
(* The table of a cache, FlatGeometryCache, for any keys, hashes, sizes    *)
(* and order of calls.  It is a ring as well: Ahead is how far a probe has *)
(* come.  The loops are followed value by value, from the first value for  *)
(* which what is claimed of them would be wrong (FirstStep).               *)
(***************************************************************************)

\* An array of c slots.
Table(c) == [0 .. c - 1 -> Slot]

\* How far p is ahead of h on a ring of c positions.
Ahead(c, h, p) == IF h <= p THEN p - h ELSE p - h + c

\* The position that is d ahead of h.
Onward(c, h, d) == IF h + d < c THEN h + d ELSE h + d - c

\* The mixed bits, as the table's type has them.
BitsTyped == bits \in [CacheKeys -> 0 .. HashSpace - 1]

\* Home, by the number of slots.
HomeOf(c, k) == (bits[k] * c) \div HashSpace

\* Cardinality is what it is for, on an array of slots.
LEMMA CapacityOf ==
  ASSUME NEW c \in Nat, NEW s \in Table(c)
  PROVE  Capacity(s) = c
BY FS_Interval DEF Capacity, Table

\* Once round the ring and no further.
LEMMA OnceRound ==
  ASSUME NEW c \in Nat \ {0}, NEW x \in 0 .. 2 * c - 1
  PROVE  x % c = IF x < c THEN x ELSE x - c
  OBVIOUS

\* Every key's home is a slot of the array.
LEMMA HomeIsThere ==
  ASSUME NEW c \in Nat \ {0}, NEW k \in CacheKeys, BitsTyped
  PROVE  HomeOf(c, k) \in 0 .. c - 1
<1> DEFINE b == bits[k]
           h == (b * c) \div HashSpace
<1>1. b \in Nat /\ HashSpace \in Nat \ {0} /\ b < HashSpace
  BY SlotsAssumption DEF BitsTyped
<1> HIDE DEF b
<1>2. b * c \in Nat /\ b * c < HashSpace * c
  BY <1>1
<1>3. h \in Int /\ HashSpace * h <= b * c /\ b * c < HashSpace * (h + 1)
  BY <1>1, <1>2
<1> HIDE DEF h
<1>4. h < c
  BY <1>1, <1>2, <1>3
<1>5. h >= 0
  BY <1>1, <1>2, <1>3
<1> QED
  BY <1>3, <1>4, <1>5 DEF HomeOf, h, b

(***************************************************************************)
(* A table is sound when no key is in it twice and all slots from an       *)
(* entry's home up to it are used: find meets no unused slot before it.    *)
(***************************************************************************)
Used(c, s) == {i \in 0 .. c - 1 : s[i] # Empty}

Distinct(c, s) == \A i, j \in Used(c, s) : s[i].key = s[j].key => i = j

Reached(c, s) ==
  \A i \in Used(c, s), p \in 0 .. c - 1 :
    LET home == HomeOf(c, s[i].key)
    IN Ahead(c, home, p) < Ahead(c, home, i) => s[p] # Empty

Sound(c, s) == s \in Table(c) /\ Distinct(c, s) /\ Reached(c, s)

Contents(c, s) == {s[i] : i \in Used(c, s)}

\* Home and At, in terms of the number of slots.
LEMMA ProbeOrder ==
  ASSUME NEW c \in Nat \ {0}, NEW s \in Table(c), NEW k \in CacheKeys, BitsTyped
  PROVE  /\ Home(s, k) = HomeOf(c, k)
         /\ HomeOf(c, k) \in 0 .. c - 1
         /\ \A d \in 0 .. c - 1 : At(s, k, d) = Onward(c, HomeOf(c, k), d)
<1>1. Capacity(s) = c
  BY CapacityOf
<1>2. HomeOf(c, k) \in 0 .. c - 1
  BY HomeIsThere
<1>3. Home(s, k) = HomeOf(c, k)
  BY <1>1 DEF Home, HomeOf
<1>4. ASSUME NEW d \in 0 .. c - 1
      PROVE  At(s, k, d) = Onward(c, HomeOf(c, k), d)
  <2> DEFINE x == HomeOf(c, k) + d
  <2>1. x \in 0 .. 2 * c - 1
    BY <1>2
  <2>2. At(s, k, d) = x % c
    BY <1>1, <1>3 DEF At
  <2>3. Onward(c, HomeOf(c, k), d) = IF x < c THEN x ELSE x - c
    BY <1>2 DEF Onward
  <2> HIDE DEF x
  <2> QED
    BY <2>1, <2>2, <2>3, OnceRound
<1> QED
  BY <1>2, <1>3, <1>4

\* A position is as far onward as it is ahead.
LEMMA OnwardAhead ==
  ASSUME NEW c \in Nat \ {0}, NEW h \in 0 .. c - 1, NEW p \in 0 .. c - 1
  PROVE  /\ Ahead(c, h, p) \in 0 .. c - 1
         /\ Onward(c, h, Ahead(c, h, p)) = p
         /\ \A d \in 0 .. c - 1 : /\ Onward(c, h, d) \in 0 .. c - 1
                                  /\ Ahead(c, h, Onward(c, h, d)) = d
BY DEF Ahead, Onward

\* The probe ends at a slot where it may stop, if it may at none before.
LEMMA ProbeStopsAt ==
  ASSUME NEW c \in Nat \ {0}, NEW s \in Table(c), NEW k \in CacheKeys, BitsTyped,
         NEW e \in 0 .. c - 1,
         s[e] = Empty \/ s[e].key = k,
         \A p \in 0 .. c - 1 :
           Ahead(c, HomeOf(c, k), p) < Ahead(c, HomeOf(c, k), e) => s[p] # Empty /\ s[p].key # k
  PROVE  Probe(s, k) = e
<1> DEFINE home == HomeOf(c, k)
           D == {d \in 0 .. Capacity(s) - 1 : s[At(s, k, d)] = Empty \/ s[At(s, k, d)].key = k}
           far == Ahead(c, home, e)
<1>1. Capacity(s) = c /\ home \in 0 .. c - 1
  BY CapacityOf, ProbeOrder
<1>2. \A d \in 0 .. c - 1 : At(s, k, d) = Onward(c, home, d)
  BY ProbeOrder
<1> HIDE DEF home
<1>3. far \in 0 .. c - 1 /\ Onward(c, home, far) = e
  BY <1>1, OnwardAhead
<1>4. far \in D
  BY <1>1, <1>2, <1>3
<1>5. ASSUME NEW d \in D PROVE far <= d
  <2>1. d \in 0 .. c - 1 /\ (s[Onward(c, home, d)] = Empty \/ s[Onward(c, home, d)].key = k)
    BY <1>1, <1>2
  <2>2. Onward(c, home, d) \in 0 .. c - 1 /\ Ahead(c, home, Onward(c, home, d)) = d
    BY <1>1, <2>1, OnwardAhead
  <2>3. ~ (Ahead(c, home, Onward(c, home, d)) < far)
    BY <2>1, <2>2 DEF home
  <2> QED
    BY <1>3, <2>1, <2>2, <2>3
<1>6. D \subseteq Int
  BY <1>1
<1> HIDE DEF D
<1>7. Min(D) = far
  <2>1. Min(D) \in D /\ \A d \in D : Min(D) <= d
    BY <1>4, <1>5 DEF Min
  <2>2. far <= Min(D) /\ Min(D) <= far /\ far \in Int /\ Min(D) \in Int
    BY <1>3, <1>4, <1>5, <1>6, <2>1
  <2> QED
    BY <2>2
<1>8. Probe(s, k) = At(s, k, far)
  BY <1>7 DEF Probe, D
<1> QED
  BY <1>2, <1>3, <1>8

\* find's probe meets the key that is there.
LEMMA ProbeMeets ==
  ASSUME NEW c \in Nat \ {0}, NEW s, Sound(c, s), BitsTyped, NEW i \in Used(c, s)
  PROVE  s[i].key \in CacheKeys /\ Probe(s, s[i].key) = i
<1>1. s \in Table(c) /\ i \in 0 .. c - 1 /\ s[i] # Empty
  BY DEF Sound, Used
<1>2. s[i].key \in CacheKeys
  BY <1>1 DEF Table, Slot
<1> DEFINE k == s[i].key
<1>3. ASSUME NEW p \in 0 .. c - 1, Ahead(c, HomeOf(c, k), p) < Ahead(c, HomeOf(c, k), i)
      PROVE  s[p] # Empty /\ s[p].key # k
  <2>1. s[p] # Empty
    BY <1>3 DEF Sound, Reached
  <2>2. CASE s[p].key = k
    <3>1. p = i
      BY <2>1, <2>2 DEF Sound, Distinct, Used
    <3>2. HomeOf(c, k) \in 0 .. c - 1
      BY <1>2, HomeIsThere
    <3>3. Ahead(c, HomeOf(c, k), i) \in 0 .. c - 1
      BY <1>1, <3>2, OnwardAhead
    <3> QED
      BY <1>3, <3>1, <3>3
  <2> QED
    BY <2>1, <2>2
<1> QED
  BY <1>1, <1>2, <1>3, ProbeStopsAt

\* For a key that is not there, it meets the first unused slot, if there is one.
LEMMA ProbeMisses ==
  ASSUME NEW c \in Nat \ {0}, NEW s \in Table(c), BitsTyped, NEW k \in CacheKeys,
         \A i \in Used(c, s) : s[i].key # k,
         NEW gap \in 0 .. c - 1, s[gap] = Empty
  PROVE  /\ Probe(s, k) \in 0 .. c - 1
         /\ s[Probe(s, k)] = Empty
         /\ \A p \in 0 .. c - 1 :
              Ahead(c, HomeOf(c, k), p) < Ahead(c, HomeOf(c, k), Probe(s, k)) => s[p] # Empty
<1> DEFINE home == HomeOf(c, k)
           F == {d \in 0 .. c - 1 : s[Onward(c, home, d)] = Empty}
<1>1. home \in 0 .. c - 1
  BY HomeIsThere
<1> HIDE DEF home
<1>2. Ahead(c, home, gap) \in F
  BY <1>1, OnwardAhead
<1>3. PICK d \in F : \A m \in F : d <= m
  <2>1. F \subseteq Nat /\ F # {}
    BY <1>2
  <2> HIDE DEF F
  <2> QED
    BY <2>1, FirstStep
<1> DEFINE e == Onward(c, home, d)
<1>4. e \in 0 .. c - 1 /\ s[e] = Empty /\ Ahead(c, home, e) = d
  BY <1>1, OnwardAhead
<1>5. ASSUME NEW p \in 0 .. c - 1, Ahead(c, home, p) < d
      PROVE  s[p] # Empty /\ s[p].key # k
  <2>1. Ahead(c, home, p) \in 0 .. c - 1 /\ Onward(c, home, Ahead(c, home, p)) = p
    BY <1>1, OnwardAhead
  <2>2. Ahead(c, home, p) \notin F
    BY <1>3, <1>5, <2>1
  <2> QED
    BY <2>1, <2>2 DEF Used
<1> HIDE DEF e, F
<1>6. Probe(s, k) = e
  BY <1>4, <1>5, ProbeStopsAt DEF home
<1> QED
  BY <1>4, <1>5, <1>6 DEF home

\* Distinct keys make as many entries, and as many keys, as used slots.
LEMMA EntriesAreCounted ==
  ASSUME NEW c \in Nat, NEW s, Sound(c, s)
  PROVE  /\ IsFiniteSet(Used(c, s)) /\ IsFiniteSet(Contents(c, s))
         /\ Cardinality(Used(c, s)) \in Nat
         /\ Cardinality(Contents(c, s)) = Cardinality(Used(c, s))
         /\ IsFiniteSet({s[i].key : i \in Used(c, s)})
         /\ Cardinality({s[i].key : i \in Used(c, s)}) = Cardinality(Used(c, s))
<1> DEFINE used == Used(c, s)
           f == [i \in used |-> s[i]]
           g == [i \in used |-> s[i].key]
           keys == {s[i].key : i \in used}
<1>1. IsFiniteSet(used) /\ Cardinality(used) \in Nat
  <2>1. IsFiniteSet(0 .. c - 1) /\ used \subseteq 0 .. c - 1
    BY FS_Interval DEF Used
  <2> QED
    BY <2>1, FS_Subset, FS_CardinalityType
<1>2. f \in Surjection(used, Contents(c, s)) /\ f \in Injection(used, Contents(c, s))
  BY DEF Surjection, Injection, IsInjective, Contents, Sound, Distinct
<1>3. g \in Surjection(used, keys) /\ g \in Injection(used, keys)
  BY DEF Surjection, Injection, IsInjective, Sound, Distinct
<1> HIDE DEF used, f, g, keys
<1>4. IsFiniteSet(Contents(c, s)) /\ Cardinality(Contents(c, s)) = Cardinality(used)
  BY <1>1, <1>2, FS_Surjection
<1>5. IsFiniteSet(keys) /\ Cardinality(keys) = Cardinality(used)
  BY <1>1, <1>3, FS_Surjection
<1> QED
  BY <1>1, <1>4, <1>5 DEF used, keys

\* A table that is not full has a slot to spare.
LEMMA SlotToSpare ==
  ASSUME NEW c \in Nat, NEW s, Sound(c, s), Cardinality(Contents(c, s)) < c
  PROVE  \E gap \in 0 .. c - 1 : s[gap] = Empty
<1> SUFFICES ASSUME \A gap \in 0 .. c - 1 : s[gap] # Empty
             PROVE  FALSE
  OBVIOUS
<1>1. Used(c, s) = 0 .. c - 1
  BY DEF Used
<1>2. Cardinality(0 .. c - 1) = c
  BY FS_Interval
<1>3. Cardinality(Contents(c, s)) = c
  BY <1>1, <1>2, EntriesAreCounted
<1> QED
  BY <1>3

\* A table without entries.
LEMMA NoSlotsIsSound ==
  ASSUME NEW c \in Nat
  PROVE  /\ Sound(c, NoSlots(c))
         /\ Contents(c, NoSlots(c)) = {}
BY DEF Sound, NoSlots, Table, Slot, Distinct, Reached, Used, Contents

\* An assignment to a table with a slot to spare replaces the key's entry or adds it.
LEMMA AssignedIsSound ==
  ASSUME NEW c \in Nat \ {0}, NEW s, Sound(c, s), BitsTyped,
         NEW k \in CacheKeys, NEW v \in Values,
         NEW gap \in 0 .. c - 1, s[gap] = Empty
  PROVE  /\ Sound(c, Assigned(s, k, v))
         /\ Contents(c, Assigned(s, k, v)) =
              {r \in Contents(c, s) : r.key # k} \cup {[key |-> k, value |-> v]}
<1> DEFINE entry == [key |-> k, value |-> v]
           i == Probe(s, k)
           t == [s EXCEPT ![i] = entry]
<1>1. entry \in Slot /\ entry.key = k /\ entry # Empty
  BY EmptyAssumption DEF Slot
<1>2. s \in Table(c) /\ Distinct(c, s) /\ Reached(c, s)
  BY DEF Sound
<1>3. /\ i \in 0 .. c - 1
      /\ s[i] # Empty => s[i].key = k
      /\ \A j \in Used(c, s) : s[j].key = k => j = i
      /\ \A p \in 0 .. c - 1 : Ahead(c, HomeOf(c, k), p) < Ahead(c, HomeOf(c, k), i) => s[p] # Empty
  <2>1. CASE \E j \in Used(c, s) : s[j].key = k
    <3>1. PICK j \in Used(c, s) : s[j].key = k
      BY <2>1
    <3>2. i = j /\ j \in 0 .. c - 1
      BY <3>1, ProbeMeets DEF Used
    <3> HIDE DEF i
    <3> QED
      BY <1>2, <3>1, <3>2 DEF Distinct, Reached
  <2>2. CASE \A j \in Used(c, s) : s[j].key # k
    <3> HIDE DEF i
    <3> QED
      BY <1>2, <2>2, ProbeMisses DEF i
  <2> QED
    BY <2>1, <2>2
<1> HIDE DEF entry, i
<1>4. /\ t \in Table(c)
      /\ t[i] = entry
      /\ \A p \in 0 .. c - 1 : p # i => t[p] = s[p]
  BY <1>1, <1>2, <1>3 DEF Table
<1> HIDE DEF t
<1>5. Used(c, t) = Used(c, s) \cup {i}
  BY <1>1, <1>3, <1>4 DEF Used
<1>6. Distinct(c, t)
  BY <1>1, <1>2, <1>3, <1>4, <1>5 DEF Distinct, Used
<1>7. Reached(c, t)
  BY <1>1, <1>2, <1>3, <1>4, <1>5 DEF Reached, Used
<1>8. Contents(c, t) = {r \in Contents(c, s) : r.key # k} \cup {entry}
  <2>1. \A p \in Used(c, s) : p # i => s[p].key # k /\ t[p] = s[p]
    BY <1>3, <1>4 DEF Used
  <2>2. i \in Used(c, s) => s[i].key = k
    BY <1>3 DEF Used
  <2> QED
    BY <1>4, <1>5, <2>1, <2>2 DEF Contents
<1> QED
  BY <1>4, <1>6, <1>7, <1>8 DEF Sound, Assigned, t, i, entry

\* f is built from its first value in steps, each of which stays in S.
Builds(f, last, S, first, step) ==
  /\ f \in [0 .. last -> S]
  /\ f[0] = first
  /\ \A n \in 1 .. last : f[n] = step[n][f[n - 1]]

\* There is always something that is.
LEMMA Iteration ==
  ASSUME NEW last \in Nat, NEW S, NEW first \in S, NEW step \in [1 .. last -> [S -> S]]
  PROVE  \E f : Builds(f, last, S, first, step)
<1> DEFINE missing == {m \in 0 .. last : ~ \E f : Builds(f, m, S, first, step)}
<1>1. SUFFICES ASSUME missing # {} PROVE FALSE
  <2>1. last \in 0 .. last
    OBVIOUS
  <2> QED
    BY <1>1, <2>1
<1>2. PICK m \in missing : \A n \in missing : m <= n
  <2>1. missing \subseteq Nat
    OBVIOUS
  <2> HIDE DEF missing
  <2> QED
    BY <1>1, <2>1, FirstStep
<1>3. m # 0
  <2>1. Builds([n \in 0 .. 0 |-> first], 0, S, first, step)
    BY DEF Builds
  <2> QED
    BY <2>1
<1>4. m \in 1 .. last /\ m - 1 \in 0 .. last /\ m - 1 \notin missing
  <2>1. m \in 0 .. last
    OBVIOUS
  <2>2. m \in 1 .. last /\ m - 1 \in 0 .. last /\ ~ (m <= m - 1)
    BY <1>3, <2>1
  <2> HIDE DEF missing
  <2> QED
    BY <1>2, <2>2
<1>5. PICK f : Builds(f, m - 1, S, first, step)
  BY <1>4
<1> DEFINE g == [n \in 0 .. m |-> IF n = m THEN step[m][f[m - 1]] ELSE f[n]]
<1>6. f[m - 1] \in S /\ step[m][f[m - 1]] \in S
  BY <1>4, <1>5 DEF Builds
<1>7. g \in [0 .. m -> S] /\ g[0] = first
  BY <1>4, <1>5, <1>6 DEF Builds
<1>8. ASSUME NEW n \in 1 .. m PROVE g[n] = step[n][g[n - 1]]
  BY <1>4, <1>5 DEF Builds
<1>9. Builds(g, m, S, first, step)
  BY <1>7, <1>8 DEF Builds
<1> QED
  BY <1>2, <1>9

\* Rehash's loop, value by value.
LEMMA RehashingSteps ==
  ASSUME NEW c \in Nat, NEW s \in Table(c), NEW d \in Nat
  PROVE  /\ Rehashing(s, d)[0] = NoSlots(d)
         /\ \A n \in 1 .. c :
              Rehashing(s, d)[n] =
                IF s[n - 1] = Empty THEN Rehashing(s, d)[n - 1]
                ELSE Assigned(Rehashing(s, d)[n - 1], s[n - 1].key, s[n - 1].value)
<1> DEFINE S == Table(d)
           step == [n \in 1 .. c |-> [new \in S |->
                      IF s[n - 1] = Empty THEN new
                      ELSE Assigned(new, s[n - 1].key, s[n - 1].value)]]
<1>1. NoSlots(d) \in S
  BY NoSlotsIsSound DEF Sound
<1>2. step \in [1 .. c -> [S -> S]]
  <2>1. ASSUME NEW n \in 1 .. c, s[n - 1] # Empty, NEW new \in S
        PROVE  Assigned(new, s[n - 1].key, s[n - 1].value) \in S
    <3>1. [key |-> s[n - 1].key, value |-> s[n - 1].value] \in Slot
      BY <2>1 DEF Table, Slot
    <3> QED
      BY <3>1 DEF Assigned, Table
  <2> QED
    BY <2>1
<1>3. PICK f : Builds(f, c, S, NoSlots(d), step)
  <2> HIDE DEF S, step
  <2> QED
    BY <1>1, <1>2, Iteration
<1> DEFINE Loop(g) == [n \in 0 .. c |->
                         IF n = 0 THEN NoSlots(d)
                         ELSE IF s[n - 1] = Empty THEN g[n - 1]
                         ELSE Assigned(g[n - 1], s[n - 1].key, s[n - 1].value)]
<1>4. f = Loop(f)
  <2>1. ASSUME NEW n \in 1 .. c
        PROVE  f[n] = IF s[n - 1] = Empty THEN f[n - 1]
                      ELSE Assigned(f[n - 1], s[n - 1].key, s[n - 1].value)
    <3>1. f[n - 1] \in S /\ f[n] = step[n][f[n - 1]]
      BY <1>3 DEF Builds
    <3> HIDE DEF S
    <3> QED
      BY <3>1
  <2> QED
    BY <1>3, <2>1 DEF Builds
<1>5. Capacity(s) = c
  BY CapacityOf
<1>6. Rehashing(s, d) = CHOOSE g : g = Loop(g)
  BY <1>5 DEF Rehashing
<1>7. Rehashing(s, d) = Loop(Rehashing(s, d))
  BY <1>4, <1>6
<1> QED
  BY <1>7

\* What is in the first n slots.
ContentsUpto(c, s, n) == {s[i] : i \in {j \in Used(c, s) : j < n}}

\* Inserting the old entries one after the other loses none, if there is room.
LEMMA RehashingIsSound ==
  ASSUME NEW c \in Nat, NEW s, Sound(c, s), BitsTyped,
         NEW d \in Nat \ {0}, Cardinality(Contents(c, s)) < d
  PROVE  \A n \in 0 .. c : /\ Sound(d, Rehashing(s, d)[n])
                           /\ Contents(d, Rehashing(s, d)[n]) = ContentsUpto(c, s, n)
<1> DEFINE new == Rehashing(s, d)
           Fine(n) == Sound(d, new[n]) /\ Contents(d, new[n]) = ContentsUpto(c, s, n)
           wrong == {n \in 0 .. c : ~ Fine(n)}
<1>1. s \in Table(c) /\ Distinct(c, s)
  BY DEF Sound
<1>2. /\ new[0] = NoSlots(d)
      /\ \A n \in 1 .. c :
           new[n] = IF s[n - 1] = Empty THEN new[n - 1]
                    ELSE Assigned(new[n - 1], s[n - 1].key, s[n - 1].value)
  BY <1>1, RehashingSteps
<1> HIDE DEF new
<1>3. SUFFICES ASSUME wrong # {} PROVE FALSE
  BY <1>3 DEF new
<1>4. PICK n \in wrong : \A m \in wrong : n <= m
  <2>1. wrong \subseteq Nat
    OBVIOUS
  <2> HIDE DEF wrong
  <2> QED
    BY <1>3, <2>1, FirstStep
<1>5. Fine(0)
  <2>1. ContentsUpto(c, s, 0) = {}
    BY DEF ContentsUpto, Used
  <2> QED
    BY <1>2, <2>1, NoSlotsIsSound
<1>6. n \in 1 .. c /\ n - 1 \in 0 .. c /\ n - 1 \in 0 .. c - 1 /\ Fine(n - 1)
  <2>1. n \in 0 .. c /\ n # 0
    BY <1>5
  <2>2. n \in 1 .. c /\ n - 1 \in 0 .. c /\ n - 1 \in 0 .. c - 1 /\ ~ (n <= n - 1)
    BY <2>1
  <2>3. n - 1 \notin wrong
    <3> HIDE DEF wrong
    <3> QED
      BY <1>4, <2>2
  <2> QED
    BY <2>2, <2>3
<1> DEFINE slot == s[n - 1]
<1>7. CASE slot = Empty
  <2>1. new[n] = new[n - 1]
    BY <1>2, <1>6, <1>7
  <2>2. ContentsUpto(c, s, n) = ContentsUpto(c, s, n - 1)
    BY <1>6, <1>7 DEF ContentsUpto, Used
  <2> QED
    BY <1>6, <2>1, <2>2
<1>8. CASE slot # Empty
  <2>1. /\ slot.key \in CacheKeys /\ slot.value \in Values
        /\ slot = [key |-> slot.key, value |-> slot.value]
    BY <1>1, <1>6, <1>8 DEF Table, Slot
  <2>2. new[n] = Assigned(new[n - 1], slot.key, slot.value)
    BY <1>2, <1>6, <1>8
  <2>3. \E gap \in 0 .. d - 1 : new[n - 1][gap] = Empty
    <3>1. ContentsUpto(c, s, n - 1) \subseteq Contents(c, s)
      BY DEF ContentsUpto, Contents
    <3>2. IsFiniteSet(Contents(c, s)) /\ Cardinality(Contents(c, s)) \in Nat
      BY EntriesAreCounted
    <3>3. /\ Cardinality(Contents(d, new[n - 1])) <= Cardinality(Contents(c, s))
          /\ Cardinality(Contents(d, new[n - 1])) \in Nat
      BY <1>6, <3>1, <3>2, FS_Subset, FS_CardinalityType
    <3>4. Cardinality(Contents(d, new[n - 1])) < d
      BY <3>2, <3>3
    <3> QED
      BY <1>6, <3>4, SlotToSpare
  <2>4. /\ Sound(d, new[n])
        /\ Contents(d, new[n]) = {r \in Contents(d, new[n - 1]) : r.key # slot.key}
                                   \cup {[key |-> slot.key, value |-> slot.value]}
    <3> HIDE DEF slot
    <3> QED
      BY <1>6, <2>1, <2>2, <2>3, AssignedIsSound
  <2>5. \A r \in ContentsUpto(c, s, n - 1) : r.key # slot.key
    BY <1>1, <1>6, <1>8 DEF ContentsUpto, Distinct, Used
  <2>6. ContentsUpto(c, s, n) = ContentsUpto(c, s, n - 1) \cup {slot}
    BY <1>6, <1>8 DEF ContentsUpto, Used
  <2> HIDE DEF slot
  <2> QED
    BY <1>6, <2>1, <2>4, <2>5, <2>6
<1>9. Fine(n)
  BY <1>7, <1>8
<1> QED
  BY <1>9

\* A table that grows or shrinks keeps its entries.
LEMMA RehashedIsSound ==
  ASSUME NEW c \in Nat, NEW s, Sound(c, s), BitsTyped,
         NEW d \in Nat \ {0}, Cardinality(Contents(c, s)) < d
  PROVE  /\ Sound(d, Rehashed(s, d))
         /\ Contents(d, Rehashed(s, d)) = Contents(c, s)
<1>1. Capacity(s) = c
  BY CapacityOf DEF Sound
<1>2. ContentsUpto(c, s, c) = Contents(c, s)
  BY DEF ContentsUpto, Contents, Used
<1>3. c \in 0 .. c
  OBVIOUS
<1> QED
  BY <1>1, <1>2, <1>3, RehashingIsSound DEF Rehashed

\* Going round the ring by way of p.
LEMMA ByWayOf ==
  ASSUME NEW c \in Nat \ {0}, NEW h \in 0 .. c - 1, NEW p \in 0 .. c - 1, NEW j \in 0 .. c - 1
  PROVE  /\ Ahead(c, h, p) < Ahead(c, h, j) <=> (p # j /\ Ahead(c, p, j) <= Ahead(c, h, j))
         /\ Ahead(c, p, j) <= Ahead(c, h, j) <=> Ahead(c, h, p) <= Ahead(c, h, j)
         /\ \A e \in 0 .. c - 1 :
              /\ Ahead(c, h, p) < Ahead(c, h, j)
              /\ Ahead(c, p, e) < Ahead(c, p, j)
              => Ahead(c, h, e) < Ahead(c, h, j)
BY DEF Ahead

\* Distances to two positions tell how far apart they are.
LEMMA Apart ==
  ASSUME NEW c \in Nat \ {0}, NEW i \in 0 .. c - 1, NEW p \in 0 .. c - 1, NEW q \in 0 .. c - 1
  PROVE  /\ Ahead(c, i, p) \in 0 .. c - 1
         /\ Ahead(c, i, p) = Ahead(c, i, q) <=> p = q
         /\ Ahead(c, i, p) = 0 <=> p = i
         /\ Ahead(c, p, q) =
              IF Ahead(c, i, p) <= Ahead(c, i, q) THEN Ahead(c, i, q) - Ahead(c, i, p)
              ELSE Ahead(c, i, q) - Ahead(c, i, p) + c
BY DEF Ahead

\* erase's Distance, in terms of the number of slots.
LEMMA DistanceIsAhead ==
  ASSUME NEW c \in Nat \ {0}, NEW s \in Table(c), NEW from \in 0 .. c - 1, NEW to \in 0 .. c - 1
  PROVE  Distance(s, from, to) = Ahead(c, from, to)
<1> DEFINE x == to + c - from
<1>1. x \in 0 .. 2 * c - 1
  OBVIOUS
<1>2. Distance(s, from, to) = x % c
  BY CapacityOf DEF Distance
<1>3. Ahead(c, from, to) = IF x < c THEN x ELSE x - c
  BY DEF Ahead
<1> HIDE DEF x
<1> QED
  BY <1>1, <1>2, <1>3, OnceRound

\* The run after slot i ends at the first unused slot.
LEMMA RunEnds ==
  ASSUME NEW c \in Nat \ {0}, NEW s \in Table(c), NEW i \in 0 .. c - 1, s[i] # Empty,
         NEW gap \in 0 .. c - 1, s[gap] = Empty
  PROVE  /\ RunLength(s, i) \in 0 .. c - 2
         /\ \E end \in 0 .. c - 1 :
              s[end] = Empty /\ Ahead(c, i, end) = RunLength(s, i) + 1
         /\ \A p \in 0 .. c - 1 : Ahead(c, i, p) \in 1 .. RunLength(s, i) => s[p] # Empty
<1> DEFINE D == {d \in 0 .. Capacity(s) - 1 : s[(i + d + 1) % Capacity(s)] = Empty}
           Place(d) == Onward(c, i, d + 1)
<1>1. ASSUME NEW d \in 0 .. c - 2
      PROVE  /\ (i + d + 1) % Capacity(s) = Place(d)
             /\ Place(d) \in 0 .. c - 1
             /\ Ahead(c, i, Place(d)) = d + 1
  <2> DEFINE x == i + d + 1
  <2>1. x \in 0 .. 2 * c - 1
    OBVIOUS
  <2>2. Place(d) = IF x < c THEN x ELSE x - c
    BY DEF Onward
  <2>3. Place(d) \in 0 .. c - 1 /\ Ahead(c, i, Place(d)) = d + 1
    BY DEF Onward, Ahead
  <2>4. Capacity(s) = c
    BY CapacityOf
  <2> HIDE DEF x
  <2>5. x % c = Place(d)
    BY <2>1, <2>2, OnceRound
  <2> QED
    BY <2>3, <2>4, <2>5 DEF x
<1>2. ASSUME NEW p \in 0 .. c - 1, p # i
      PROVE  /\ Ahead(c, i, p) - 1 \in 0 .. c - 2
             /\ Place(Ahead(c, i, p) - 1) = p
  BY <1>2 DEF Ahead, Onward
<1> HIDE DEF Place
<1>3. Capacity(s) = c
  BY CapacityOf
<1>4. gap # i
  OBVIOUS
<1>5. Ahead(c, i, gap) - 1 \in D
  <2> DEFINE d == Ahead(c, i, gap) - 1
  <2>1. d \in 0 .. c - 2 /\ Place(d) = gap
    BY <1>2, <1>4
  <2> HIDE DEF d
  <2>2. (i + d + 1) % Capacity(s) = gap
    BY <1>1, <2>1
  <2>3. d \in 0 .. Capacity(s) - 1
    BY <1>3, <2>1
  <2>4. d \in D
    BY <2>2, <2>3
  <2> QED
    BY <2>4 DEF d
<1>6. D \subseteq Nat /\ D # {}
  BY <1>3, <1>5
<1>7. PICK n \in D : \A m \in D : n <= m
  <2> HIDE DEF D
  <2> QED
    BY <1>6, FirstStep
<1>8. n \in 0 .. c - 2
  <2>1. Ahead(c, i, gap) - 1 \in 0 .. c - 2
    BY <1>2, <1>4
  <2>2. n <= Ahead(c, i, gap) - 1 /\ n \in Nat
    BY <1>5, <1>6, <1>7
  <2> QED
    BY <2>1, <2>2
<1>9. RunLength(s, i) = n
  <2>1. RunLength(s, i) = Min(D)
    BY DEF RunLength
  <2> HIDE DEF D
  <2>2. Min(D) \in D /\ \A m \in D : Min(D) <= m
    BY <1>7 DEF Min
  <2>3. Min(D) <= n /\ n <= Min(D) /\ n \in Nat /\ Min(D) \in Nat
    BY <1>6, <1>7, <2>2
  <2> QED
    BY <2>1, <2>3
<1>10. s[Place(n)] = Empty /\ Place(n) \in 0 .. c - 1 /\ Ahead(c, i, Place(n)) = n + 1
  BY <1>1, <1>3, <1>8
<1>11. ASSUME NEW p \in 0 .. c - 1, Ahead(c, i, p) \in 1 .. n
       PROVE  s[p] # Empty
  <2>1. p # i
    BY <1>11 DEF Ahead
  <2> DEFINE d == Ahead(c, i, p) - 1
  <2>2. d \in 0 .. c - 2 /\ Place(d) = p
    BY <1>2, <2>1
  <2>3. ~ (n <= d)
    BY <1>8, <1>11
  <2>4. d \notin D
    <3> HIDE DEF D, d
    <3> QED
      BY <1>7, <2>3
  <2> HIDE DEF d
  <2>5. (i + d + 1) % Capacity(s) = p
    BY <1>1, <2>2
  <2>6. d \in 0 .. Capacity(s) - 1
    BY <1>3, <2>2
  <2> QED
    BY <2>4, <2>5, <2>6
<1> QED
  BY <1>8, <1>9, <1>10, <1>11

\* erase's loop, value by value.
LEMMA PullingSteps ==
  ASSUME NEW c \in Nat \ {0}, NEW s \in Table(c), NEW i \in 0 .. c - 1,
         RunLength(s, i) \in 0 .. c - 2
  PROVE  /\ Pulling(s, i)[0] = [slots |-> s, hole |-> i]
         /\ \A n \in 1 .. RunLength(s, i) :
              Pulling(s, i)[n] = PulledBack(Pulling(s, i)[n - 1], Onward(c, i, n))
<1> DEFINE S == [slots : Table(c), hole : 0 .. c - 1]
           last == RunLength(s, i)
           step == [n \in 1 .. last |-> [t \in S |-> PulledBack(t, (i + n) % Capacity(s))]]
           first == [slots |-> s, hole |-> i]
<1>1. first \in S /\ last \in Nat
  OBVIOUS
<1>2. ASSUME NEW n \in 1 .. last
      PROVE  (i + n) % Capacity(s) = Onward(c, i, n) /\ Onward(c, i, n) \in 0 .. c - 1
  <2> DEFINE x == i + n
  <2>1. x \in 0 .. 2 * c - 1
    OBVIOUS
  <2>2. /\ Onward(c, i, n) = IF x < c THEN x ELSE x - c
        /\ Onward(c, i, n) \in 0 .. c - 1
    BY DEF Onward
  <2> HIDE DEF x
  <2>3. x % c = Onward(c, i, n)
    BY <2>1, <2>2, OnceRound
  <2> QED
    BY <2>2, <2>3, CapacityOf DEF x
<1>3. step \in [1 .. last -> [S -> S]]
  <2>1. ASSUME NEW n \in 1 .. last, NEW t \in S
        PROVE  PulledBack(t, (i + n) % Capacity(s)) \in S
    <3> DEFINE next == (i + n) % Capacity(s)
    <3>1. next \in 0 .. c - 1
      BY <1>2
    <3> HIDE DEF next
    <3>2. [t.slots EXCEPT ![t.hole] = t.slots[next]] \in Table(c)
      BY <3>1 DEF Table
    <3>3. PulledBack(t, next) \in S
      BY <3>1, <3>2 DEF PulledBack
    <3> QED
      BY <3>3 DEF next
  <2> HIDE DEF S, last
  <2> QED
    BY <2>1
<1>4. PICK f : Builds(f, last, S, first, step)
  <2> HIDE DEF S, step, first, last
  <2> QED
    BY <1>1, <1>3, Iteration
<1> DEFINE Loop(g) == [n \in 0 .. last |->
                         IF n = 0 THEN first
                         ELSE PulledBack(g[n - 1], (i + n) % Capacity(s))]
<1>5. f = Loop(f)
  <2>1. ASSUME NEW n \in 1 .. last
        PROVE  f[n] = PulledBack(f[n - 1], (i + n) % Capacity(s))
    <3>1. f[n - 1] \in S /\ f[n] = step[n][f[n - 1]]
      <4> HIDE DEF S, step, first
      <4> QED
        BY <1>1, <1>4 DEF Builds
    <3> HIDE DEF S
    <3> QED
      BY <3>1
  <2>2. f[0] = first /\ f \in [0 .. last -> S]
    BY <1>4 DEF Builds
  <2> HIDE DEF S, last, first
  <2> QED
    BY <2>1, <2>2
<1>6. Pulling(s, i) = CHOOSE g : g = Loop(g)
  BY DEF Pulling
<1>7. Pulling(s, i) = Loop(Pulling(s, i))
  BY <1>5, <1>6
<1> QED
  BY <1>1, <1>2, <1>7

(***************************************************************************)
(* erase's loop from slot i on, when n slots of the run of length last are *)
(* behind it.  The hole, whose slot is not cleared yet, is among those,    *)
(* and only entries still ahead may have it on the way from their home.    *)
(***************************************************************************)
PulledUpTo(c, s, i, last, n, u, hole) ==
  /\ u \in Table(c) /\ hole \in 0 .. c - 1
  /\ Ahead(c, i, hole) <= n
  /\ \A p \in 0 .. c - 1 : IF Ahead(c, i, p) <= n THEN u[p] # Empty ELSE u[p] = s[p]
  /\ {u[p] : p \in Used(c, u) \ {hole}} = {s[p] : p \in Used(c, s) \ {i}}
  /\ \A p, q \in Used(c, u) \ {hole} : u[p].key = u[q].key => p = q
  /\ \A j \in Used(c, u) \ {hole}, p \in 0 .. c - 1 :
       LET home == HomeOf(c, u[j].key)
       IN Ahead(c, home, p) < Ahead(c, home, j)
          => /\ u[p] # Empty
             /\ p = hole => Ahead(c, i, j) \in n + 1 .. last

\* What the steps need to know of the run that is gone through.
RunAfter(c, s, i, last, end) ==
  /\ c \in Nat \ {0} /\ Sound(c, s)
  /\ i \in 0 .. c - 1 /\ s[i] # Empty
  /\ last \in 0 .. c - 2
  /\ end \in 0 .. c - 1 /\ s[end] = Empty /\ Ahead(c, i, end) = last + 1
  /\ \A p \in 0 .. c - 1 : Ahead(c, i, p) \in 1 .. last => s[p] # Empty

\* Before the loop, the hole is the entry's own slot.
LEMMA PullingStarts ==
  ASSUME NEW c, NEW s, NEW i, NEW last, NEW end, RunAfter(c, s, i, last, end), BitsTyped
  PROVE  PulledUpTo(c, s, i, last, 0, s, i)
<1>2. s \in Table(c) /\ c \in Nat \ {0} /\ i \in 0 .. c - 1 /\ Ahead(c, i, i) = 0
  BY DEF RunAfter, Sound, Ahead
<1>3. \A p \in 0 .. c - 1 : IF Ahead(c, i, p) <= 0 THEN s[p] # Empty ELSE s[p] = s[p]
  <2>1. \A p \in 0 .. c - 1 : Ahead(c, i, p) \in 0 .. c - 1 /\ (Ahead(c, i, p) = 0 => p = i)
    BY <1>2, Apart
  <2> QED
    BY <2>1 DEF RunAfter
<1>4. ASSUME NEW j \in Used(c, s) \ {i}, NEW p \in 0 .. c - 1,
             Ahead(c, HomeOf(c, s[j].key), p) < Ahead(c, HomeOf(c, s[j].key), j)
      PROVE  /\ s[p] # Empty
             /\ p = i => Ahead(c, i, j) \in 1 .. last
  <2> DEFINE h == HomeOf(c, s[j].key)
  <2>1. h \in 0 .. c - 1
    BY <1>2, HomeIsThere DEF Table, Slot, Used
  <2>2. \A q \in 0 .. c - 1 : Ahead(c, h, q) < Ahead(c, h, j) => s[q] # Empty
    BY <1>4 DEF RunAfter, Sound, Reached
  <2>3. s[p] # Empty
    BY <1>4, <2>2
  <2>4. ASSUME p = i
        PROVE  Ahead(c, i, j) \in 1 .. last
    <3>1. j \in 0 .. c - 1 /\ j # i /\ s[j] # Empty
      BY DEF Used
    <3>2. end \in 0 .. c - 1 /\ s[end] = Empty /\ Ahead(c, i, end) = last + 1 /\ last \in 0 .. c - 2
      BY DEF RunAfter
    <3>3. Ahead(c, i, j) \in 1 .. c - 1 /\ Ahead(c, i, j) # last + 1
      <4>1. j # end
        BY <3>1, <3>2
      <4>2. Ahead(c, i, j) \in 0 .. c - 1 /\ Ahead(c, i, j) # 0 /\ Ahead(c, i, j) # Ahead(c, i, end)
        BY <1>2, <3>1, <3>2, <4>1, Apart
      <4> QED
        BY <3>2, <4>2
    <3>4. Ahead(c, h, i) < Ahead(c, h, j)
      BY <1>4, <2>4
    <3> HIDE DEF h
    <3>5. ~ (Ahead(c, i, end) < Ahead(c, i, j))
      BY <1>2, <2>1, <2>2, <3>1, <3>2, <3>4, ByWayOf
    <3> QED
      BY <3>2, <3>3, <3>5
  <2> QED
    BY <2>3, <2>4
<1>5. \A p, q \in Used(c, s) \ {i} : s[p].key = s[q].key => p = q
  BY DEF RunAfter, Sound, Distinct
<1> QED
  BY <1>2, <1>3, <1>4, <1>5 DEF PulledUpTo

\* The way to a place beyond the run, or back before the next slot, is past its end.
LEMMA PastTheEnd ==
  ASSUME NEW c \in Nat \ {0}, NEW i \in 0 .. c - 1, NEW last \in 0 .. c - 2, NEW end \in 0 .. c - 1,
         Ahead(c, i, end) = last + 1,
         NEW next \in 0 .. c - 1, Ahead(c, i, next) <= last,
         NEW j \in 0 .. c - 1, j # end,
         Ahead(c, i, j) > last \/ Ahead(c, i, j) < Ahead(c, i, next)
  PROVE  Ahead(c, next, end) < Ahead(c, next, j)
BY DEF Ahead

\* An entry that may not move has not the hole on its way.
LEMMA PulledNothing ==
  ASSUME NEW c, NEW s, NEW i, NEW last, NEW end, RunAfter(c, s, i, last, end), BitsTyped,
         NEW n \in 0 .. last - 1, NEW u, NEW hole,
         PulledUpTo(c, s, i, last, n, u, hole),
         NEW next \in 0 .. c - 1, Ahead(c, i, next) = n + 1,
         ~ MayMove(u, hole, next)
  PROVE  PulledUpTo(c, s, i, last, n + 1, u, hole)
<1> DEFINE h == HomeOf(c, u[next].key)
<1>1. /\ c \in Nat \ {0} /\ i \in 0 .. c - 1 /\ last \in 0 .. c - 2
      /\ \A p \in 0 .. c - 1 : Ahead(c, i, p) \in 1 .. last => s[p] # Empty
  BY DEF RunAfter
<1>2. /\ u \in Table(c) /\ hole \in 0 .. c - 1
      /\ Ahead(c, i, hole) <= n
      /\ \A p \in 0 .. c - 1 : IF Ahead(c, i, p) <= n THEN u[p] # Empty ELSE u[p] = s[p]
  BY DEF PulledUpTo
<1>3. u[next] # Empty /\ u[next].key \in CacheKeys
  <2>1. u[next] = s[next] /\ s[next] # Empty
    BY <1>1, <1>2
  <2> QED
    BY <1>2, <2>1 DEF Table, Slot
<1>4. h \in 0 .. c - 1
  BY <1>1, <1>3, HomeIsThere
<1>5. ~ (Ahead(c, h, hole) < Ahead(c, h, next))
  <2>1. Home(u, u[next].key) = h
    BY <1>1, <1>2, <1>3, ProbeOrder
  <2>2. ~ (Ahead(c, h, next) >= Ahead(c, hole, next))
    <3> HIDE DEF h
    <3> QED
      BY <1>1, <1>2, <1>4, <2>1, DistanceIsAhead DEF MayMove
  <2> HIDE DEF h
  <2> QED
    BY <1>1, <1>2, <1>4, <2>2 DEF Ahead
<1>6. \A p \in 0 .. c - 1 : IF Ahead(c, i, p) <= n + 1 THEN u[p] # Empty ELSE u[p] = s[p]
  <2>1. ASSUME NEW p \in 0 .. c - 1, Ahead(c, i, p) = n + 1
        PROVE  p = next
    BY <1>1, <2>1, Apart
  <2>2. \A p \in 0 .. c - 1 : Ahead(c, i, p) \in 0 .. c - 1
    BY <1>1, Apart
  <2> QED
    BY <1>2, <1>3, <2>1, <2>2
<1>7. ASSUME NEW j \in Used(c, u) \ {hole}, NEW p \in 0 .. c - 1,
             Ahead(c, HomeOf(c, u[j].key), p) < Ahead(c, HomeOf(c, u[j].key), j)
      PROVE  /\ u[p] # Empty
             /\ p = hole => Ahead(c, i, j) \in (n + 1) + 1 .. last
  <2>1. /\ u[p] # Empty
        /\ p = hole => Ahead(c, i, j) \in n + 1 .. last
    BY <1>7 DEF PulledUpTo
  <2>2. ASSUME p = hole
        PROVE  Ahead(c, i, j) # n + 1
    <3>1. j # next
      BY <1>5, <1>7, <2>2
    <3>2. j \in 0 .. c - 1
      BY DEF Used
    <3> QED
      BY <1>1, <3>1, <3>2, Apart
  <2> QED
    BY <2>1, <2>2
<1>8. Ahead(c, i, hole) <= n + 1
  <2>1. Ahead(c, i, hole) \in 0 .. c - 1
    BY <1>1, <1>2, Apart
  <2> QED
    BY <1>2, <2>1
<1>9. /\ {u[p] : p \in Used(c, u) \ {hole}} = {s[p] : p \in Used(c, s) \ {i}}
      /\ \A p, q \in Used(c, u) \ {hole} : u[p].key = u[q].key => p = q
  BY DEF PulledUpTo
<1> HIDE DEF h
<1> QED
  BY <1>2, <1>6, <1>7, <1>8, <1>9 DEF PulledUpTo

\* An entry that may move leaves the hole behind at its old place.
LEMMA PulledOne ==
  ASSUME NEW c, NEW s, NEW i, NEW last, NEW end, RunAfter(c, s, i, last, end), BitsTyped,
         NEW n \in 0 .. last - 1, NEW u, NEW hole,
         PulledUpTo(c, s, i, last, n, u, hole),
         NEW next \in 0 .. c - 1, Ahead(c, i, next) = n + 1,
         MayMove(u, hole, next)
  PROVE  PulledUpTo(c, s, i, last, n + 1, [u EXCEPT ![hole] = u[next]], next)
<1> DEFINE h == HomeOf(c, u[next].key)
           w == [u EXCEPT ![hole] = u[next]]
<1>1. /\ c \in Nat \ {0} /\ i \in 0 .. c - 1 /\ last \in 0 .. c - 2
      /\ end \in 0 .. c - 1 /\ s[end] = Empty /\ Ahead(c, i, end) = last + 1
      /\ \A p \in 0 .. c - 1 : Ahead(c, i, p) \in 1 .. last => s[p] # Empty
  BY DEF RunAfter
<1>2. /\ u \in Table(c) /\ hole \in 0 .. c - 1
      /\ Ahead(c, i, hole) <= n
      /\ \A p \in 0 .. c - 1 : IF Ahead(c, i, p) <= n THEN u[p] # Empty ELSE u[p] = s[p]
  BY DEF PulledUpTo
<1>3. u[next] # Empty /\ u[next].key \in CacheKeys
  <2>1. u[next] = s[next] /\ s[next] # Empty
    BY <1>1, <1>2
  <2> QED
    BY <1>2, <2>1 DEF Table, Slot
<1>4. h \in 0 .. c - 1
  BY <1>1, <1>3, HomeIsThere
<1>5. hole # next
  <2> QED
    BY <1>2
<1>6. u[hole] # Empty /\ u[end] = Empty
  <2> QED
    BY <1>1, <1>2
<1>7. /\ w \in Table(c) /\ w[hole] = u[next]
      /\ \A p \in 0 .. c - 1 : p # hole => w[p] = u[p]
  BY <1>2 DEF Table
<1> HIDE DEF w
<1>8. Used(c, w) = Used(c, u)
  <2> QED
    BY <1>2, <1>3, <1>6, <1>7 DEF Used
\* Where it goes, it is as reachable as it was.
<1>9. Ahead(c, h, hole) < Ahead(c, h, next)
  <2>1. Home(u, u[next].key) = h
    BY <1>1, <1>2, <1>3, ProbeOrder
  <2>2. Ahead(c, h, next) >= Ahead(c, hole, next)
    <3> HIDE DEF h
    <3> QED
      BY <1>1, <1>2, <1>4, <2>1, DistanceIsAhead DEF MayMove
  <2> HIDE DEF h
  <2> QED
    BY <1>1, <1>2, <1>4, <1>5, <2>2 DEF Ahead
<1>10. \A p \in 0 .. c - 1 : IF Ahead(c, i, p) <= n + 1 THEN w[p] # Empty ELSE w[p] = s[p]
  <2>1. ASSUME NEW p \in 0 .. c - 1, Ahead(c, i, p) = n + 1
        PROVE  p = next
    BY <1>1, <2>1, Apart
  <2>2. \A p \in 0 .. c - 1 : Ahead(c, i, p) \in 0 .. c - 1
    BY <1>1, Apart
  <2> QED
    BY <1>2, <1>3, <1>7, <2>1, <2>2
<1>11. \A j \in Used(c, u) \ {hole}, p \in 0 .. c - 1 :
         Ahead(c, HomeOf(c, u[j].key), p) < Ahead(c, HomeOf(c, u[j].key), j)
         => /\ u[p] # Empty
            /\ p = hole => Ahead(c, i, j) \in n + 1 .. last
  BY DEF PulledUpTo
<1>12. next \in Used(c, u) \ {hole}
  BY <1>3, <1>5 DEF Used
<1>13. ASSUME NEW j \in Used(c, w) \ {next}, NEW p \in 0 .. c - 1,
              Ahead(c, HomeOf(c, w[j].key), p) < Ahead(c, HomeOf(c, w[j].key), j)
       PROVE  /\ w[p] # Empty
              /\ p = next => Ahead(c, i, j) \in (n + 1) + 1 .. last
  <2>1. CASE j = hole
    <3>1. w[j].key = u[next].key
      BY <1>7, <2>1
    <3>2. Ahead(c, h, p) < Ahead(c, h, hole)
      BY <1>13, <2>1, <3>1
    <3>3. Ahead(c, h, p) < Ahead(c, h, next)
      <4> HIDE DEF h
      <4> QED
        BY <1>1, <1>2, <1>4, <1>9, <3>2 DEF Ahead
    <3>4. u[p] # Empty
      BY <1>11, <1>12, <3>3
    <3>5. w[p] # Empty
      BY <1>3, <1>7, <3>4
    <3>6. p # next
      <4> HIDE DEF h
      <4> QED
        BY <1>1, <1>2, <1>4, <1>9, <3>2 DEF Ahead
    <3> QED
      BY <3>5, <3>6
  <2>2. CASE j # hole
    <3> DEFINE k == w[j].key
               home == HomeOf(c, k)
    <3>1. j \in Used(c, u) \ {hole} /\ w[j] = u[j] /\ j \in 0 .. c - 1 /\ j # next /\ w[j] # Empty
      BY <1>7, <1>8, <2>2 DEF Used
    <3>2. \A q \in 0 .. c - 1 : Ahead(c, home, q) < Ahead(c, home, j) => u[q] # Empty
      BY <1>11, <3>1
    <3>3. w[p] # Empty
      BY <1>3, <1>7, <1>13, <3>2
    <3>4. home \in 0 .. c - 1
      BY <1>1, <1>7, <3>1, HomeIsThere DEF Table, Slot
    <3>5. ASSUME p = next
          PROVE  Ahead(c, i, j) \in (n + 1) + 1 .. last
      <4>1. Ahead(c, home, next) < Ahead(c, home, j)
        BY <1>13, <3>5
      <4>2. ~ (Ahead(c, home, end) < Ahead(c, home, j))
        BY <1>1, <1>6, <3>2
      <4>3. j # end
        BY <1>6, <3>1
      <4> HIDE DEF home
      <4>4. ~ (Ahead(c, next, end) < Ahead(c, next, j))
        BY <1>1, <3>1, <3>4, <4>1, <4>2, ByWayOf
      <4>5. ~ (Ahead(c, i, j) > last \/ Ahead(c, i, j) < Ahead(c, i, next))
        <5>1. Ahead(c, i, next) <= last
          BY <1>1
        <5> QED
          BY <1>1, <3>1, <4>3, <4>4, <5>1, PastTheEnd
      <4>6. Ahead(c, i, j) \in 0 .. c - 1 /\ Ahead(c, i, j) # Ahead(c, i, next)
        BY <1>1, <3>1, Apart
      <4> QED
        BY <1>1, <4>5, <4>6
    <3> QED
      BY <3>3, <3>5
  <2> QED
    BY <2>1, <2>2
<1>14. {w[p] : p \in Used(c, w) \ {next}} = {u[p] : p \in Used(c, u) \ {hole}}
  <2>1. hole \in Used(c, w) \ {next}
    BY <1>2, <1>5, <1>6, <1>8 DEF Used
  <2>2. \A p \in Used(c, u) : p # hole => w[p] = u[p]
    BY <1>7 DEF Used
  <2> QED
    BY <1>7, <1>8, <1>12, <2>1, <2>2
<1>15. \A p, q \in Used(c, w) \ {next} : w[p].key = w[q].key => p = q
  <2>1. \A p, q \in Used(c, u) \ {hole} : u[p].key = u[q].key => p = q
    BY DEF PulledUpTo
  <2>2. \A p \in Used(c, u) : p # hole => w[p] = u[p]
    BY <1>7 DEF Used
  <2> QED
    BY <1>7, <1>8, <1>12, <2>1, <2>2
<1>16. {u[p] : p \in Used(c, u) \ {hole}} = {s[p] : p \in Used(c, s) \ {i}}
  BY DEF PulledUpTo
<1>17. PulledUpTo(c, s, i, last, n + 1, w, next)
  <2>1. Ahead(c, i, next) <= n + 1
    OBVIOUS
  <2> HIDE DEF h
  <2> QED
    BY <1>7, <1>10, <1>13, <1>14, <1>15, <1>16, <2>1 DEF PulledUpTo
<1> QED
  BY <1>17 DEF w

\* So the loop goes through the whole run.
LEMMA PullingGoesOn ==
  ASSUME NEW c, NEW s, NEW i, NEW end, RunAfter(c, s, i, RunLength(s, i), end), BitsTyped
  PROVE  \A n \in 0 .. RunLength(s, i) :
           PulledUpTo(c, s, i, RunLength(s, i), n, Pulling(s, i)[n].slots, Pulling(s, i)[n].hole)
<1> DEFINE last == RunLength(s, i)
           t == Pulling(s, i)
           Fine(n) == PulledUpTo(c, s, i, last, n, t[n].slots, t[n].hole)
           wrong == {n \in 0 .. last : ~ Fine(n)}
<1>1. /\ c \in Nat \ {0} /\ s \in Table(c) /\ i \in 0 .. c - 1 /\ last \in 0 .. c - 2
  BY DEF RunAfter, Sound
<1>2. /\ t[0] = [slots |-> s, hole |-> i]
      /\ \A n \in 1 .. last : t[n] = PulledBack(t[n - 1], Onward(c, i, n))
  BY <1>1, PullingSteps
<1> HIDE DEF t, last
<1>3. SUFFICES ASSUME wrong # {} PROVE FALSE
  BY <1>3 DEF t, last
<1>4. PICK n \in wrong : \A m \in wrong : n <= m
  <2>1. wrong \subseteq Nat
    BY <1>1
  <2> HIDE DEF wrong
  <2> QED
    BY <1>3, <2>1, FirstStep
<1>5. Fine(0)
  BY <1>2, PullingStarts DEF last
<1>6. n \in 1 .. last /\ n - 1 \in 0 .. last - 1 /\ Fine(n - 1)
  <2>1. n \in 0 .. last /\ n # 0
    BY <1>5
  <2>2. n \in 1 .. last /\ n - 1 \in 0 .. last - 1 /\ n - 1 \in 0 .. last /\ ~ (n <= n - 1)
    BY <1>1, <2>1
  <2>3. n - 1 \notin wrong
    <3> HIDE DEF wrong
    <3> QED
      BY <1>4, <2>2
  <2> QED
    BY <2>2, <2>3
<1> DEFINE next == Onward(c, i, n)
           u == t[n - 1].slots
           hole == t[n - 1].hole
<1>7. next \in 0 .. c - 1 /\ Ahead(c, i, next) = (n - 1) + 1
  BY <1>1, <1>6 DEF Onward, Ahead
<1>8. t[n] = PulledBack(t[n - 1], next)
  BY <1>2, <1>6
<1>9. (n - 1) + 1 = n
  BY <1>6
<1>10. PulledUpTo(c, s, i, last, n - 1, u, hole)
  BY <1>6
<1>11. RunAfter(c, s, i, last, end)
  BY DEF last
<1>12. CASE MayMove(u, hole, next)
  <2>1. t[n] = [slots |-> [u EXCEPT ![hole] = u[next]], hole |-> next]
    BY <1>8, <1>12 DEF PulledBack
  <2> HIDE DEF u, hole, next
  <2>2. PulledUpTo(c, s, i, last, (n - 1) + 1, [u EXCEPT ![hole] = u[next]], next)
    BY <1>6, <1>7, <1>10, <1>11, <1>12, PulledOne
  <2> QED
    BY <1>9, <2>1, <2>2
<1>13. CASE ~ MayMove(u, hole, next)
  <2>1. t[n] = t[n - 1]
    BY <1>8, <1>13 DEF PulledBack
  <2> HIDE DEF u, hole, next
  <2>2. PulledUpTo(c, s, i, last, (n - 1) + 1, u, hole)
    BY <1>6, <1>7, <1>10, <1>11, <1>13, PulledNothing
  <2> QED
    BY <1>9, <2>1, <2>2 DEF u, hole
<1> QED
  BY <1>12, <1>13

\* Erasing an entry leaves every other one where it is found.
LEMMA WithoutIsSound ==
  ASSUME NEW c \in Nat \ {0}, NEW s, Sound(c, s), BitsTyped, NEW i \in Used(c, s),
         NEW gap \in 0 .. c - 1, s[gap] = Empty
  PROVE  /\ Sound(c, Without(s, i))
         /\ Contents(c, Without(s, i)) = Contents(c, s) \ {s[i]}
<1> DEFINE last == RunLength(s, i)
           u == Pulling(s, i)[last].slots
           hole == Pulling(s, i)[last].hole
           w == [u EXCEPT ![hole] = Empty]
<1>1. s \in Table(c) /\ i \in 0 .. c - 1 /\ s[i] # Empty
  BY DEF Sound, Used
<1>2. /\ last \in 0 .. c - 2
      /\ \A p \in 0 .. c - 1 : Ahead(c, i, p) \in 1 .. last => s[p] # Empty
  BY <1>1, RunEnds
<1>3. PICK end \in 0 .. c - 1 : s[end] = Empty /\ Ahead(c, i, end) = last + 1
  BY <1>1, RunEnds
<1>4. RunAfter(c, s, i, last, end)
  <2> HIDE DEF last
  <2> QED
    BY <1>1, <1>2, <1>3 DEF RunAfter
<1>5. PulledUpTo(c, s, i, last, last, u, hole)
  BY <1>2, <1>4, PullingGoesOn
<1>6. Without(s, i) = w
  BY DEF Without
<1> HIDE DEF last, u, hole
<1>7. u \in Table(c) /\ hole \in 0 .. c - 1
  BY <1>5 DEF PulledUpTo
<1>8. /\ w \in Table(c) /\ w[hole] = Empty
      /\ \A p \in 0 .. c - 1 : p # hole => w[p] = u[p]
  BY <1>7 DEF Table, Slot
<1> HIDE DEF w
<1>9. Used(c, w) = Used(c, u) \ {hole}
  BY <1>8 DEF Used
<1>10. \A p \in Used(c, w) : w[p] = u[p]
  BY <1>8, <1>9 DEF Used
<1>11. Distinct(c, w)
  BY <1>5, <1>9, <1>10 DEF Distinct, PulledUpTo
<1>12. Reached(c, w)
  <2> SUFFICES ASSUME NEW j \in Used(c, w), NEW p \in 0 .. c - 1,
                      Ahead(c, HomeOf(c, w[j].key), p) < Ahead(c, HomeOf(c, w[j].key), j)
               PROVE  w[p] # Empty
    BY DEF Reached
  <2>1. w[j] = u[j] /\ j \in Used(c, u) \ {hole}
    BY <1>9, <1>10
  <2>2. u[p] # Empty /\ (p = hole => Ahead(c, i, j) \in last + 1 .. last)
    BY <1>5, <2>1 DEF PulledUpTo
  <2>3. p # hole
    BY <1>2, <2>2
  <2> QED
    BY <1>8, <2>2, <2>3
<1>13. Contents(c, w) = Contents(c, s) \ {s[i]}
  <2>1. {w[p] : p \in Used(c, w)} = {u[p] : p \in Used(c, u) \ {hole}}
    BY <1>9, <1>10
  <2>2. {u[p] : p \in Used(c, u) \ {hole}} = {s[p] : p \in Used(c, s) \ {i}}
    BY <1>5 DEF PulledUpTo
  <2>3. {s[p] : p \in Used(c, s) \ {i}} = Contents(c, s) \ {s[i]}
    BY DEF Contents, Sound, Distinct
  <2> QED
    BY <2>1, <2>2, <2>3 DEF Contents
<1> QED
  BY <1>6, <1>8, <1>11, <1>12, <1>13 DEF Sound

(***************************************************************************)
(* The inductive invariant: the table is sound, entries counts what is in  *)
(* it, and at least half of its slots are unused.                          *)
(***************************************************************************)
Entries == Contents(Capacity(slots), slots)

TableInv ==
  /\ BitsTyped
  /\ Capacity(slots) \in Nat /\ Sound(Capacity(slots), slots)
  /\ entries = Cardinality(Entries)
  /\ 2 * entries <= Capacity(slots)

\* The answer to every key is the value of its entry, if there is one.
AnswersForEntries(table) ==
  \A k \in CacheKeys :
    /\ \A r \in Entries : r.key = k => table[k] = r.value
    /\ (\A r \in Entries : r.key # k) => table[k] = NoValue

\* Whether a table with a slot to spare holds a key, and where.
LEMMA HoldsIsThere ==
  ASSUME NEW c \in Nat \ {0}, NEW s, Sound(c, s), BitsTyped, NEW k \in CacheKeys,
         NEW gap \in 0 .. c - 1, s[gap] = Empty
  PROVE  /\ Holds(s, k) <=> \E r \in Contents(c, s) : r.key = k
         /\ Holds(s, k) => Probe(s, k) \in Used(c, s) /\ s[Probe(s, k)].key = k
         /\ \A r \in Contents(c, s) : r.key = k => s[Probe(s, k)] = r
<1>1. s \in Table(c)
  BY DEF Sound
<1>2. CASE \E r \in Contents(c, s) : r.key = k
  <2>1. PICK i \in Used(c, s) : s[i].key = k
    BY <1>2 DEF Contents
  <2>2. Probe(s, k) = i
    BY <2>1, ProbeMeets
  <2>3. s[i] # Empty
    BY DEF Used
  <2>4. \A r \in Contents(c, s) : r.key = k => r = s[i]
    BY <2>1 DEF Contents, Sound, Distinct
  <2> QED
    BY <1>2, <2>1, <2>2, <2>3, <2>4 DEF Holds
<1>3. CASE \A r \in Contents(c, s) : r.key # k
  <2>1. \A i \in Used(c, s) : s[i].key # k
    BY <1>3 DEF Contents
  <2>2. s[Probe(s, k)] = Empty
    BY <1>1, <2>1, ProbeMisses
  <2> QED
    BY <1>3, <2>2 DEF Holds
<1> QED
  BY <1>2, <1>3

\* A table that holds something has a slot to spare.
LEMMA TableHasAGap ==
  ASSUME TableInv
  PROVE  /\ entries \in Nat /\ IsFiniteSet(Entries)
         /\ entries = 0 <=> Entries = {}
         /\ entries # 0 => /\ Capacity(slots) \in Nat \ {0}
                           /\ \E gap \in 0 .. Capacity(slots) - 1 : slots[gap] = Empty
<1> DEFINE c == Capacity(slots)
<1>1. c \in Nat /\ Sound(c, slots) /\ entries = Cardinality(Contents(c, slots)) /\ 2 * entries <= c
  BY DEF TableInv, Entries
<1> HIDE DEF c
<1>2. IsFiniteSet(Contents(c, slots)) /\ entries \in Nat
  BY <1>1, EntriesAreCounted
<1>3. entries = 0 <=> Contents(c, slots) = {}
  BY <1>1, <1>2, FS_EmptySet
<1>4. ASSUME entries # 0
      PROVE  c \in Nat \ {0} /\ \E gap \in 0 .. c - 1 : slots[gap] = Empty
  <2>1. entries < c
    BY <1>1, <1>2, <1>4
  <2> QED
    BY <1>1, <1>2, <2>1, SlotToSpare
<1> QED
  BY <1>2, <1>3, <1>4 DEF c, Entries

\* find answers what the table holds.
LEMMA FindAnswers == TableInv => AnswersForEntries([k \in CacheKeys |-> Find(k)])
<1> SUFFICES ASSUME TableInv, NEW k \in CacheKeys
             PROVE  /\ \A r \in Entries : r.key = k => Find(k) = r.value
                    /\ (\A r \in Entries : r.key # k) => Find(k) = NoValue
  BY DEF AnswersForEntries
<1>1. CASE entries = 0
  BY <1>1, TableHasAGap DEF Find
<1>2. CASE entries # 0
  <2> DEFINE c == Capacity(slots)
  <2>1. c \in Nat \ {0} /\ Sound(c, slots) /\ BitsTyped
    BY <1>2, TableHasAGap DEF TableInv
  <2>2. PICK gap \in 0 .. c - 1 : slots[gap] = Empty
    BY <1>2, TableHasAGap
  <2>3. Entries = Contents(c, slots)
    BY DEF Entries
  <2> HIDE DEF c
  <2>4. /\ Holds(slots, k) <=> \E r \in Entries : r.key = k
        /\ \A r \in Entries : r.key = k => slots[Probe(slots, k)] = r
    BY <2>1, <2>2, <2>3, HoldsIsThere
  <2> QED
    BY <1>2, <2>4 DEF Find
<1> QED
  BY <1>1, <1>2

\* Initially and after clear there is nothing.
LEMMA NothingIsSound ==
  /\ Capacity(NoSlots(0)) = 0
  /\ Sound(0, NoSlots(0)) /\ Contents(0, NoSlots(0)) = {} /\ Cardinality({}) = 0
<1>1. Sound(0, NoSlots(0)) /\ Contents(0, NoSlots(0)) = {}
  BY NoSlotsIsSound
<1> QED
  BY <1>1, CapacityOf, FS_EmptySet DEF Sound

\* Initially the table is sound, and empty.
LEMMA TableInitially == TableInit => TableInv /\ Entries = {}
<1> SUFFICES ASSUME TableInit PROVE TableInv /\ Entries = {}
  OBVIOUS
<1>1. slots = NoSlots(0) /\ entries = 0 /\ BitsTyped
  BY DEF TableInit, BitsTyped
<1> QED
  BY <1>1, NothingIsSound DEF TableInv, Entries, BitsTyped

\* What is true of the next slots for these bits is true of them then.
LEMMA SoundNext ==
  ASSUME BitsTyped, bits' = bits, NEW c \in Nat, Sound(c, slots'),
         entries' = Cardinality(Contents(c, slots')), 2 * entries' <= c
  PROVE  TableInv' /\ Entries' = Contents(c, slots')
<1>1. Capacity(slots') = c
  BY CapacityOf DEF Sound
<1>2. Capacity(slots)' = c
  BY <1>1 DEF Capacity
<1>3. Sound(Capacity(slots), slots)'
  BY <1>2 DEF Sound, Reached, Distinct, Used, HomeOf
<1>4. Entries' = Contents(c, slots')
  BY <1>2 DEF Entries, Contents, Used
<1> QED
  BY <1>2, <1>3, <1>4 DEF TableInv, BitsTyped

\* The doubled capacities stay ahead of twice the entries they are for.
LEMMA DoubledGrows ==
  ASSUME entries \in Nat
  PROVE  \A n \in 0 .. entries : Doubled[n] \in Nat /\ Doubled[n] >= 2 * (n + 1)
<1> DEFINE step == [n \in 1 .. entries |-> [x \in Nat |-> x * 2]]
           Loop(g) == [n \in 0 .. entries |-> IF n = 0 THEN InitialSlots ELSE g[n - 1] * 2]
           d == Doubled
           wrong == {n \in 0 .. entries : ~ (d[n] \in Nat /\ d[n] >= 2 * (n + 1))}
<1>1. InitialSlots \in Nat /\ InitialSlots >= 2
  BY SlotsAssumption
<1>2. step \in [1 .. entries -> [Nat -> Nat]]
  OBVIOUS
<1>3. PICK f : Builds(f, entries, Nat, InitialSlots, step)
  <2> HIDE DEF step
  <2> QED
    BY <1>1, <1>2, Iteration
<1>4. f = Loop(f)
  <2>1. f \in [0 .. entries -> Nat] /\ f[0] = InitialSlots
    BY <1>3 DEF Builds
  <2>2. ASSUME NEW n \in 1 .. entries PROVE f[n] = f[n - 1] * 2
    <3>1. f[n] = step[n][f[n - 1]] /\ f[n - 1] \in Nat
      BY <1>3, <2>1 DEF Builds
    <3> QED
      BY <3>1
  <2> QED
    BY <2>1, <2>2
<1>5. Doubled = CHOOSE g : g = Loop(g)
  BY DEF Doubled
<1>6. Doubled = Loop(Doubled)
  BY <1>4, <1>5
<1>7. d[0] = InitialSlots /\ \A n \in 1 .. entries : d[n] = d[n - 1] * 2
  BY <1>6
<1> HIDE DEF d
<1>8. SUFFICES ASSUME wrong # {} PROVE FALSE
  BY <1>8 DEF d
<1>9. PICK n \in wrong : \A m \in wrong : n <= m
  <2>1. wrong \subseteq Nat
    OBVIOUS
  <2> HIDE DEF wrong
  <2> QED
    BY <1>8, <2>1, FirstStep
<1>10. n # 0
  BY <1>1, <1>7
<1>11. n \in 1 .. entries /\ n - 1 \in 0 .. entries /\ n - 1 \notin wrong
  <2>1. n \in 1 .. entries /\ n - 1 \in 0 .. entries /\ ~ (n <= n - 1)
    BY <1>10
  <2> HIDE DEF wrong
  <2> QED
    BY <1>9, <2>1
<1>12. d[n - 1] \in Nat /\ d[n - 1] >= 2 * n
  BY <1>11
<1>13. d[n] = d[n - 1] * 2
  BY <1>7, <1>11
<1>14. d[n] \in Nat /\ d[n] >= 2 * (n + 1)
  BY <1>11, <1>12, <1>13
<1> QED
  BY <1>14

\* So one of them fits.
LEMMA FittingFits ==
  ASSUME entries \in Nat
  PROVE  Fitting \in Nat /\ Fitting >= 2 * entries
<1> DEFINE D == {n \in {Doubled[e] : e \in 0 .. entries} : n >= entries * 2}
<1>1. D \subseteq Nat
  BY DoubledGrows
<1>2. Doubled[entries] \in D
  <2>1. Doubled[entries] \in Nat /\ Doubled[entries] >= 2 * (entries + 1)
    BY DoubledGrows
  <2> QED
    BY <2>1
<1>3. \A n \in D : n >= 2 * entries
  BY <1>1
<1>4. Fitting = Min(D)
  BY DEF Fitting
<1> HIDE DEF D
<1>5. PICK n \in D : \A m \in D : n <= m
  BY <1>1, <1>2, FirstStep
<1>6. Min(D) \in D
  BY <1>5 DEF Min
<1> QED
  BY <1>1, <1>3, <1>4, <1>6

\* Before an insertion there is room for one more entry in half of the slots.
LEMMA GrownIsSound ==
  ASSUME TableInv
  PROVE  \E d \in Nat \ {0} :
           /\ Sound(d, Grown)
           /\ Contents(d, Grown) = Entries
           /\ 2 * (entries + 1) <= d
<1> DEFINE c == Capacity(slots)
           larger == IF c = 0 THEN InitialSlots ELSE c * 2
<1>1. /\ c \in Nat /\ Sound(c, slots) /\ BitsTyped
      /\ Entries = Contents(c, slots)
      /\ entries = Cardinality(Contents(c, slots)) /\ entries \in Nat /\ 2 * entries <= c
  BY TableHasAGap DEF TableInv, Entries
<1>2. CASE MustGrow
  <2>1. Grown = Rehashed(slots, larger)
    BY <1>2 DEF Grown
  <2>2. larger \in Nat \ {0} /\ 2 * (entries + 1) <= larger
    <3> HIDE DEF c
    <3> QED
      BY <1>1, SlotsAssumption
  <2> HIDE DEF c, larger
  <2>3. Cardinality(Contents(c, slots)) < larger
    BY <1>1, <2>2
  <2> QED
    BY <1>1, <2>1, <2>2, <2>3, RehashedIsSound
<1>3. CASE ~ MustGrow
  <2>1. Grown = slots
    BY <1>3 DEF Grown
  <2>2. 2 * (entries + 1) <= c /\ c \in Nat \ {0}
    BY <1>1, <1>3 DEF MustGrow
  <2> QED
    BY <1>1, <2>1, <2>2
<1> QED
  BY <1>2, <1>3

\* insert_or_assign replaces or adds one entry, whether the table grows or not.
LEMMA InsertOrAssignStep ==
  ASSUME TableInv, NEW k \in CacheKeys, NEW v \in Values, InsertOrAssign(k, v)
  PROVE  /\ TableInv'
         /\ Entries' = {r \in Entries : r.key # k} \cup {[key |-> k, value |-> v]}
<1> DEFINE rest == {r \in Entries : r.key # k}
           entry == [key |-> k, value |-> v]
<1>1. PICK d \in Nat \ {0} : /\ Sound(d, Grown)
                             /\ Contents(d, Grown) = Entries
                             /\ 2 * (entries + 1) <= d
  BY GrownIsSound
<1>2. BitsTyped /\ bits' = bits /\ entries = Cardinality(Entries)
  BY DEF TableInv, InsertOrAssign
<1>3. entries \in Nat /\ IsFiniteSet(Entries)
  BY TableHasAGap
<1>4. PICK gap \in 0 .. d - 1 : Grown[gap] = Empty
  BY <1>1, <1>2, <1>3, SlotToSpare
<1>5. /\ Sound(d, slots')
      /\ Contents(d, slots') = rest \cup {entry}
  BY <1>1, <1>2, <1>4, AssignedIsSound DEF InsertOrAssign
<1>6. /\ Holds(Grown, k) <=> \E r \in Entries : r.key = k
      /\ \A r \in Entries : r.key = k => Grown[Probe(Grown, k)] = r
  BY <1>1, <1>2, <1>4, HoldsIsThere
<1>7. /\ IsFiniteSet(rest)
      /\ Cardinality(rest \cup {entry}) = Cardinality(rest) + 1
  <2>1. IsFiniteSet(rest)
    BY <1>3, FS_Subset
  <2>2. entry \notin rest
    OBVIOUS
  <2> HIDE DEF rest, entry
  <2> QED
    BY <2>1, <2>2, FS_AddElement
<1>8. /\ entries' = Cardinality(rest \cup {entry})
      /\ entries' <= entries + 1
  <2>1. CASE Holds(Grown, k)
    <3>1. PICK r \in Entries : r.key = k
      BY <1>6, <2>1
    <3>2. rest = Entries \ {r}
      BY <1>6, <3>1
    <3>3. Cardinality(rest) = entries - 1
      BY <1>2, <1>3, <3>1, <3>2, FS_RemoveElement
    <3> QED
      BY <1>3, <1>7, <2>1, <3>3 DEF InsertOrAssign
  <2>2. CASE ~ Holds(Grown, k)
    <3>1. rest = Entries
      BY <1>6, <2>2
    <3> QED
      BY <1>2, <1>3, <1>7, <2>2, <3>1 DEF InsertOrAssign
  <2> QED
    BY <2>1, <2>2
<1>9. entries' \in Nat
  BY <1>7, <1>8, <1>3, FS_AddElement, FS_CardinalityType
<1>10. 2 * entries' <= d
  BY <1>1, <1>3, <1>8, <1>9
<1> HIDE DEF rest, entry
<1>11. TableInv' /\ Entries' = Contents(d, slots')
  BY <1>1, <1>2, <1>5, <1>8, <1>10, SoundNext
<1> QED
  BY <1>5, <1>11 DEF rest, entry

\* erase takes away one entry.
LEMMA EraseStep ==
  ASSUME TableInv, NEW k \in CacheKeys, Erase(k)
  PROVE  /\ TableInv'
         /\ Entries' = {r \in Entries : r.key # k}
<1> DEFINE c == Capacity(slots)
           i == Probe(slots, k)
<1>1. entries # 0 /\ Holds(slots, k)
  BY DEF Erase, Find
<1>2. /\ c \in Nat \ {0} /\ Sound(c, slots) /\ BitsTyped
      /\ Entries = Contents(c, slots)
      /\ entries = Cardinality(Entries) /\ entries \in Nat /\ IsFiniteSet(Entries)
      /\ 2 * entries <= c
  BY <1>1, TableHasAGap DEF TableInv, Entries
<1>3. PICK gap \in 0 .. c - 1 : slots[gap] = Empty
  BY <1>1, TableHasAGap
<1> HIDE DEF c, i
<1>4. /\ i \in Used(c, slots) /\ slots[i].key = k
      /\ \A r \in Entries : r.key = k => slots[i] = r
  BY <1>1, <1>2, <1>3, HoldsIsThere DEF i
<1>5. slots' = Without(slots, i) /\ bits' = bits /\ entries' = entries - 1
  BY DEF Erase, i
<1>6. /\ Sound(c, slots')
      /\ Contents(c, slots') = Entries \ {slots[i]}
  BY <1>2, <1>3, <1>4, <1>5, WithoutIsSound
<1>7. slots[i] \in Entries
  BY <1>2, <1>4 DEF Contents
<1>8. Entries \ {slots[i]} = {r \in Entries : r.key # k}
  BY <1>4
<1>9. entries' = Cardinality(Entries \ {slots[i]}) /\ 2 * entries' <= c
  <2>1. Cardinality(Entries \ {slots[i]}) = Cardinality(Entries) - 1
    BY <1>2, <1>7, FS_RemoveElement
  <2>2. entries' = entries - 1
    BY <1>5
  <2> QED
    BY <1>2, <2>1, <2>2
<1>10. TableInv' /\ Entries' = Contents(c, slots')
  BY <1>2, <1>5, <1>6, <1>9, SoundNext
<1> QED
  BY <1>6, <1>8, <1>10

\* clear takes away all of them, and shrink_to_fit of an empty table finds none.
LEMMA ClearStep ==
  ASSUME TableInv, slots' = NoSlots(0), entries' = 0, bits' = bits
  PROVE  TableInv' /\ Entries' = {}
BY NothingIsSound, SoundNext DEF TableInv

\* shrink_to_fit keeps them all, whether the smaller array can be had or not.
LEMMA ShrinkStep ==
  ASSUME TableInv, NEW enough \in BOOLEAN, ShrinkToFit(enough)
  PROVE  TableInv' /\ Entries' = Entries
<1>1. /\ entries \in Nat /\ (entries = 0 => Entries = {}) /\ BitsTyped /\ bits' = bits
      /\ entries' = entries /\ entries = Cardinality(Entries)
  BY TableHasAGap DEF TableInv, ShrinkToFit
<1>2. CASE entries = 0
  BY <1>1, <1>2, ClearStep DEF ShrinkToFit
<1>3. CASE entries # 0 /\ enough /\ Fitting < Capacity(slots)
  <2> DEFINE c == Capacity(slots)
  <2>1. slots' = Rehashed(slots, Fitting)
    BY <1>3 DEF ShrinkToFit
  <2>2. Fitting \in Nat \ {0} /\ 2 * entries <= Fitting /\ entries < Fitting
    <3>1. Fitting \in Nat /\ Fitting >= 2 * entries
      BY <1>1, FittingFits
    <3> QED
      BY <1>1, <1>3, <3>1
  <2>3. c \in Nat /\ Sound(c, slots) /\ Entries = Contents(c, slots)
    BY DEF TableInv, Entries
  <2> HIDE DEF c
  <2>4. Sound(Fitting, slots') /\ Contents(Fitting, slots') = Entries
    BY <1>1, <2>1, <2>2, <2>3, RehashedIsSound
  <2>5. TableInv' /\ Entries' = Contents(Fitting, slots')
    BY <1>1, <2>2, <2>4, SoundNext
  <2> QED
    BY <2>4, <2>5
<1>4. CASE entries # 0 /\ ~ (enough /\ Fitting < Capacity(slots))
  <2>1. slots' = slots
    BY <1>4 DEF ShrinkToFit
  <2>2. Capacity(slots) \in Nat /\ Sound(Capacity(slots), slots') /\ 2 * entries' <= Capacity(slots)
        /\ Entries = Contents(Capacity(slots), slots')
    BY <1>1, <2>1 DEF TableInv, Entries
  <2> QED
    BY <1>1, <2>2, SoundNext
<1> QED
  BY <1>2, <1>3, <1>4

\* The invariant is inductive.
LEMMA TableNextKeeps == TableInv /\ [TableNext]_tableVars => TableInv'
<1> SUFFICES ASSUME TableInv, [TableNext]_tableVars PROVE TableInv'
  OBVIOUS
<1>1. ASSUME NEW k \in CacheKeys, NEW v \in Values, InsertOrAssign(k, v) PROVE TableInv'
  BY <1>1, InsertOrAssignStep
<1>2. ASSUME NEW k \in CacheKeys, Erase(k) PROVE TableInv'
  BY <1>2, EraseStep
<1>3. CASE Clear
  BY <1>3, ClearStep DEF Clear
<1>4. ASSUME NEW enough \in BOOLEAN, ShrinkToFit(enough) PROVE TableInv'
  BY <1>4, ShrinkStep
<1>5. CASE UNCHANGED tableVars
  BY <1>5 DEF tableVars, TableInv, Entries, BitsTyped, Sound, Reached, Distinct, Used, HomeOf,
              Contents, Capacity
<1> QED
  BY <1>1, <1>2, <1>3, <1>4, <1>5 DEF TableNext

\* However keys collide and whatever is called in which order, no key is in the table
\* twice, and find meets no unused slot before the entry that it looks for.
THEOREM TableIsSound == TableSpec => []TableInv
<1>1. TableInit => TableInv
  BY TableInitially
<1> QED
  BY <1>1, TableNextKeeps, PTL DEF TableSpec

\* What the invariant says of entries and of the free slots.
LEMMA TableInvCounts == TableInv => AtMostHalfFull
<1> SUFFICES ASSUME TableInv PROVE AtMostHalfFull
  OBVIOUS
<1> DEFINE c == Capacity(slots)
           used == {i \in DOMAIN slots : slots[i] # Empty}
           keys == {slots[i].key : i \in used}
<1>1. /\ c \in Nat /\ Sound(c, slots) /\ slots \in Table(c)
      /\ entries = Cardinality(Contents(c, slots)) /\ 2 * entries <= c
  BY DEF TableInv, Entries, Sound
<1>2. used = Used(c, slots)
  BY <1>1 DEF Used, Table
<1>3. /\ IsFiniteSet(keys) /\ Cardinality(keys) = Cardinality(used)
      /\ Cardinality(Contents(c, slots)) = Cardinality(used)
      /\ Cardinality(used) \in Nat
  BY <1>1, <1>2, EntriesAreCounted
<1>4. keys \subseteq CacheKeys
  BY <1>1, <1>2 DEF Used, Table, Slot
<1>5. Cardinality(keys) <= Cardinality(CacheKeys) /\ Cardinality(CacheKeys) \in Nat
  BY <1>4, KeysAssumption, FS_Subset, FS_CardinalityType
<1>6. TableTypeOK
  <2>1. entries \in 0 .. Cardinality(CacheKeys)
    <3> HIDE DEF used, keys, c
    <3> QED
      BY <1>1, <1>3, <1>5
  <2> QED
    BY <1>1, <2>1 DEF TableTypeOK, TableInv, BitsTyped, Table
<1> HIDE DEF used, keys
<1>7. entries = Cardinality(used) /\ entries = Cardinality(keys) /\ 2 * entries <= c
  BY <1>1, <1>3
<1> QED
  BY <1>6, <1>7 DEF AtMostHalfFull, used, keys

\* "The table stays at most half full" (FlatGeometryCache): entries counts the used
\* slots, and every probe of find, insert_or_assign and erase ends.
THEOREM TableIsAtMostHalfFull == TableSpec => []AtMostHalfFull
BY TableIsSound, TableInvCounts, PTL

\* Two tables that answer for the same entries are the same.
LEMMA AnswersNext ==
  ASSUME TableInv, TableInv'
  PROVE  /\ \A k \in CacheKeys :
              /\ \A r \in Entries : r.key = k => Find(k) = r.value
              /\ (\A r \in Entries : r.key # k) => Find(k) = NoValue
         /\ \A k \in CacheKeys :
              /\ \A r \in Entries' : r.key = k => Find(k)' = r.value
              /\ (\A r \in Entries' : r.key # k) => Find(k)' = NoValue
<1>1. TableInv => AnswersForEntries([k \in CacheKeys |-> Find(k)])
  BY FindAnswers
<1>2. TableInv' => AnswersForEntries([k \in CacheKeys |-> Find(k)])'
  BY <1>1, FindAnswers, PTL
<1> QED
  BY <1>1, <1>2 DEF AnswersForEntries

\* insert_or_assign changes find's answer for its key and for no other.
LEMMA InsertIsInsert ==
  ASSUME TableInv, NEW k \in CacheKeys, NEW v \in Values, InsertOrAssign(k, v)
  PROVE  Lookup!Insert(k, v)
<1>1. TableInv' /\ Entries' = {r \in Entries : r.key # k} \cup {[key |-> k, value |-> v]}
  BY InsertOrAssignStep
<1>2. Find(k)' = v
  BY <1>1, AnswersNext
<1>3. ASSUME NEW j \in CacheKeys, j # k
      PROVE  Find(j)' = Find(j)
  <2>1. CASE \E r \in Entries : r.key = j
    BY <1>1, <1>3, <2>1, AnswersNext
  <2>2. CASE \A r \in Entries : r.key # j
    BY <1>1, <1>3, <2>2, AnswersNext
  <2> QED
    BY <2>1, <2>2
<1> QED
  BY <1>2, <1>3 DEF Lookup!Insert

\* erase does so too, wherever it pulled later entries back to.
LEMMA EraseIsErase ==
  ASSUME TableInv, NEW k \in CacheKeys, Erase(k)
  PROVE  Lookup!Erase(k)
<1>1. TableInv' /\ Entries' = {r \in Entries : r.key # k}
  BY EraseStep
<1>2. Find(k)' = NoValue
  BY <1>1, AnswersNext
<1>3. ASSUME NEW j \in CacheKeys, j # k
      PROVE  Find(j)' = Find(j)
  <2>1. CASE \E r \in Entries : r.key = j
    BY <1>1, <1>3, <2>1, AnswersNext
  <2>2. CASE \A r \in Entries : r.key # j
    BY <1>1, <1>3, <2>2, AnswersNext
  <2> QED
    BY <2>1, <2>2
<1> QED
  BY <1>2, <1>3 DEF Lookup!Erase

\* Where the entries lie does not matter to find.
LEMMA SameEntriesSameAnswers ==
  ASSUME TableInv, TableInv', Entries' = Entries
  PROVE  UNCHANGED [k \in CacheKeys |-> Find(k)]
<1>1. ASSUME NEW j \in CacheKeys
      PROVE  Find(j)' = Find(j)
  <2>1. CASE \E r \in Entries : r.key = j
    BY <2>1, AnswersNext
  <2>2. CASE \A r \in Entries : r.key # j
    BY <2>2, AnswersNext
  <2> QED
    BY <2>1, <2>2
<1> QED
  BY <1>1

\* After clear, find finds nothing.
LEMMA ClearIsClear ==
  ASSUME TableInv, Clear
  PROVE  Lookup!Clear
<1>1. TableInv' /\ Entries' = {}
  BY ClearStep DEF Clear
<1>2. \A j \in CacheKeys : Find(j)' = NoValue
  BY <1>1, AnswersNext
<1> QED
  BY <1>2 DEF Lookup!Clear

\* FlatGeometryCache implements a map that only its own calls change: linear probing,
\* growing, shrinking and pulling entries back over a hole never lose or hide an entry.
THEOREM TableBehavesAsMap == TableSpec => BehavesAsMap
<1>1. TableInit => Lookup!Init
  <2> SUFFICES ASSUME TableInit PROVE Lookup!Init
    OBVIOUS
  <2>1. \A k \in CacheKeys : Find(k) = NoValue
    BY DEF TableInit, Find
  <2> QED
    BY <2>1 DEF Lookup!Init
<1>2. TableInv /\ [TableNext]_tableVars => [Lookup!Next]_[k \in CacheKeys |-> Find(k)]
  <2> SUFFICES ASSUME TableInv, [TableNext]_tableVars
               PROVE  Lookup!Next \/ UNCHANGED [k \in CacheKeys |-> Find(k)]
    OBVIOUS
  <2>1. ASSUME NEW k \in CacheKeys, NEW v \in Values, InsertOrAssign(k, v)
        PROVE  Lookup!Next
    BY <2>1, InsertIsInsert DEF Lookup!Next
  <2>2. ASSUME NEW k \in CacheKeys, Erase(k)
        PROVE  Lookup!Next
    BY <2>2, EraseIsErase DEF Lookup!Next
  <2>3. CASE Clear
    BY <2>3, ClearIsClear DEF Lookup!Next
  <2>4. ASSUME NEW enough \in BOOLEAN, ShrinkToFit(enough)
        PROVE  UNCHANGED [k \in CacheKeys |-> Find(k)]
    BY <2>4, ShrinkStep, SameEntriesSameAnswers
  <2>5. CASE UNCHANGED tableVars
    BY <2>5 DEF tableVars, Find, Holds, Probe, At, Home, Capacity
  <2> QED
    BY <2>1, <2>2, <2>3, <2>4, <2>5 DEF TableNext
<1> QED
  BY <1>1, <1>2, TableIsSound, PTL DEF TableSpec, BehavesAsMap, Lookup!Spec

\* Each call changes find's answers as its name says, and shrinking changes none.
THEOREM TableCallsDoWhatTheySay == TableSpec => CallsDoWhatTheySay
<1>1. ASSUME TableInv, TableInv', [TableNext]_tableVars
      PROVE  [/\ \A k \in CacheKeys, v \in Values : InsertOrAssign(k, v) => Lookup!Insert(k, v)
              /\ \A k \in CacheKeys : Erase(k) => Lookup!Erase(k)
              /\ \A enough \in BOOLEAN :
                   ShrinkToFit(enough) => UNCHANGED [k \in CacheKeys |-> Find(k)]]_tableVars
  BY <1>1, InsertIsInsert, EraseIsErase, ShrinkStep, SameEntriesSameAnswers
<1> QED
  BY <1>1, TableIsSound, PTL DEF TableSpec, CallsDoWhatTheySay
================================================================================
