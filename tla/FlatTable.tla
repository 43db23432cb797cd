------------------------------- MODULE FlatTable -------------------------------
(***************************************************************************)
(* FlatGeometryCache: open addressing in one array, probed linearly, that  *)
(* is never more than half full and has no tombstones: an erased entry's   *)
(* slot is filled by shifting later entries back.  Any key may have any    *)
(* hash, so every pattern of collisions and of runs around the array's end *)
(* is covered.                                                             *)
(***************************************************************************)
EXTENDS Integers, FiniteSets, FiniteSetsExt

CONSTANTS
  CacheKeys, Values,
  NoValue,
  Empty,         \* a slot whose key's count is 0
  InitialSlots,  \* kInitialSlots
  HashSpace      \* how many values the mixed bits have (2^32)

ASSUME KeysAssumption == IsFiniteSet(CacheKeys)
\* A first table of one slot would be full with its first entry.
ASSUME SlotsAssumption == InitialSlots \in Nat \ {0, 1} /\ HashSpace \in Nat \ {0}
ASSUME EmptyAssumption == Empty \notin [key : CacheKeys, value : Values]
ASSUME NoValueAssumption == NoValue \notin Values

VARIABLES
  bits,    \* the mixed bits of each key: fixed, and any function
  slots,   \* from 0; no slots before the first insertion and after clear
  entries

tableVars == <<bits, slots, entries>>

Capacity(s) == Cardinality(DOMAIN s)
Slot == [key : CacheKeys, value : Values] \cup {Empty}

TableTypeOK ==
  /\ bits \in [CacheKeys -> 0 .. HashSpace - 1]
  /\ slots \in [0 .. Capacity(slots) - 1 -> Slot]
  /\ entries \in 0 .. Cardinality(CacheKeys)

NoSlots(capacity) == [i \in 0 .. capacity - 1 |-> Empty]

TableInit ==
  /\ bits \in [CacheKeys -> 0 .. HashSpace - 1]
  /\ slots = NoSlots(0)
  /\ entries = 0

-----------------------------------------------------------------------------
\* bits >> shift: the top bits, as many as number the slots.
Home(s, k) == (bits[k] * Capacity(s)) \div HashSpace

At(s, k, distance) == (Home(s, k) + distance) % Capacity(s)

\* Where the probe for k ends: at its own slot or at the first unused one.
Probe(s, k) ==
  At(s, k, Min({d \in 0 .. Capacity(s) - 1 :
                  s[At(s, k, d)] = Empty \/ s[At(s, k, d)].key = k}))

Holds(s, k) == s[Probe(s, k)] # Empty

\* find, as the value it leads to.
Find(k) == IF entries = 0 \/ ~Holds(slots, k) THEN NoValue ELSE slots[Probe(slots, k)].value

\* The slots with k's value assigned, when there is room.
Assigned(s, k, v) == [s EXCEPT ![Probe(s, k)] = [key |-> k, value |-> v]]

\* Mutant of Rehashed: the array is resized, and entries stay where they are.
RehashedInPlace(s, capacity) ==
  [i \in 0 .. capacity - 1 |-> IF i < Capacity(s) THEN s[i] ELSE Empty]

\* Rehash's loop: the new table, with the entries of the first n old slots.
Rehashing(s, capacity) ==
  LET new[n \in 0 .. Capacity(s)] ==
        IF n = 0 THEN NoSlots(capacity)
        ELSE IF s[n - 1] = Empty THEN new[n - 1]
        ELSE Assigned(new[n - 1], s[n - 1].key, s[n - 1].value)
  IN new

\* Rehash: every entry is inserted again, in the order of the old slots.
Rehashed(s, capacity) == Rehashing(s, capacity)[Capacity(s)]

\* Mutant of MustGrow: only a full table grows.
MustGrowWhenFull == entries + 1 > Capacity(slots)

\* One more entry would fill more than half of the slots.
MustGrow == (entries + 1) * 2 > Capacity(slots)

Grown ==
  IF MustGrow
    THEN Rehashed(slots, IF Capacity(slots) = 0 THEN InitialSlots ELSE Capacity(slots) * 2)
    ELSE slots

\* insert_or_assign.  It asks for room before it looks whether k is there.
InsertOrAssign(k, v) ==
  /\ slots' = Assigned(Grown, k, v)
  /\ entries' = IF Holds(Grown, k) THEN entries ELSE entries + 1
  /\ UNCHANGED bits

-----------------------------------------------------------------------------
(* erase: the entries after the hole are looked at, up to the first unused *)
(* slot.  hole moves to where an entry was pulled back from.               *)

Distance(s, from, to) == (to + Capacity(s) - from) % Capacity(s)

\* Mutant of MayMove: every later entry of the run is pulled back.
MayMoveAlways(s, hole, next) == TRUE

\* The entry at next is not moved past its home slot when it moves to the hole.
MayMove(s, hole, next) ==
  Distance(s, Home(s, s[next].key), next) >= Distance(s, hole, next)

PulledBack(t, next) ==
  IF MayMove(t.slots, t.hole, next)
    THEN [slots |-> [t.slots EXCEPT ![t.hole] = t.slots[next]], hole |-> next]
    ELSE t

\* How many used slots follow slot i.
RunLength(s, i) ==
  Min({d \in 0 .. Capacity(s) - 1 : s[(i + d + 1) % Capacity(s)] = Empty})

\* erase's loop: the slots and the hole when n slots of the run are behind it.
Pulling(s, i) ==
  LET t[n \in 0 .. RunLength(s, i)] ==
        IF n = 0 THEN [slots |-> s, hole |-> i]
        ELSE PulledBack(t[n - 1], (i + n) % Capacity(s))
  IN t

Without(s, i) ==
  LET t == Pulling(s, i)[RunLength(s, i)]
  IN [t.slots EXCEPT ![t.hole] = Empty]

\* erase, of what find has just found.
Erase(k) ==
  /\ Find(k) # NoValue
  /\ slots' = Without(slots, Probe(slots, k))
  /\ entries' = entries - 1
  /\ UNCHANGED bits

Clear ==
  /\ slots' = NoSlots(0)
  /\ entries' = 0
  /\ UNCHANGED bits

\* The capacities that doubling from the initial one leads to.
Doubled ==
  LET capacity[n \in 0 .. entries] ==
        IF n = 0 THEN InitialSlots ELSE capacity[n - 1] * 2
  IN capacity

\* The first of them that keeps half of the slots free.
Fitting == Min({n \in {Doubled[e] : e \in 0 .. entries} : n >= entries * 2})

\* shrink_to_fit.  enough: the smaller array can be allocated; otherwise the
\* larger one is kept.
ShrinkToFit(enough) ==
  /\ IF entries = 0 THEN slots' = NoSlots(0)
     ELSE IF enough /\ Fitting < Capacity(slots) THEN slots' = Rehashed(slots, Fitting)
     ELSE UNCHANGED slots
  /\ UNCHANGED <<bits, entries>>

\* An insertion that cannot grow the table throws and leaves it as it was.
TableNext ==
  \/ \E k \in CacheKeys, v \in Values : InsertOrAssign(k, v)
  \/ \E k \in CacheKeys : Erase(k)
  \/ Clear
  \/ \E enough \in BOOLEAN : ShrinkToFit(enough)

TableSpec == TableInit /\ [][TableNext]_tableVars

-----------------------------------------------------------------------------
Lookup == INSTANCE LookupTable WITH Keys <- CacheKeys, table <- [k \in CacheKeys |-> Find(k)]

(***************************************************************************)
(* What find answers is a map that only the calls change: erasing a key    *)
(* never hides another one, and growing or shrinking loses nothing.        *)
(***************************************************************************)
BehavesAsMap == Lookup!Spec

\* Each call changes what find answers for its own key, as the call says, and
\* for no other; shrinking changes no answer.
CallsDoWhatTheySay ==
  [][/\ \A k \in CacheKeys, v \in Values : InsertOrAssign(k, v) => Lookup!Insert(k, v)
     /\ \A k \in CacheKeys : Erase(k) => Lookup!Erase(k)
     /\ \A enough \in BOOLEAN : ShrinkToFit(enough) => UNCHANGED [k \in CacheKeys |-> Find(k)]]_tableVars

\* "The table stays at most half full": entries counts the used slots, each key
\* is in one of them at most, and so every probe meets an unused slot soon.
AtMostHalfFull ==
  LET used == {i \in DOMAIN slots : slots[i] # Empty}
  IN /\ TableTypeOK
     /\ entries = Cardinality(used)
     /\ entries = Cardinality({slots[i].key : i \in used})
     /\ 2 * entries <= Capacity(slots)
================================================================================
