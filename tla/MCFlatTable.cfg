SPECIFICATION TableSpec
SYMMETRY AnyKeys
CONSTANTS
  CacheKeys = {k1, k2, k3, k4}
  Values = {v1}
  NoValue = NoValue
  Empty = Empty
  InitialSlots = 2
  HashSpace = 8
INVARIANTS
  AtMostHalfFull
PROPERTIES
  BehavesAsMap
  CallsDoWhatTheySay
