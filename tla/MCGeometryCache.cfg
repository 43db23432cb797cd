SPECIFICATION Spec
CONSTANTS
  ordinary = ordinary
  large = large
  largest = largest
  Keys = {ordinary, large, largest}
  Size <- MCSize
  Segments = 3
  Configured = 3
  TrimmedSegments = 2
  NormalCapacity = 8
  MaxEntries = 2
  NoEntry = NoEntry
  NoBuffer = NoBuffer
  Fences = 1
  MaxFrame = 3
INVARIANTS
  CompletedFramesAreDone
  QueuedDrawsIntact
  EntriesHoldTheirData
  RingKeepsItsBudget
