SPECIFICATION Spec
CONSTANTS
  StreamSegments = 2
  SegmentVertices = 2
  MaxVertices = 2
  Fences = 2
  MaxFrame = 4
INVARIANTS
  QueuedDrawsIntact
