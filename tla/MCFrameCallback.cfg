SPECIFICATION FairSpec
CONSTANTS
  Callbacks = {c1, c2}
  Plugins = {p1, p2}
  Render = render
  None = None
  MaxDepth = 1
INVARIANTS
  UnloadedNeverRuns
  NoWaiterForgotten
PROPERTY
  UnregisterReturns
