SPECIFICATION Spec
CONSTANTS
  MaxRegions = 2
  Widths = {1, 2}
  Values = {v1, v2}
  Undefined = v1
  NoTexture = NoTexture
  CallbackDrawsDepth = FALSE
INVARIANTS
  ScratchIsCurrent
  RegionsFitWindow
PROPERTIES
  RegionsGiveBackWhatTheySaved
