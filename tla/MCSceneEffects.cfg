SPECIFICATION SceneSpec
CONSTANTS
  Casters = {1, 2}
  Versions = {1, 2}
  Size <- SizeDef
  ArenaSize = 2
  MaxArena = 4
  Models = {1, 2, 3, 4}
  Occupant <- OccupantDef
  Cities <- CitiesDef
  MaxOccupants = 2
  FirstBoxes = 1
  MaxRebuilds = 3
  MaxTerrains = 2
  MaxFailing = 1
  Windows = {1, 2}
  FarPlanes = {1, 2}
INVARIANTS
  SceneTypeOK
  CastersDrawThemselves
  ModelsKnowTheirOwn
  SelfTestComesBack
  TerrainIsCurrent
  EffectsAppearOnce
  DepthIsForTheseEffects
