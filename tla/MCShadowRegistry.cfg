SPECIFICATION Spec
CONSTANTS
  i1 = i1
  i2 = i2
  m1 = m1
  m2 = m2
  Ids <- MCIds
  Occupants <- MCOccupants
  Kind <- MCKind
  Binding <- MCBinding
  Managers <- MCManagers
  Decal = "decal"
  None = None
  MaxBirths = 2
  MaxCities = 2
  MaxPasses = 2
SYMMETRY MCSymmetry
INVARIANTS
  RegistryIsHonest
  PassIsRight
  EveryShadowOnce
CHECK_DEADLOCK FALSE
