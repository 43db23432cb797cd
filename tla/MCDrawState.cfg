SPECIFICATION Spec
CONSTANTS
  header = header
  stages = stages
  pipeline = pipeline
  blend = blend
  index = index
  depth = depth
  v1 = v1
  v2 = v2
  opaque = opaque
  blended = blended
  only = only
  Groups = {header, stages}
  Header = header
  Flags = Flags
  Values = {v1, v2}
  Viewports = {whole, part}
  WholeWindow = whole
  Slots = {pipeline, depth, blend, index}
  Pipeline = pipeline
  Index = index
  RenderStates <- MCRenderStates
  Objects <- MCObjects
  Watched = {pipeline, index}
  Overlays <- MCOverlays
  Unknown = Unknown
  Other = Other
SYMMETRY Alike
INVARIANTS
  DrawsUseCurrentState
  BelievedIsBound
