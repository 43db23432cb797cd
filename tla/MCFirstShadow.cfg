SPECIFICATION Spec
CONSTANTS
  east = east
  west = west
  prop = prop
  piece = piece
  Cells = {0, 1, 2, 3}
  Beyond = {3}
  Casters = {prop, piece}
  Cameras = {east, west}
  Box <- MCBox
  Shadow <- MCShadow
  Views <- MCViews
  Rects <- MCRects
  Grounds <- MCGrounds
  None = None
  Modes = {FALSE}
  MaxChanges = 3
INVARIANTS
  SettledPictureIsRight
