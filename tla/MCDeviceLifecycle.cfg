SPECIFICATION FairDeviceSpec
CONSTANTS
  Modes = {m1}
  NoMode = NoMode
  Windows = {w1, w2}
  NoWindow = NoWindow
  TextureNames = {t1}
  NoTexture = NoTexture
  Stages = {0}
  Shapes = {1, 2}
  Pixels = {p}
  Blank = Blank
  MaxFailures = 2
  MaxGeneration = 2
INVARIANTS
  DeviceTypeOK
  DrawsFindTheirTextures
  ShownGenerationsAreAnnounced
PROPERTIES
  LevelsKeepTheirPixels
  RecoveryKeepsWhatSC4Holds
  NoFrameAfterAnnouncement
  DeviceComesBack
