SPECIFICATION FairWatchdogSpec
CONSTANTS
  ArmingTicks = 2
  StallTime = 1
  RepeatTime = 2
  MaxReports = 2
  MaxClock = 8
  MaxStarts = 2
INVARIANTS
  ReportsFollowFlowingFrames
  ReportsAreSpaced
PROPERTIES
  StallIsReported
  RenderThreadGoesOn
