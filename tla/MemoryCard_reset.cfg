CONSTANTS
  RunaheadFrames = 1
  FrameValues = 16
  Multitap = FALSE
  StaleDevice = FALSE
  LateResets = TRUE
  Stalls = FALSE
  MaxFrames = 6
  MaxWrites = 2
SPECIFICATION Spec
PROPERTY RollbackRestoresTheData
CHECK_DEADLOCK FALSE
