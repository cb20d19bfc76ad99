CONSTANTS
  RunaheadFrames = 1
  FrameValues = 16
  Multitap = FALSE
  StaleDevice = FALSE
  LateResets = FALSE
  Stalls = FALSE
  MaxFrames = 6
  MaxWrites = 2
SPECIFICATION Spec
PROPERTY RollbackRestoresTheCard
CHECK_DEADLOCK FALSE
