CONSTANTS
  RunaheadFrames = 1
  FrameValues = 16
  Multitap = FALSE
  StaleDevice = FALSE
  LateResets = FALSE
  Stalls = FALSE
  MaxFrames = 6
  MaxWrites = 2
SPECIFICATION Spec
INVARIANT TypeOK
INVARIANT SavesAreInOrder
PROPERTY RollbackRestoresTheData
PROPERTY WaitIsAnswered
CHECK_DEADLOCK FALSE
