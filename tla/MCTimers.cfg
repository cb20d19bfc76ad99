CONSTANTS
  Setups <- MCSetups
  TIMER_OVERFLOW = 4
  Divider = 2
  MaxSliceTicks = 9
  MaxLate = 1
SPECIFICATION Spec
INVARIANT ReadsAreExact
INVARIANT InterruptsAreInTime
