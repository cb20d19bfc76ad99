CONSTANTS
  video = video
  drive = drive
  timer = timer
  NULL = NULL
  Events = {video, drive, timer}
  Clock = video
  Ticks = {1, 2}
  MaxTime = 3
SYMMETRY Symmetry
VIEW View
SPECIFICATION Spec
INVARIANT TypeOK
INVARIANT ListIsSorted
INVARIANT NeverLate
INVARIANT StopsInTime
INVARIANT PeriodsAreKept
PROPERTY TimeIsConserved
