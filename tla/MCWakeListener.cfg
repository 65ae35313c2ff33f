SPECIFICATION Spec
CONSTANTS
  Interval = 3
  Timeout = 5
  MaxSleep = 2
  Consecutive = 2
INVARIANTS
  TypeOK
  NothingFreedInUse
  DeadCaptureNoticed
  NewSamplesGetWindow
PROPERTIES
  StopEndsIt
  StatusKept
