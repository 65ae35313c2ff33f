SPECIFICATION Spec
CONSTANTS
  Found <- MCFound
  Kept = {"wakeword"}
  MaxEvents = 3
  MaxQueue = 1
INVARIANTS
  TypeOK
  OneCommandAtATime
PROPERTIES
  TrayAgrees
  AskedIsDone
CHECK_DEADLOCK FALSE
