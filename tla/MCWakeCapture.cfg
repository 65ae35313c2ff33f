SPECIFICATION CaptureSpec
CONSTANTS
  Capacity = 3
  Window = 2
  MaxSamples = 5
  ModelRate = 2
  Rates = {0, 1, 3}
  Word = 8
  MaxFrames = 2
  MaxHeard = 2
INVARIANTS
  CaptureTypeOK
  WindowUnbroken
  WindowFresh
  TapeKeepsTime
CHECK_DEADLOCK FALSE
