SPECIFICATION Spec
CONSTANTS
  Live = TRUE
  StartTimeouts = {0, 2}
  MaxCommand = 5
  Silence = 2
  TextIdle = 2
  StartBlocks = 2
  MinBlocks = 3
  PrerollLen = 3
  QueueLen = 2
  GetTimeout = 1
  BlockLen = 2
  ChunkLen = 3
  RightLen = 3
  MaxBlocks = 6
INVARIANTS
  TypeOK
  RecordingUnbroken
  LiveHearsWhatIsSaved
  TextKeepsUp
PROPERTIES
  RecordingEnds
CHECK_DEADLOCK FALSE
