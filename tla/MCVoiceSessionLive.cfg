SPECIFICATION Spec
CONSTANTS
  MaxTurns = 3
  MaxSessions = 1
  Configs <- MCConfigs
PROPERTIES
  CancelEndsSession
  AckLoopsEnd
  StopEndsSession
  AwaitedResultTold
