SPECIFICATION Spec
CONSTANTS
  MaxTurns = 2
  MaxSessions = 2
  Configs <- MCConfigs
INVARIANTS
  TypeOK
  DelegationBacklog
  HistoryOrdered
  SessionEndIsPublished
PROPERTIES
  CancelStopsNewWork
  DialogSteps
