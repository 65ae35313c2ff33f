SPECIFICATION Spec
CONSTANTS
  MaxTurns = 2
  MaxSessions = 1
  Configs <- MCShippedOnly
PROPERTIES
  ResultSpokenAutomatically
