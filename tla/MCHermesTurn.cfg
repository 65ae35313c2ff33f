SPECIFICATION Spec
CONSTANTS
  MaxTurns = 2
INVARIANTS
  TypeOK
  AgentExclusive
  NeverTwice
PROPERTIES
  CancelEndsTurn
  SubprocessEnds
CHECK_DEADLOCK FALSE
