SPECIFICATION Spec
CONSTANTS
  Backlog = 1
  Cooldown = 0
  MaxTime = 2
  MaxActivations = 4
INVARIANTS
  OnlyUnreachableFallsBack
