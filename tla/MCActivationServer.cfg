SPECIFICATION Spec
CONSTANTS
  Backlog = 1
  Cooldown = 1
  MaxTime = 3
  MaxActivations = 4
INVARIANTS
  TypeOK
  HandledOnce
  EchoNeverServed
PROPERTIES
  StopDuringSessionObeyed
  ListenerReleased
