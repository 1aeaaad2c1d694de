SPECIFICATION Spec
CONSTANTS
  card = card
  h1 = h1
  NoOrder = NoOrder
  Cards <- OneCard
  Handlers <- OneHandler
  Parts <- AllButSweep
  MaxAttempts = 2
  MaxPolls = 1
  MaxTags = 1
  MaxRetries = 1
  MaxFaults = 1
CONSTRAINT OneDisturbance
CHECK_DEADLOCK FALSE
INVARIANTS RefundsEscalated NothingUncharged
PROPERTIES ImplementsLifecycle
