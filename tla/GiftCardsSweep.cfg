SPECIFICATION FairSpec
CONSTANTS
  card = card
  h1 = h1
  NoOrder = NoOrder
  Cards <- OneCard
  Handlers <- OneHandler
  Parts <- SweepOnly
  MaxAttempts = 1
  MaxPolls = 1
  MaxTags = 1
  MaxRetries = 0
  MaxFaults = 1
CHECK_DEADLOCK FALSE
PROPERTIES FulfillingSettles CodesLand
