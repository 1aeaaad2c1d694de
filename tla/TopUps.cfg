SPECIFICATION Spec
CONSTANTS
  buy = buy
  top1 = top1
  top2 = top2
  h1 = h1
  h2 = h2
  NoOrder = NoOrder
  Purchases <- NoOrders
  TopUps <- TwoTopUps
  Handlers <- TwoHandlers
  Entries <- NoEntries
  MaxAttempts = 2
  MaxPolls = 1
  MaxTags = 1
  MaxRetries = 1
  MaxThrows = 1
  MaxCrashes = 1
CHECK_DEADLOCK FALSE
SYMMETRY TopUpsSymmetric
INVARIANTS TopUpsSafe
