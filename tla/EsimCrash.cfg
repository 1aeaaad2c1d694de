SPECIFICATION FairSpec
CONSTANTS
  buy = buy
  top1 = top1
  top2 = top2
  h1 = h1
  h2 = h2
  NoOrder = NoOrder
  Purchases <- OnePurchase
  TopUps <- NoOrders
  Handlers <- OneHandler
  Entries <- SweepOnly
  MaxAttempts = 2
  MaxPolls = 2
  MaxTags = 1
  MaxRetries = 0
  MaxThrows = 0
  MaxCrashes = 1
CHECK_DEADLOCK FALSE
PROPERTIES UndisturbedSettles FulfillingResolves
