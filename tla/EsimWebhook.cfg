SPECIFICATION Spec
CONSTANTS
  buy = buy
  top1 = top1
  top2 = top2
  h1 = h1
  h2 = h2
  NoOrder = NoOrder
  Purchases <- OnePurchase
  TopUps <- NoOrders
  Handlers <- TwoHandlers
  Entries <- WebhookRefresh
  MaxAttempts = 2
  MaxPolls = 2
  MaxTags = 0
  MaxRetries = 0
  MaxThrows = 1
  MaxCrashes = 1
CHECK_DEADLOCK FALSE
SYMMETRY HandlersSymmetric
INVARIANTS TypeOK CompletedMeansDelivered NoticesTrue CleanupOnlyAfterRefund NothingUncharged QuietMeansSettled
PROPERTY ImplementsLifecycle
