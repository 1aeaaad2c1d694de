SPECIFICATION FairSpec
CONSTANTS
  ps = ps
  ox = ox
  h1 = h1
  h2 = h2
  NoDeposit = NoDeposit
  Paystack <- OnePaystack
  Oxapay <- OneOxapay
  Handlers <- TwoHandlers
  MaxThrows = 1
  MaxCrashes = 1
CHECK_DEADLOCK FALSE
INVARIANTS TypeOK CreditsAreEarned FailedTakesNoMoney PaymentNotLost
PROPERTIES PaymentCredited
