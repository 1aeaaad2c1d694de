SPECIFICATION FairSpec
CONSTANTS
  sms = sms
  rental = rental
  extension = extension
  h1 = h1
  NoOrder = NoOrder
  Verifications <- OneVerification
  Rentals <- OneRental
  Extensions <- OneExtension
  Handlers <- OneHandler
  MaxAttempts = 2
  MaxPolls = 2
  MaxFaults = 1
CONSTRAINT OneProduct
CHECK_DEADLOCK FALSE
PROPERTIES ImplementsLifecycle BoughtAgainOnlyAfterLoss UndisturbedSettles
