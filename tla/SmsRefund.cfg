SPECIFICATION Spec
CONSTANTS
  sms = sms
  rental = rental
  extension = extension
  h1 = h1
  NoOrder = NoOrder
  Verifications <- OneVerification
  Rentals <- OneRental
  Extensions <- OneExtension
  Handlers <- OneHandler
  MaxAttempts = 1
  MaxPolls = 1
  MaxFaults = 0
CONSTRAINT OneProduct
CHECK_DEADLOCK FALSE
INVARIANTS RefundedRentalCredited
