SPECIFICATION Spec
CONSTANTS
  h1 = h1
  h2 = h2
  Products <- TwoProducts
  Ranged <- SecondRanged
  Offers <- TwoOffers
  Rules <- TwoRules
  Keys <- KeysOf
  HandPrices <- LossLeader
  Admins <- TwoAdmins
  PageSize = 1
  Concurrency = 2
  MaxPercent = 50
  MaxRuns = 2
  MaxEdits = 2
  MaxChanges = 1
  MaxFaults = 1
CONSTRAINT ThreeThings
SYMMETRY AdminsSymmetric
CHECK_DEADLOCK FALSE
INVARIANTS TypeOK NoLossByItself
PROPERTIES SweepJustified
