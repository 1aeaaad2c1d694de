SPECIFICATION Spec
CONSTANTS
  o1 = o1
  o2 = o2
  o3 = o3
  p1 = p1
  p0 = p0
  Offers <- ThreeOffers
  Plans <- TwoPlans
  Extendable <- PlanExtendable
  Stored <- AllButOne
  Costs <- TwoCosts
  Rules <- TwoRules
  Keys <- KeysOf
  HandPrices <- Bargain
  MaxPercent = 50
  MaxRuns = 2
  MaxEdits = 2
  MaxChanges = 1
  MaxFaults = 1
CONSTRAINT TwoDisturbances
CHECK_DEADLOCK FALSE
INVARIANTS CleanRun MarkupHeld
PROPERTIES SweepJustified
