SPECIFICATION FairSpec
CONSTANTS
  c1 = c1
  c2 = c2
  Callers <- TwoCallers
  Lives <- ShortLife
  Timeout = 2
  Skew = 4
  MaxRetries = 1
  MaxTime = 6
  MaxCalls = 3
  MaxRevoked = 1
CHECK_DEADLOCK FALSE
INVARIANTS UnrevokedAccepted NeverPlacedTwice
PROPERTIES EveryCallEnds
