SPECIFICATION FairSpec
CONSTANTS
  alice = alice
  bob = bob
  p1 = p1
  p2 = p2
  Nobody = Nobody
  Users <- MCUsers
  References <- MCReferences
  Calls <- MCCalls
  Procs <- MCProcs
INVARIANTS TypeOK LedgerConsistent NeverOverdrawn PostedOnce AnswersHold EventsFollowPostings
PROPERTIES ImplementsLedger EveryCallReturns
