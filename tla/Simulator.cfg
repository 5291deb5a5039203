SPECIFICATION FairSpec
CONSTANTS
  Attempts = 3
  MaxTotal = 2
  MaxSteps = 2
  MaxSessions = 3
  MaxUses = 3
  MaxLate = 2
  Clients = {"feed", "market"}
INVARIANTS
  TapeIsWalk
  NoLeak
  FailsForCause
PROPERTY
  OpenReturns
