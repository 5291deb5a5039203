SPECIFICATION FairSpec
CONSTANTS
  MaxRuns = 5
  Requests <- MCRequests
  Cores = 2
  MaxBatches = 2
  Tapes = {"t1", "t2", "bad"}
  BadTape = "bad"
  MaxChanges = 1
  Failing <- MCFailing
  Faults = {"session", "write", "index", "panic"}
  Crashes = TRUE
INVARIANTS
  NoRace
  IndexIsPlan
  OneTape
PROPERTY
  BatchReturns
