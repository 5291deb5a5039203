SPECIFICATION FairSpec
CONSTANTS
  NumContracts = 1
  MaxQty = 2
  MaxOrders = 3
  FinalStep = 1
  MaxLevels = 1
  MaxCommands = 1
  OpenKinds = {"gtc", "market"}
  CloseKinds = {}
  IntentSides = {"Long"}
INVARIANT
  NoDoubleClose
PROPERTY
  Terminates
