SPECIFICATION Spec
CONSTANTS
  NumContracts = 1
  MaxQty = 2
  MaxOrders = 4
  FinalStep = 1
  MaxLevels = 2
  MaxCommands = 1
  OpenKinds = {"market"}
  CloseKinds = {"gtc", "market"}
  IntentSides = {"Long"}
INVARIANT
  FlattenOnce
