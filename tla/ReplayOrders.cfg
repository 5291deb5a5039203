SPECIFICATION Spec
CONSTANTS
  NumContracts = 1
  MaxQty = 2
  MaxOrders = 3
  FinalStep = 1
  MaxLevels = 2
  MaxCommands = 1
  OpenKinds = {"gtc", "market"}
  CloseKinds = {"gtc", "market"}
  IntentSides = {"Long"}
INVARIANTS
  TypeOK
  LegsAgree
  BundleReplaysInventory
  FillRowsSound
  RegistryMatchesMirror
  OrderConservation
