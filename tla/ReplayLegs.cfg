SPECIFICATION Spec
CONSTANTS
  NumContracts = 2
  MaxQty = 1
  MaxOrders = 3
  FinalStep = 1
  MaxLevels = 1
  MaxCommands = 2
  OpenKinds = {"gtc"}
  CloseKinds = {}
  IntentSides = {"Long"}
INVARIANTS
  TradePerStep
  MirrorMatchesBooks
  NoStaleDepth
