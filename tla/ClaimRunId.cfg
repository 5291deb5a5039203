SPECIFICATION SessionSpec
CONSTANTS
  Contracts <- MCContracts
  Expiry <- MCExpiry
  Strike <- MCStrike
  Style <- MCStyle
  Ticker = "SPX"
  Quotes <- MCQuotes
  Days <- MCDays
  Underlying <- MCUnderlying
  Multiplier = 2
  Fees <- MCFees
  Model <- MCModel
  Capital = 100
  MaxTrades <- MCMaxTrades
  MaxQty <- MCMaxQty
  GtcLimits = {}
  Tick = 1
  CapTicks = 1
  Profile <- MCProfile
  MaxCents = 1000000
  Usual <- MCUsual
  Configs <- MCConfigs
  Null = Null
  NaN = NaN
  Long = Long
  Mistyped = Mistyped
  Tickers = {"SPX", "NDX"}
  MaxRows = 16
  Scripts <- MCScripts
  Specs <- MCSpecs
  Policies <- MCPolicies
  VaryPolicy = TRUE
INVARIANTS
  OneIdOneBundle
CHECK_DEADLOCK FALSE
