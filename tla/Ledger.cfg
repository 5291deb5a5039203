SPECIFICATION Spec
CONSTANTS
  Contracts <- MCContracts
  Expiry <- MCExpiry
  Quotes <- MCQuotes
  Days <- MCDays
  Underlying <- MCUnderlying
  Multiplier = 3
  Fees <- MCFees
  Model <- MCModel
  Capital = 20
  MaxTrades <- MCMaxTrades
  MaxQty <- MCMaxQty
  GtcLimits = {2}
  Tick = 2
  CapTicks = 1
  Profile <- MCProfile
  MaxCents = 48
INVARIANTS
  TypeOK
  BooksReconcile
  PnlExplained
  TermsCoverHoldings
CHECK_DEADLOCK FALSE
