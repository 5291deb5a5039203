SPECIFICATION Spec
CONSTANTS
  Rejected = Rejected
  DayLength = 1
  Tickers = {"SPX"}
  Absent = Absent
  Subdir = Subdir
  Kind <- MCKind
  Names = {1, 2, 3}
  Bytes <- MCBytes
  Declared <- MCDeclared
  Decoded <- MCDecoded
  InPlace = {"csv"}
  MaxWrites = 3
  Walks <- MCWalks
  Servers = {"seeded", "clamps", "old"}
  Instrument <- MCInstrument
  QuoteSize = 1
  MaxSteps = 2
  MaxContracts = 3
  MaxFileBytes = 4
  MaxDecompressed = 4
  MaxTotal = 6
INVARIANTS
  TapeIsValid
  Reproduces
  PlaysTape
CHECK_DEADLOCK FALSE
