SPECIFICATION LiveSpec
CONSTANTS
  Writers = {w1, w2}
  NumFiles = 2
  MaxCalls = 3
  Overwrites = {TRUE, FALSE}
  Faults = {"stat", "statTemp", "mkTemp", "create", "write", "statStale", "aside", "install",
            "restore", "publish", "rmTemp", "clean", "rmStale", "drop"}
  Crashes = TRUE
PROPERTIES
  CallsReturn
  OverwriteAuthorised
