SPECIFICATION ReadSpec
CONSTANTS
  Writers = {w1}
  NumFiles = 3
  MaxCalls = 4
  Overwrites = {TRUE, FALSE}
  Faults = {"stat", "statTemp", "mkTemp", "create", "write", "statStale", "aside", "install",
            "restore", "publish", "rmTemp", "clean", "rmStale", "drop"}
  Crashes = TRUE
INVARIANTS
  TypeOK
  DestWhole
  BundleSurvives
  AnswersTrue
  ManifestImpliesTables
PROPERTIES
  ImplementsStore
