SPECIFICATION Spec
CONSTANTS
  JobIds = {j1}
  MaxRows = 1
  Templates = {"formal"}
  Texts <- MCTexts
  Seeded = TRUE
  Concurrency = 5
  MaxStalledCount = 1
  NULL = NULL
INVARIANT NoRawPlaceholders
CHECK_DEADLOCK FALSE
