SPECIFICATION FairSpec
CONSTANTS
  JobIds = {j1, j2}
  MaxRows = 1
  Templates = {}
  Texts <- MCTexts
  Seeded = FALSE
  Concurrency = 1
  MaxStalledCount = 1
  NULL = NULL
PROPERTIES
  UploadsSettle
  UploadsComplete
CHECK_DEADLOCK FALSE
