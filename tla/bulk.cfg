SPECIFICATION WatchSpec
CONSTANTS
  JobIds = {j1}
  MaxRows = 2
  Templates = {"formal"}
  Texts <- MCTexts
  Seeded = TRUE
  Concurrency = 5
  MaxStalledCount = 1
  Clients = {w1}
  NULL = NULL
INVARIANTS
  TypeOK
  CompletedJobsAreLogged
  CountsAreLogged
  LoggedSuccessWasMailed
  OneMailPerRowPerRun
  FinishedSheets
  OneTemplatePerSheet
  CompletionIsTold
PROPERTIES
  ProgressOnlyForward
  ImplementsSheet
CHECK_DEADLOCK FALSE
VIEW View
