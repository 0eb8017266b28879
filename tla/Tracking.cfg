CONSTANTS
  Nobody = Nobody
  Reports <- MCReports
  Batches <- MCBatches
  Lists <- MCLists
  Bindings <- MCBindings
  Window = 1
  MaxFailures = 1
  Deletes = TRUE
  MaxRuns = 1
  Late = FALSE
  MaxMlFailures = 2
  Overtaken = FALSE
  Parts = {"journal", "publisher", "mlflow"}
SPECIFICATION FairSpec
CHECK_DEADLOCK FALSE
INVARIANTS PublishedIsTrue MlflowIsTrue
PROPERTIES JournalIsKept EndsArePublished
