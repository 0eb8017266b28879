CONSTANTS
  Nobody = Nobody
  Reports <- MCReports
  Batches <- MCBatches
  Lists <- MCLists
  Bindings <- MCBindings
  Window = 1
  MaxFailures = 1
  Deletes = TRUE
  MaxRuns = 1
  Late = FALSE
  MaxMlFailures = 2
  Overtaken = TRUE
  Parts = {"publisher"}
SPECIFICATION Spec
CHECK_DEADLOCK FALSE
INVARIANT SavedBehindRow
