CONSTANTS
  c1 = c1  c2 = c2  a1 = a1  ready = ready  blocked = blocked  j1 = j1  j2 = j2  k1 = k1  k2 = k2
  NoPlan = NoPlan  NoJob = NoJob  Nobody = Nobody
  Callers <- MCCallers
  Actions <- MCActions
  Digests <- MCDigests
  Ready <- MCReady
  Jobs <- MCJobs
  MaxRevision = 5
  Saves <- MCSaves
  Selections = {"outputs", "state", "first"}
  Nil = Nil
  MostParts = 1
  Keys = {1, 2, 3}
  Interval = 1
  LongestWait = 2
  MostFailures = 1
  Rediscovery = 1
  Slots <- MCSlots
  Limits = {1, 2}
  TrainingJob <- MCTraining
  SyncRequests = {"sync"}
  Original <- MCOriginal
  Recovery <- MCRecovery
  Diagnosis <- MCDiagnosis
  ReportParts = {1, 2}
  Clients <- MCClients
  NParts = 2
  Bytes = {"good", "bad"}
  MaxDiscards = 1
  DirectParts = {1}
  Overtaking = FALSE
  CopyRequests = {11, 12}
  Nothing = Nothing
  Pieces = 2
  Collectors = {1, 2}
  Readers = {1}
  MaxAttempts = 3
  RetryRequests = {"x", "y"}
  Reconcilers = {1, 2}
  MaxBuilds = 2
  Workers = {1, 2}
  Advancers = {1, 2}
  Tries = 3
  Starts = {"start", "checkpoint"}
  Children = 2
  Cap = 1
  Renewals = 1
  Tables <- MCTables
  Requests <- MCRequests
  Terminals = {1, 2}
  Objects = {1, 2}
  Writers = {1, 2}
  Publications = {{}, {1}, {1, 2}}
  MaxCrashes = 1
  Listed = 3
  FileLimits = {2, 4}
  MostRows = 1
  LastPath = 5
  Parent <- MCParent
  Policies = {{}, {5}, {4}}
  Trees <- MCTrees
  MaxChanges = 2
  Generations = {1}
  Names = {"a", "b"}
  MaxWrites = 3
  MaxMarks = 2
  MaxRestarts = 1
  Nodes = {1, 2}
  MaxStops = 1
  LogLimits = {8, 11, 13}
  SeamBytes = 2
  MaxOutput = 26
  MaxWritten = 2
  Projects = {1, 2}
  Changers = {1, 2}
  EffectSlots = {1, 2}
  MaxFailures = 1
  RegistryStops = 1
  Operations <- MCChanges
  Uploads = {1, 2}
  Archives <- MCArchives
  MaxEdits = 3
  MaxStoreFaults = 1
SPECIFICATION BatchSpec
CHECK_DEADLOCK FALSE
INVARIANT ExpiredTakesNoSlot
