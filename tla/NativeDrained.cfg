CONSTANTS
  Nobody = Nobody
  Reports = {}
  Batches = {}
  Lists = {}
  Bindings <- OneBinding
  File <- MCFile
  PageUnits = 2
  Invalid = {"bad"}
  MaxEmpty = 1
  MaxFaults = 1
  Machines = {1, 2}
  MaxActive = 1
  HistoryLines = 2
  PageLines = 1
  MostRequeues = 1
  MostStops = 1
SPECIFICATION DrainingSpec
CHECK_DEADLOCK FALSE
INVARIANT DrainedIsLast
