SPECIFICATION Spec
CONSTANTS
  j1 = j1
  j2 = j2
  api = api
  worker = worker
  Jobs = {j1}
  Procs = {api, worker}
  Workers = {worker}
  Priority <- SamePriority
  Concurrency = 1
  MaxRetries = 1
  MaxDrains = 1
  MaxClaims = 2
  Backends = {"postgres"}
  Budget <- AnyTwo
INVARIANTS
  RowsGood
  SnapshotsGood
CHECK_DEADLOCK FALSE
