SPECIFICATION FairSpec
CONSTANTS
  j1 = j1
  j2 = j2
  api = api
  worker = worker
  Jobs = {j1, j2}
  Procs = {worker}
  Workers = {worker}
  Priority <- MixedPriority
  Concurrency = 2
  MaxRetries = 1
  MaxDrains = 2
  MaxClaims = 4
  Backends = {"postgres"}
  Budget <- QuietBudget
INVARIANTS
  MutualExclusion
  RunsOwnTheirRow
  NoStrandedJob
  ClaimsAccounted
PROPERTIES
  EndedStaysEnded
  ImplementsLifecycle
  JobsEnd
