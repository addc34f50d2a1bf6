SPECIFICATION Spec
CONSTANTS
  j1 = j1
  j2 = j2
  api = api
  worker = worker
  Jobs = {j1, j2}
  Procs = {worker}
  Workers = {worker}
  Priority <- SamePriority
  Concurrency = 2
  MaxRetries = 1
  MaxDrains = 2
  MaxClaims = 2
  Backends = {"postgres", "memory"}
  Budget <- AnyOne
SYMMETRY Symmetric
INVARIANTS
  TypeOK
  SlotsCounted
  OvershootBounded
  NoLeakedController
CHECK_DEADLOCK FALSE
