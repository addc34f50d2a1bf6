SPECIFICATION Spec
CONSTANTS
  r1 = r1
  r2 = r2
  Requests = {r1, r2}
  PerHour = 1
  PerDay = 2
  Hour = 2
  Day = 4
  ReuseTtl = 1
  LastTick = 5
  MaxJobs = 4
  MaxFaults = 1
  Backends = {"postgres", "memory"}
SYMMETRY Symmetric
INVARIANTS
  TypeOK
  DailyLimit
  HourlyLimit
  MemoryRetryAfterHonoured
CHECK_DEADLOCK FALSE
