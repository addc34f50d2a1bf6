SPECIFICATION Spec
CONSTANTS
  r1 = r1
  r2 = r2
  Requests = {r1}
  PerHour = 2
  PerDay = 3
  Hour = 2
  Day = 4
  ReuseTtl = 1
  LastTick = 5
  MaxJobs = 5
  MaxFaults = 2
  Backends = {"postgres"}
INVARIANTS
  RetryAfterHonoured
CHECK_DEADLOCK FALSE
