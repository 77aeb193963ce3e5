SPECIFICATION Spec
CONSTANTS
  r1 = r1
  Rules <- OneRule
  Period = 1
  DailyPeriod = 2
  DegradeAt = 1
  DisableAt = 2
  MaxAttempts = 0
  Requests <- NoRequests
  MaxNow = 3
  MaxRuns = 3
  MaxCrashes = 0
INVARIANTS OneTaskPerRule
