SPECIFICATION FairSpec
CONSTANTS
  r1 = r1
  Rules <- OneRule
  Period = 1
  DailyPeriod = 2
  DegradeAt = 1
  DisableAt = 2
  MaxAttempts = 1
  Requests <- NoRequests
  MaxNow = 1
  MaxRuns = 1
  MaxCrashes = 1
PROPERTIES RunEnds
