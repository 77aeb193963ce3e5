SPECIFICATION Spec
CONSTANTS
  r1 = r1
  Rules <- OneRule
  Period = 1
  DailyPeriod = 2
  DegradeAt = 1
  DisableAt = 2
  MaxAttempts = 1
  Requests <- Toggles
  MaxNow = 2
  MaxRuns = 2
  MaxCrashes = 0
PROPERTIES DisabledStaysDisabled
