SPECIFICATION Spec
CONSTANTS
  r1 = r1
  Rules <- OneRule
  Period = 1
  DailyPeriod = 2
  DegradeAt = 1
  DisableAt = 2
  MaxAttempts = 1
  Requests <- AllRequests
  MaxNow = 2
  MaxRuns = 2
  MaxCrashes = 1
INVARIANTS SlotsInOrder OutcomesAreKept
PROPERTIES RuleMovesForCause
