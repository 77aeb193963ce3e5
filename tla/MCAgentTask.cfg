SPECIFICATION Spec
CONSTANTS
  Weight <- TwoLines
  ExitCodes = {"ok"}
  READ_RETRY_LIMIT = 0
  ResumeOnBoot = TRUE
  MaxCrashes = 1
  MaxCancels = 1
  MaxSubscriptions = 2
INVARIANTS ViewIsExact ResumePointIsExact CancelledIsKilled
PROPERTIES VerdictIsLast
CHECK_DEADLOCK FALSE
