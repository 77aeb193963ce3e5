\* Violated, both: what a crash of the process leaves of a job.
SPECIFICATION Spec
CONSTANTS
  Weight <- TwoLines
  ExitCodes = {"ok"}
  READ_RETRY_LIMIT = 0
  ResumeOnBoot = TRUE
  MaxCrashes = 1
  MaxCancels = 0
  MaxSubscriptions = 0
INVARIANTS
  JobHasRow
  TimedOutIsRecorded
CHECK_DEADLOCK FALSE
