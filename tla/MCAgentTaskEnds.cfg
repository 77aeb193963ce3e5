SPECIFICATION FairSpec
CONSTANTS
  Weight <- TwoLines
  ExitCodes = {"ok", "bad", "deadline"}
  READ_RETRY_LIMIT = 1
  ResumeOnBoot = TRUE
  MaxCrashes = 1
  MaxCancels = 0
  MaxSubscriptions = 1
PROPERTIES EndIsSeen
CHECK_DEADLOCK FALSE
