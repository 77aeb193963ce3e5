\* One or two windows of a task that is being provisioned (run with -continue).
SPECIFICATION SessionsSpec
CONSTANTS
  Conn = {c1, c2}
  Shell = {k1}
  MaxChunks = 1
  MaxStops = 0
INVARIANTS SessionsTypeOK InstructionIsGiven NoFrozenTerminal
CHECK_DEADLOCK FALSE
