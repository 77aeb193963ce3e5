SPECIFICATION SessionsSpec
CONSTANTS
  Conn = {c1, c2}
  Shell = {k1}
  MaxChunks = 2
  MaxStops = 1
INVARIANTS StreamsAreHeld ScreenIsWhole WaitingIsTrue
CHECK_DEADLOCK FALSE
