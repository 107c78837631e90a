SPECIFICATION Spec
CONSTANTS
  Calls = {b1, b2}
  Aborters = {}
  NoCall = NoCall
  MaxRuns = 0
CHECK_DEADLOCK FALSE
INVARIANT RunningIsReported
