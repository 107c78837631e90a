\* One retry, and a run that may begin while a caller waits for another.
SPECIFICATION FairSpec
CONSTANTS
  Runs = {r1, r2}
  Msgs = {}
  Callers = {c1}
  NoRun = NoRun
  Modes = {"all"}
  Cap = 1
  MaxRetries = 1
INVARIANT WaitCoversCounted
  
