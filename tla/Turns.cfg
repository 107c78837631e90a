\* A limit of two iterations and none; two prompts, one retry; two runs and three
\* sessions; three commands of the user, one AbortBash.
SPECIFICATION SpecParts
CONSTANTS
  Limits = {0, 2}
  MaxCalls = 2
  MaxRetries = 1
  Threshold = 2
  MaxRequests = 2
  MaxPrompts = 2
  MaxSessions = 3
  MaxRuns = 2
  MaxOps = 3
  Calls = {b1, b2, b3}
  Aborters = {a1}
  NoCall = NoCall
CHECK_DEADLOCK FALSE
SYMMETRY Symmetry
INVARIANTS  AbortReachesRunning
PROPERTIES  AnsweredUnlessCut AnswersKept EntriesKept
