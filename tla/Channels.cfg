\* One request with two retries; a call, a notification and a request of the extension
\* over pipes of one message; two commands of the client, two runs; news of an extension
\* and a grant; two runs of the UI of up to two events, one message.
SPECIFICATION SpecParts
CONSTANTS
  Requests = 1
  MaxRetries = 2
  Cap = 1
  Calls = {"c1", "n1"}
  Notices = {"n1"}
  PipeCap = 1
  MaxAsks = 1
  MaxNoise = 0
  MaxCommands = 2
  MaxRuns = 2
  MaxTokens = 1
  Exts = {e1, e2}
  Reqs = {q1}
  Kinds = {"inform"}
  Grants = {g1}
  None = None
  GrantCap = 1
  Depth = 1
  MaxEvents = 2
  MaxMsgs = 1
  MaxFailures = 1
CHECK_DEADLOCK FALSE
INVARIANT ChatsBounded
PROPERTIES RetriesKept RequestEnds NobodyWaits  AskersReturn ThreadComesBack
