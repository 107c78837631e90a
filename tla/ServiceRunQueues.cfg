\* Two runs, two messages, nobody aborts.
SPECIFICATION Spec
CONSTANTS
  Runs = {r1, r2}
  Msgs = {m1, m2}
  Callers = {}
  NoRun = NoRun
  Modes = {"one-at-a-time", "all"}
  Cap = 1
  MaxRetries = 1
SYMMETRY Symmetry
INVARIANTS SlotConsistent  QueuesAccounted
PROPERTY SlotSpec
