SPECIFICATION Spec
CONSTANTS
  Exts = {e1, e2}
  Reqs = {q1, q2}
  Kinds = {"ask"}
  Grants = {}
  None = None
  Cap = 2
  GrantCap = 2
  Depth = 0
CHECK_DEADLOCK FALSE
INVARIANT ShownIsAnswered
