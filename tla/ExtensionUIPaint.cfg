SPECIFICATION FairSpec
CONSTANTS
  Exts = {e1}
  Reqs = {q1}
  Kinds = {"panel"}
  Grants = {}
  None = None
  Cap = 2
  GrantCap = 2
  Depth = 0
CHECK_DEADLOCK FALSE
PROPERTY PaintForgotten
