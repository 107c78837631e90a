\* Two requests of any kind and two grants, of two extensions or of a /reload, two of them
\* at a time, and one overlay that the user opens over others.
SPECIFICATION Spec
CONSTANTS
  Exts = {e1, e2}
  Reqs = {q1, q2}
  Kinds = {"ask", "inform", "panel", "inline"}
  Grants = {g1, g2}
  None = None
  Cap = 1
  GrantCap = 2
  Depth = 1
CHECK_DEADLOCK FALSE
CONSTRAINT Overlapping
SYMMETRY Symmetry
INVARIANTS NothingBuried AnsweredPanelIsClosed GrantsNeedYes
