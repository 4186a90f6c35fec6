CONSTANTS
  p1 = p1
  p2 = p2
  s1 = s1
  s2 = s2
  n1 = n1
  None = None
  Pids = {p1}
  SessionIds = {s1, s2}
  Names = {n1}
  Presets = {None}
  MaxStart = 2
SPECIFICATION Spec
CHECK_DEADLOCK FALSE
INVARIANTS
  TokenBarsRecycled
