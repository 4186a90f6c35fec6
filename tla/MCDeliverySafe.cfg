CONSTANTS
  p1 = p1
  p2 = p2
  s1 = s1
  s2 = s2
  n1 = n1
  None = None
  Pids = {p1, p2}
  SessionIds = {s1, s2}
  Names = {n1}
  Presets = {None, s1, s2}
  MaxStart = 2
SPECIFICATION Spec
CHECK_DEADLOCK FALSE
SYMMETRY Symmetric
INVARIANTS
  TypeOK
  NoMisdelivery
  NoMisrename
  SteadyWins
  SteadyListed
  SteadyAccepts
  TokenSurvivesClear
PROPERTIES
  ImplementsLookup
