CONSTANTS
  q1 = q1
  q2 = q2
  q3 = q3
  Pids = {q1, q2, q3}
  MaxStart = 2
  NoKey = NoKey
SPECIFICATION Spec
SYMMETRY Symmetric
CHECK_DEADLOCK FALSE
INVARIANTS
  TypeOK
  SteadyTokenSent
  DeadTokenNotSent
