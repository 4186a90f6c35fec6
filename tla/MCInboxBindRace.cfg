CONSTANTS
  c1 = c1
  c2 = c2
  c3 = c3
  NoCall = NoCall
  Calls = {c1, c2, c3}
SPECIFICATION Spec
CHECK_DEADLOCK FALSE
PROPERTIES
  ClearsOnlyDead
