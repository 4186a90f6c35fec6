CONSTANTS
  c1 = c1
  c2 = c2
  c3 = c3
  NoCall = NoCall
  Calls = {c1, c2, c3}
SPECIFICATION FairSpec
CHECK_DEADLOCK FALSE
INVARIANTS
  TypeOK
  UmaskRestored
  NeverLoose
  NothingLeft
  ReachableWhenOpen
  PathFreeAtBind
PROPERTIES
  CallsReturn
