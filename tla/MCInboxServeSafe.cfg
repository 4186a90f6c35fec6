CONSTANTS
  k1 = k1
  k2 = k2
  Conns = {k1, k2}
  Scripts <- TheScripts
  Callbacks = {"receipt", "user"}
  Systems = {"linux", "darwin"}
  FdLimit = 2
  MaxDelay = 3
SPECIFICATION Spec
CHECK_DEADLOCK FALSE
SYMMETRY Symmetric
INVARIANTS
  TypeOK
  NilMeansDispatched
PROPERTIES
  ImplementsMailbox
