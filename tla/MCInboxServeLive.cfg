CONSTANTS
  k1 = k1
  k2 = k2
  Conns = {k1, k2}
  Scripts <- ShortScripts
  Callbacks = {"receipt"}
  Systems = {"linux"}
  FdLimit = 1
  MaxDelay = 2
SPECIFICATION FairSpec
CHECK_DEADLOCK FALSE
PROPERTIES
  HandlersEnd
  SentIsDispatched
  ServeStops
