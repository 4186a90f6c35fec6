CONSTANTS
  Runs = {r1, r2}
  Pids = {1}
  Commands <- Waiting
  Buffer = 16
SPECIFICATION Spec
CHECK_DEADLOCK FALSE
INVARIANT
  ExitTells
