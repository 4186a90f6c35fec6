CONSTANTS
  Runs = {r1, r2}
  Pids = {1, 2}
  Commands <- TheCommands
  Buffer = 16
SPECIFICATION FairSpec
CHECK_DEADLOCK FALSE
INVARIANTS
  
  NoDecisionMissed
PROPERTY
  WaitEnds
