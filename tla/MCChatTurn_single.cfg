SPECIFICATION FairSpec
CONSTANTS
  MaxTurns = 1
  MaxEvents = 2
  EvCap = 1
  ChanCap = 1
  Happens = {"attach", "detach", "delete", "stale", "crash"}
INVARIANTS
  OneCompletion
  
PROPERTIES
  CancelSettlesTurn
CHECK_DEADLOCK FALSE
