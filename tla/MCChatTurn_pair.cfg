SPECIFICATION Spec
CONSTANTS
  MaxTurns = 2
  MaxEvents = 1
  EvCap = 1
  ChanCap = 1
  Happens = {"sync", "stale", "crash"}
INVARIANTS
  
  AnswerFollowsQuestion
  
CHECK_DEADLOCK FALSE
