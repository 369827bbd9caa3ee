SPECIFICATION Spec
CONSTANTS
  Parts = {"chat"}
  CpSessions = {"s"}
  CpScript <- Script
  CpFirst = "s"
  CpModes = {"queue"}
  CpServerTells = FALSE
  CpActs = 0
  CpErrors = 0
  LvTurns = 1
  LvRelays = {}
  LvFade = FALSE
  LvProbes = 1
  LvRetries = 1
  LvFaults = 0
  LvMoves = 0
  LvHides = 0
PROPERTIES
  IdleOnlyWhenOver
CHECK_DEADLOCK FALSE
