SPECIFICATION Spec
CONSTANTS
  Parts = {"chat", "stream"}
  CpSessions = {"s", "t"}
  CpScript <- Script
  CpFirst = "s"
  CpModes = {"queue", "interrupt", "steer"}
  CpServerTells = FALSE
  CpActs = 2
  CpErrors = 1
  LvTurns = 1
  LvRelays = {"early end", "cancel"}
  LvFade = TRUE
  LvProbes = 1
  LvRetries = 1
  LvFaults = 1
  LvMoves = 2
  LvHides = 1
INVARIANTS OneSource
PROPERTIES HandedOverIsKept  SendEnds OwnStreamOnly AnswerShown
CHECK_DEADLOCK FALSE
