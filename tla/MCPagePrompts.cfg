SPECIFICATION Spec
CONSTANTS
  ApSessions = {"s", "t"}
  ApApprovals = {"q1", "q2"}
  ApScript <- InTurn
  ApSession <- OfOne
  ApFirst = "s"
  ApActs = 2
  ApLosses = 1
  ClSessions = {"s", "t"}
  ClQuestions = {"q1", "q2"}
  ClScript <- InTurn
  ClSession <- OfOne
  ClFirst = "s"
  ClActs = 2
  ClLosses = 1
INVARIANTS
  CardsOfView
PROPERTIES
  AnswersKeepNewer
  PromptsShown
  
  ControlsReturn
CHECK_DEADLOCK FALSE
