\* Both protocols, every fault of a request, two turns.
SPECIFICATION Spec
CONSTANTS
  Absent = Absent
  MinCells = 2
  MaxCells = 6
  CellSize = 4
  MaxAspect = 5
  Model = "m"
  ApiKey <- Key
  MaxOutput = 8
  Clients <- AnyClient
  Engines <- AnyEngine
  Turns <- AnyTurn
  Raws <- Answered
  MaxTurns = 2
INVARIANTS
  TypeOK
  NextPromptExtends
  AnswersRemembered
  ProtocolsAgree
  AcceptedIsServed
  ConversationContinues
  PositionsIncrease
\* A conversation ends.
CHECK_DEADLOCK FALSE
