\* Two system messages and tools.
SPECIFICATION Spec
CONSTANTS
  Absent = Absent
  MinCells = 2
  MaxCells = 6
  CellSize = 4
  MaxAspect = 5
  Model = "m"
  ApiKey <- Key
  MaxOutput = 8
  Clients <- SystemClient
  Engines <- NativeOnly
  Turns <- AnyTurn
  Raws <- Answered
  MaxTurns = 2
INVARIANTS
  EverySystemPromptHeard
\* A conversation ends.
CHECK_DEADLOCK FALSE
