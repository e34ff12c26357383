\* Four tokens per answer, streamed or not: stop sequences over several tokens
\* and inside of one, characters split over two.
SPECIFICATION Spec
CONSTANTS
  Tokens <- ByteLevelTokens
  EosTokens <- Eos
  Text <- VocabularyText
  Stop <- Stops
  MaxTokens = 4
INVARIANTS
  NoStopInAnswer
  StreamIsAnswer
\* An answer ends.
CHECK_DEADLOCK FALSE
