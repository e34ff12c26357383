\* A character split over two tokens: the stream repeats itself.
SPECIFICATION Spec
CONSTANTS
  Tokens <- WideTokens
  EosTokens <- Eos
  Text <- VocabularyText
  Stop = {}
  MaxTokens = 3
INVARIANTS
  StreamOnlyAppends
CHECK_DEADLOCK FALSE
