\* Both protocols, every short answer, every way to cut it into pieces.
SPECIFICATION Spec
CONSTANTS
  Answers <- AnyAnswer
  Protocols = {"openai", "anthropic"}
  Pieces = {1, 2}
INVARIANTS
  WellFramed
  Honest
  NothingWithheld
  PiecesDoNotMatter
  StreamedAsAnswered
\* A stream ends.
CHECK_DEADLOCK FALSE
