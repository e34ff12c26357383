\* Tool-call markup the parser cannot read is text for the client.
SPECIFICATION Spec
CONSTANTS
  Answers <- AnyAnswer
  Protocols = {"openai", "anthropic"}
  Pieces = {1, 2}
INVARIANT MarkupHidden
\* A stream ends.
CHECK_DEADLOCK FALSE
