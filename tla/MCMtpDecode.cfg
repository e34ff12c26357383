\* One or two drafts per round, in every mode of verification.
SPECIFICATION Spec
CONSTANTS
  Tokens <- Vocabulary
  EosTokens <- Eos
  Text <- VocabularyText
  Stop <- Stops
  MaxTokens = 5
  MaxDraft = 2
  Modes = {"default", "snapshots", "fused", "replay"}
INVARIANTS
  TypeOK
  TargetInStep
  AdapterInStep
  SeedCanAdvance
PROPERTIES
  DecodesGreedily
  RoundsTerminate
