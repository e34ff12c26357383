SPECIFICATION Spec
CONSTANTS
  MinCapacity = 2
  Width <- MCWidth
  Choice <- MCChoice
  LayerKind <- MCLayerKind
  FusedAdd <- MCFusedAdd
  MpsMinBatch = 2
  ChunkTokens = 2
  Lanes = {p1, p2}
  Environments <- MCEnvironments
  Tokens = {"a"}
INVARIANTS
  TypeOK
  CacheHoldsSequence
  PassComputesModel
  CommittedStateSafe

SYMMETRY MCSymmetry
