SPECIFICATION Spec
CONSTANTS
  Requests = {q1, q2}
  Depths = {1, 3}
  Budgets = {1, 2, 3, 9}
  Scale = 215040
  Observations = 7
INVARIANTS
  TypeOK
  RoundFits
  Adapts

CHECK_DEADLOCK FALSE
SYMMETRY MCSymmetry
