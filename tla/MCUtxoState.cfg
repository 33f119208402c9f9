SPECIFICATION Spec
CONSTANTS
  Commitments = {c, d}
  Incubations = {0}
  Tip = 3
  MaxIns = 2
  MaxOuts = 2
  MaxRollback = 1
INVARIANTS
  TypeOK
  TreeMatchesTable
  RollbackRestores
PROPERTIES
  FailedBlockLeavesNoTrace
SYMMETRY Symmetry
