SPECIFICATION Spec
CONSTANTS
  Commitments = {c}
  Incubations = {0, 1}
  Tip = 3
  MaxIns = 2
  MaxOuts = 1
  MaxRollback = 1
INVARIANTS
  SpentRowExists
