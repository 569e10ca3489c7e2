SPECIFICATION Spec
CONSTANTS
  Jobs = {j1, j2}
  Workers = {w1, w2}
  Calls = {c1, c2}
  Max = 2
  MaxFaults = 3
  FaultKinds = {"crash", "throw", "again"}
SYMMETRY PoolSymmetry
INVARIANTS
  TypeOK
  HeldIsCounted
