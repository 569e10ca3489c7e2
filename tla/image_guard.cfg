SPECIFICATION Spec
CONSTANTS
  Submissions = {s1, s2}
  ClientIds = {i1, i2}
  Callers = {p1}
SYMMETRY ImageSymmetry
INVARIANTS
  OneActiveJob
