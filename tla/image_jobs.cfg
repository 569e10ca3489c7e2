SPECIFICATION Spec
CONSTANTS
  Submissions = {s1, s2}
  ClientIds = {i1, i2}
  Callers = {p1, p2}
SYMMETRY ImageSymmetry
INVARIANTS
  TypeOK
  OutcomeLogged
  FailedIsMarked
PROPERTIES
  EndedStands
  ImplementsLifecycle
