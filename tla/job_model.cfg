SPECIFICATION Spec
CONSTANTS
  Requests = {r1, r2}
  Cron = r1
  Kind = "model"
  MayRestart = FALSE
SYMMETRY RequestSymmetry
INVARIANTS
  SettledInvocation
  DeletedTaskSettles
  DeletedTaskNotPersisted
  CancelledAnswerIsFinal
