SPECIFICATION Spec
CONSTANTS
  Requests = {r1, r2}
  Cron = r1
  Kind = "mediakit"
  MayRestart = TRUE
SYMMETRY RequestSymmetry
INVARIANTS
  TypeOK
  JobInvariant
  PersistableHasMedia
  FinalMediaIffSucceeded
  WorkerHoldsServerUpload
PROPERTIES
  ImplementsLifecycle
