SPECIFICATION Spec
CONSTANTS
  Requests = {r1, r2}
  Cron = r1
  Kind = "mediakit"
  MayRestart = FALSE
SYMMETRY RequestSymmetry
INVARIANTS
  SucceededMediaInCatalog
