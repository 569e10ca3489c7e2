SPECIFICATION FairSpec
CONSTANTS
  Requests = {r1, r2}
  Cron = r1
  Kind = "mediakit"
  MayRestart = FALSE
INVARIANTS
  PendingMediaNamesPlaceholder
  CancellingIsShown
PROPERTIES
  CancellingResolves
  GenerationSettles
