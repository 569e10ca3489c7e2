SPECIFICATION FairSpec
CONSTANTS
  Tabs = {t1}
  MaxInvocations = 2
  MaxTokens = 2
  MaxSteps = 2
  MaxAttempts = 2
  MaxTroubles = 2
  MaxStops = 1
INVARIANTS
  TypeOK
  ViewFollows
  OneOutcome
  StopStands
  AnswerIsOwn
PROPERTIES
  RunEnds
CHECK_DEADLOCK FALSE
