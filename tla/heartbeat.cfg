SPECIFICATION FairSpec
CONSTANTS
  Nodes <- Nodes3
  Outputs <- OneOutput
  Graphs <- SmallGraphs
  Targets <- OneOrTwo
  Deadline = 2
  MaxEvents = 2
INVARIANTS
  TypeOK
  SettledOnce
  EarlyEventsMatched
  SkipsHaveReasons
PROPERTIES
  ImplementsDataflow
  RunEnds
