SPECIFICATION FairSpec
CONSTANTS
  Jobs = {j1, j2}
  Workers = {w1, w2}
  Calls = {c1, c2}
  Max = 2
  MaxFaults = 1
  FaultKinds = {"crash", "lost", "throw", "slow", "again"}
INVARIANTS
  OneUploader
  

  
