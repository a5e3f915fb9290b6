SPECIFICATION FairSpec
CONSTANTS
  Job = {j1, j2}
  Talk = {j1}
  Limit = 1
  Chunk = 1
  Cap = 1
  MaxCrashes = 1
  None = None
INVARIANTS ReadsGapless EndIsTheEnd
PROPERTIES SweepsTheDead ClearedAway
CHECK_DEADLOCK FALSE
