SPECIFICATION Spec
CONSTANTS
  Compacts = {c1}
  Threshold = 2
  RecentKeep = 2
  VolumeKeep = 1
  Steering = TRUE
  None = None
  MaxRows = 5
  MaxId = 7
INVARIANTS GuardsHold
PROPERTIES NoSummaryLost
