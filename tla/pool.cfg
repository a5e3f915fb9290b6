SPECIFICATION FairSpec
CONSTANTS
  Lane <- TwoLanes
  ExecLane <- AgentLane
  Slot = {1, 2}
  User = {u1, u2}
  None = None
  MaxCred = 2
INVARIANTS RefsCountHolders NoOrphan CurrentUnlessTorn
PROPERTIES HeldIsKept UnusedIsClosed
\* A deleted server is not used again.
CHECK_DEADLOCK FALSE
