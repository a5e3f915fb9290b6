SPECIFICATION FairSpec
CONSTANTS
  Session = {i1, i2}
  Sock = {s1, s2, s3}
  Policy <- IdlePolicy
  None = None
INVARIANTS HandlesAccounted NoStrayShell
PROPERTIES LostByItsOwnShell WaitersAnswered ForsakenEnds
\* A deleted server is not used again.
CHECK_DEADLOCK FALSE
