\* Once the project is deleted nothing more can happen, and the bounds stop requests.
CHECK_DEADLOCK FALSE
SPECIFICATION FairSpec
CONSTANTS
  Conv = {c1}
  Cluster = {k1, k2}
  Calls = {w1}
  Writes = {w1}
  Runs = {r1, r2}
  Senders = {s1}
  Approvers = {a1}
  Rebinders = {b1, b2}
  Modes = {"ask"}
  None = None
  MaxGen = 1
  MaxEpoch = 3
  MaxRestarts = 0
PROPERTIES RunningEnds LifecycleHolds
