\* Once the project is deleted nothing more can happen, and the bounds stop requests.
CHECK_DEADLOCK FALSE
SPECIFICATION Spec
CONSTANTS
  Conv = {c1}
  Cluster = {k1}
  Calls = {t1}
  Writes = {}
  Runs = {r1, r2}
  Senders = {s1, s2}
  Approvers = {}
  Rebinders = {}
  Modes = {"ask"}
  None = None
  MaxGen = 3
  MaxEpoch = 3
  MaxRestarts = 1
SYMMETRY Symmetry
INVARIANTS RunningHasItsRun StaleRunsAreAborted TurnIsItsOwn
PROPERTIES SupersededIsSilent CancelSticks
