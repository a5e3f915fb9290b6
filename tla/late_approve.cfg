SPECIFICATION Spec
CONSTANTS
  Conv = {c1}
  Cluster = {k1}
  Calls = {w1, w2}
  Writes = {w1, w2}
  Runs = {r1, r2}
  Senders = {s1}
  Approvers = {a1, a2}
  Rebinders = {}
  Modes = {"ask"}
  None = None
  MaxGen = 1
  MaxEpoch = 3
  MaxRestarts = 0
INVARIANT ApprovedWhatWasShown
CHECK_DEADLOCK FALSE
