SPECIFICATION FairSpec
CONSTANTS
  Cluster = {c1, c2}
  First = c1
  r1 = r1  r2 = r2
  Resource = {r1, r2}
  Obj = {o1}
  Queries <- Workloads
  Forbidden = {r2}
  WATCH_MAX_FAILURES = 1
  MaxRv = 2
  MaxUpsets = 1
  MaxStray = 1
  None = None
INVARIANTS NothingSkipped
PROPERTIES Settles Converges
