\* A turn that waits for its approval may wait for ever, and the bounds stop the user.
CHECK_DEADLOCK FALSE
SPECIFICATION Spec
CONSTANTS
  StepCap = 2
  MaxCalls = 1
  SteerLimit = 2
  MaxTurns = 2
  MaxRestarts = 1
  None = None
INVARIANTS ReadOnce EventOnce EventKept
