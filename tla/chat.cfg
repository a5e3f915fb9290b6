SPECIFICATION FairSpec
CONSTANTS
  MaxTurns = 2
  MaxPieces = 2
  MaxAsks = 1
  MaxUpsets = 1
  MaxPolls = 1
  None = None
INVARIANTS NoTextLost AnswerShown
PROPERTIES ViewSettles ApprovalReaches
CHECK_DEADLOCK FALSE
