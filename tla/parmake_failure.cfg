CONSTANTS
  Threads = {w1, w2}
  NoThread = NoThread
  NoRule = NoRule
  MaxSize = 0
  MaxSpurious = 0
  NumRules = 3
  MaxEdges = 1
  MaxGoals = 1
  FileRules = {}

SPECIFICATION SafeSpec
INVARIANT NoRunAfterFailure
