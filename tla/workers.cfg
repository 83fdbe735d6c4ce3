CONSTANTS
  Threads = {w1, w2, w3}
  NumTasks = 4
  Crackable <- OddTasks
  MaxSize = 7
  NumWorkers = 3
  NumUsers = 3
  NoSecret = NoSecret
  IntLimit = 4
  Candidates <- MCCandidates
  Secret <- MCSecret
  mapper_count = 2
  MaxLength = 3
  PipeSize = 1

SPECIFICATION AllSpec
INVARIANTS EveryTaskOnce Consistent SummaryRight EveryLineOnce
PROPERTIES BothEnd NobodyHangs
