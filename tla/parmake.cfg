CONSTANTS
  Threads = {w1, w2}
  NoThread = NoThread
  NoRule = NoRule
  MaxSize = 0
  MaxSpurious = 1
  NumRules = 3
  MaxEdges = 3
  MaxGoals = 1
  FileRules = {2}

SPECIFICATION Spec
INVARIANTS Consistent SearchRight DependenciesFirst StagesInOrder
PROPERTY Termination
