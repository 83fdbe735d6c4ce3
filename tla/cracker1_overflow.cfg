CONSTANTS
  Workers = {w1, w2, w3}
  NumTasks = 5
  MaxSize = 7
  Crackable <- OddTasks

SPECIFICATION Spec
PROPERTY Termination
CHECK_DEADLOCK FALSE
