CONSTANTS
  Pids = {1, 2}
  Values = {1}
  NUM_PHYSICAL_PAGES = 5
  MAX_NODES = 3
  MaxCalls = 7

SPECIFICATION Spec
INVARIANT NothingInherited
CHECK_DEADLOCK FALSE
