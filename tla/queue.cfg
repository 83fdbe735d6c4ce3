CONSTANTS
  p1 = p1
  p2 = p2
  c1 = c1
  c2 = c2
  Pushers <- MCPushers
  Pullers <- MCPullers
  Threads <- MCThreads
  NoThread = NoThread
  Nothing = Nothing
  Quota <- Uneven
  MaxSize = 2
  MaxSpurious = 1

SPECIFICATION Spec
INVARIANTS Consistent NoLostWakeup NoDoubleFree
PROPERTIES LinearizableFIFO Termination
