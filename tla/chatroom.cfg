CONSTANTS
  MAX_CLIENTS = 2
  NumConns = 3
  MaxMessages = 2

SPECIFICATION Spec
INVARIANTS SlotsConsistent HearsEverything
PROPERTY SlotsAreFreed
CHECK_DEADLOCK FALSE
