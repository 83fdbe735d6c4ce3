CONSTANTS
  Schemes = {"RR"}
  NumJobs = 4
  MaxBurst = 3
  Starts = {0, 7}
  gtmain = gtmain

SPECIFICATION Spec
INVARIANT NobodyLeftBehind
