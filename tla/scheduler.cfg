CONSTANTS
  Schemes = {"FCFS", "SJF", "RR"}
  NumJobs = 4
  MaxBurst = 3
  Starts = {0, 7}
  gtmain = gtmain

SPECIFICATION Spec
INVARIANTS Consistent ShortestFirstIsBest
PROPERTIES EndsInOrder AllJobsEnd
