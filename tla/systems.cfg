CONSTANTS
  Names = {"a"}
  NameLen <- OneEach
  NumRequests = 3
  PutSizes = {1}
  MaxBody = 1
  INT = 2
  Pids = {1, 2}
  Values = {1}
  NUM_PHYSICAL_PAGES = 5
  MAX_NODES = 3
  MaxCalls = 7
  HeapSize = 11
  Sizes = {0, 2, 3}
  SplitSizes = {2}
  WORD = 64
  MaxHeapCalls = 10
  FileNames = {f1, f2}
  f1 = f1
  f2 = f2
  DATA_NUMBER = 4
  BS = 2
  NUM_DIRECT_INODES = 1
  CHAR = 4
  MaxCount = 3
  MaxFsCalls = 4
  Addresses = {1, 2, 3}
  RequestSizes = {0, 1, 2}
  MaxRequests = 6
  Elements = {"e1", "e2"}
  Default = "default"
  INITIAL_CAPACITY = 2
  MaxVector = 5
SPECIFICATION Spec
INVARIANTS ListMatchesFiles StoredWhole MemoryKept BlocksKept FilesKept ReportExact IsSequence
SYMMETRY AnyFileName
CHECK_DEADLOCK FALSE
