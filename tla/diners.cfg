CONSTANTS
  NumCompanies = 3
  NumInterns = 3

SPECIFICATION Spec
INVARIANTS Consistent
PROPERTIES BillingCycleEnds EarlyDeadlockReported
CHECK_DEADLOCK FALSE
