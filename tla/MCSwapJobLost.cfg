\* Vectors 1 and 3 share a label: deletion in place while a swap job is pending.
CONSTANTS
  Ids = {1, 2, 3, 4}
  MaxLinks = 2
  Workers = {w1}
  Vecs = {1, 2, 3, 4}
  Labels = {1, 2, 4}
  LabelOf <- MCSharedLabels
  Indexed = 3
  Centre = 1
  M = 2
  Threshold = 2
  MaxCalls = 2
  RepairJobs = {1, 2, 3, 4, 5, 6}
SPECIFICATION Spec
CHECK_DEADLOCK FALSE
INVARIANTS
  DeletedHaveSwapJobs
