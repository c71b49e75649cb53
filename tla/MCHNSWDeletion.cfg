\* Deletions, repairs and an insert in a single-value index.
CONSTANTS
  Ids = {1, 2, 3, 4}
  MaxLinks = 2
  Workers = {w1, w2}
  Vecs = {1, 2, 3, 4}
  Labels = {1, 2, 3, 4}
  LabelOf <- MCSingleLabels
  Indexed = 3
  Centre = 1
  M = 2
  Threshold = 2
  MaxCalls = 3
  RepairJobs = {1, 2, 3, 4}
SPECIFICATION Spec
SYMMETRY Symmetry
CHECK_DEADLOCK FALSE
INVARIANTS
  GraphIsExact
  PendingIsExact
  RepairJobsFollowNodes
  ReadyIsExact
  DeletedHaveSwapJobs
  EdgesIntoDeletedAreCovered
  DeletionInv
PROPERTIES
  CollectedGainNoEdges
