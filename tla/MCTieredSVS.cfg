\* Both kinds of index and both write modes, up to six calls.
CONSTANTS
  a = a
  b = b
  c = c
  Labels <- MCLabels
  TrainingTriggerThreshold = 2
  UpdateTriggerThreshold = 1
  MaxCalls = 6
SPECIFICATION Spec
SYMMETRY LabelSymmetry
INVARIANTS
  NothingIsLost
  DeletedStayDeleted
  JournalIsExact
  FullBufferHasUpdate
  SVSInv
CHECK_DEADLOCK FALSE
