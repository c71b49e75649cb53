\* No label in both tiers of a single-value index.
CONSTANTS
  Labels = {l1, l2}
  a = a
  b = b
  c = c
  TrainingTriggerThreshold = 1
  UpdateTriggerThreshold = 1
  MaxCalls = 2
SPECIFICATION Spec
INVARIANTS
  NoLabelInBothTiers
CHECK_DEADLOCK FALSE
