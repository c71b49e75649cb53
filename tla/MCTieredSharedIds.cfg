\* The assumption of the single-value merge.
CONSTANTS
  Labels = {l1, l2}
  IsMulti = FALSE
  MaxAdds = 3
  FlatLimit = 2
  Workers = {w1}
  Readers = {r1}
  Watched = {r1}
  MainThread = MainThread
  NoThread = NoThread
  NoJob = NoJob
  NoElement = NoElement
  NoBlob = NoBlob
SPECIFICATION Spec
SYMMETRY Symmetry
INVARIANTS
  SharedIdsHaveSameScore
