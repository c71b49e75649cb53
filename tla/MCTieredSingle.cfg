\* Single value: three labels, three adds, a buffer of two, two workers.
CONSTANTS
  Labels = {l1, l2, l3}
  IsMulti = FALSE
  MaxAdds = 3
  FlatLimit = 2
  Workers = {w1, w2}
  Readers = {}
  Watched = {}
  MainThread = MainThread
  NoThread = NoThread
  NoJob = NoJob
  NoElement = NoElement
  NoBlob = NoBlob
SPECIFICATION Spec
SYMMETRY Symmetry
INVARIANTS
  TypeOK
  JobsMatchFlat
  InvalidJobsTracked
  JobsHeldOnce
  CopyIsCurrent
  LookupMatchesElements
  FlatWithinLimit
PROPERTIES
  ImplementsStore
