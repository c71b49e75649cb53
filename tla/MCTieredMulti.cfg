\* Multi value: three adds, a buffer of two, one worker and one query.
CONSTANTS
  Labels = {l1, l2}
  IsMulti = TRUE
  MaxAdds = 3
  FlatLimit = 2
  Workers = {w1}
  Readers = {r1}
  Watched = {r1}
  MainThread = MainThread
  NoThread = NoThread
  NoJob = NoJob
  NoElement = NoElement
  NoBlob = NoBlob
SPECIFICATION Spec
SYMMETRY Symmetry
INVARIANTS
  JobsMatchFlat
  LookupMatchesElements
  QueriesAreComplete
  QueriesSeeNoDeleted
