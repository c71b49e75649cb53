\* Liveness: one label, two adds, a buffer of one, a worker and two queries of
\* which one is watched.
CONSTANTS
  Labels = {l1}
  IsMulti = FALSE
  MaxAdds = 2
  FlatLimit = 1
  Workers = {w1}
  Readers = {r1, r2}
  Watched = {r1}
  MainThread = MainThread
  NoThread = NoThread
  NoJob = NoJob
  NoElement = NoElement
  NoBlob = NoBlob
SPECIFICATION FairSpec
INVARIANTS
  CallerInv
PROPERTIES
  JobsComplete
  CallsReturn
