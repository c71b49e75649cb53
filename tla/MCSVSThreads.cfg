\* Two jobs on up to three workers, two changes of the size.
CONSTANTS
  MaxSize = 3
  MaxJobs = 2
  MaxResizes = 2
SPECIFICATION Spec
INVARIANTS
  RentedThreadsExist
  PoolFollowsRequests
PROPERTIES
  JobsEnd
CHECK_DEADLOCK FALSE
