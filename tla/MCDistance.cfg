SPECIFICATION Spec
CONSTANTS
  Cpus <- MCCpus
  Dims <- MCDims
  SharedCopy = FALSE
  SVECopy = "SVE"
  FP16FML = FALSE
INVARIANTS
  EachCoordinateOnce
  ReadsStayInBlob
  
