\* The form in which overwriting blobs are stored.
CONSTANTS
  Labels = {1, 2, 3}
  v1 = v1
  v2 = v2
  v3 = v3
  v4 = v4
  v5 = v5
  Vectors <- MCVectors
  BlockSize = 2
SPECIFICATION Spec
SYMMETRY VectorSymmetry
INVARIANTS
  StoredBlobsAreProcessed
