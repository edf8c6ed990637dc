SPECIFICATION Spec

CONSTANTS
  NULL = NULL
  j1 = j1
  j2 = j2
  j3 = j3
  j4 = j4
  j5 = j5
  Jobs = {j1, j2, j3}
  RpcTypes = {"Bidirectional"}
  Route <- MCRoute1
  FeatureList <- MCFeatureList
  Rectangles <- MCRectangles
  MaxStale = 0

SYMMETRY JobSymmetry

INVARIANTS
  NoDanglingTag
  OneJobAwaitsEachKind
  BooksBalance
