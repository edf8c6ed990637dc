SPECIFICATION FairSpec

CONSTANTS
  NULL = NULL
  j1 = j1
  j2 = j2
  j3 = j3
  j4 = j4
  j5 = j5
  Jobs = {j1, j2}
  RpcTypes = {"ClientStreaming"}
  Route <- MCRoute2
  FeatureList <- MCFeatureList
  Rectangles <- MCRectangles
  MaxStale = 2

INVARIANTS
  SummaryCoversItsRoute

PROPERTIES
  OnlyDeadCallsLeaveState
  EveryCallEnds
