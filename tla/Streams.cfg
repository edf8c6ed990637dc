SPECIFICATION FairSpec

CONSTANTS
  NULL = NULL
  j1 = j1
  j2 = j2
  j3 = j3
  j4 = j4
  j5 = j5
  Jobs = {j1, j2, j3, j4}
  RpcTypes = {"Bidirectional", "ServerStreaming", "Unary"}
  Route <- MCRoute3
  FeatureList <- MCFeatureList
  Rectangles <- MCRectangles
  MaxStale = 0

INVARIANTS
  TypeOK
  CounterCountsOperations
  OperationsExclusive
  WrittenMessageIsQueued
  EchoInOrder
  GetFeatureAnswersItsCall
  ListFeaturesComplete
  ChatFinishedWhenAllEchoed

PROPERTIES
  JobsAreReferenceCounted
  EveryCallEnds
