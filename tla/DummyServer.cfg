SPECIFICATION Spec

CONSTANTS
  NULL = NULL
  j1 = j1
  j2 = j2
  j3 = j3
  j4 = j4
  j5 = j5
  Jobs = {j1, j2, j3, j4, j5}
  RpcTypes = {"Bidirectional", "ClientStreaming", "ServerStreaming", "Unary"}
  Route <- MCRoute
  MaxStale = 1

SYMMETRY JobSymmetry

INVARIANTS
  OneJobAwaitsEachServedKind
  ReplyCountsItsRequests

PROPERTIES
  OnlyDeadCallsLeaveCounts
