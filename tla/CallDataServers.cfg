SPECIFICATION FairSpec

CONSTANTS
  c1 = c1
  c2 = c2
  c3 = c3
  Addresses = {c1, c2, c3}
  Servers = {"greeter_async", "math_async", "greeter_streaming_async",
             "greeter_streaming_alarm", "queue_to_front", "queue_to_back",
             "math_streaming"}

\* An abort, or a heap full of CallData left behind, is the end.
CHECK_DEADLOCK FALSE

INVARIANTS
  TagIdentifiesRequest
  OneOperationPerTag
  OneAwaitsTheNextCall
  FinishedAfterAllReplies
  OnlyDeadCallsAreLeftBehind

PROPERTIES
  EveryCallEnds
