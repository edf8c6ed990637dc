SPECIFICATION FairSpec

CONSTANTS
  c1 = c1
  c2 = c2
  c3 = c3
  Addresses = {c1, c2, c3}
  Servers = {"math_streaming"}

\* An abort, or a heap full of CallData left behind, is the end.
CHECK_DEADLOCK FALSE

PROPERTIES
  FinishedIsDeallocated
