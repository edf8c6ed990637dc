SPECIFICATION FairSpec

CONSTANTS
  NULL = NULL
  c1 = c1
  c2 = c2
  Calls = {c1, c2}
  Workloads <- MCWorkloads
  FeatureList <- MCFeatureList
  Words = {"ha", "ho", " "}
  Window = 1
  Echoes = 3
  IntBits = 4

\* When all clients have returned the servers wait for others.
CHECK_DEADLOCK FALSE

INVARIANTS
  AnswersAreRight
  PrintedCountsAreFinal

PROPERTIES
  EveryClientReturns
