SPECIFICATION FairSpec

CONSTANTS
  t1 = t1
  t2 = t2
  t3 = t3
  Tags = {t1, t2, t3}

INVARIANTS
  MutualExclusion
  HandedOverInOrder

PROPERTIES
  ImplementsQueue
  EveryTagHandled
