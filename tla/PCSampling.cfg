SPECIFICATION FairSpec
CONSTANTS
  Threads = {t1, t2, t3}
  Contexts = {c1}
  Nobody = Nobody
CHECK_DEADLOCK FALSE
INVARIANTS
  TypeOK
  LockOrder
  SomeoneWillStop
  InitializedConsistently
  CollectingMeansActive
PROPERTY SamplingStops
