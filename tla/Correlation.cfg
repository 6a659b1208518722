SPECIFICATION Spec
CONSTANTS
  CycleMod = 4
  MaxAge = 1
  Threads = {t1, t2}
  Workers = {w1}
  PlainIds = {p1}
  GraphIds = {g1}
  MaxKernels = 2
  FlushLimit = 1
  BatchSize = 2
  MaxBuffers = 2
  PcSampling = FALSE
  NoId = NoId
SYMMETRY Symmetry
INVARIANTS
  TypeOK
  CorrelatedBeforeExecuted
  AnnouncedOnce
  PlainMatchedOnce
  BatchesSent
  FlushComes
PROPERTY ImplementsTracker
