SPECIFICATION FairSpec
CONSTANTS
  Threads = {t1, t2}
  Nobody = Nobody
  DataBufferPCCount = 3
  PCSampleBatchSize = 2
  MaxRecords = 4
INVARIANTS TypeOK OnceUnlessShared WindowDrained
PROPERTY DrainEnds
CHECK_DEADLOCK FALSE
