SPECIFICATION FairSpec
CONSTANTS
  CycleMod = 8
  MaxAge = 3
  Ids = {g1, g2}
  Workers = {w1}
  MaxKernels = 2
INVARIANT TypeOK
PROPERTIES ImplementsQuiet TwoBuffersBeforeRemoval UnseenLeavesOnlyOld DrainedEntriesLeave
