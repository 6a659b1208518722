SPECIFICATION Spec
CONSTANTS
  Threads = {t1, t2}
  Word = 16
  Period = 2
  Target = 1
  MaxLevel = 1
  MaxTime = 6
  MaxSamples = 2
SYMMETRY Symmetry
CHECK_DEADLOCK FALSE
INVARIANTS
  TypeOK
PROPERTIES EarlyOnlyIfOvertaken DeltaIsNewSamples
