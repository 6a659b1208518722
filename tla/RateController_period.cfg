SPECIFICATION Spec
CONSTANTS
  Threads = {t1, t2}
  Word = 16
  Period = 2
  Target = 1
  MaxLevel = 1
  MaxTime = 3
  MaxSamples = 1
CHECK_DEADLOCK FALSE
PROPERTY OneUpdatePerPeriod
