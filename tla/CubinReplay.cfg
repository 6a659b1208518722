SPECIFICATION FairSpec
CONSTANTS
  Callers = {t1, t2}
  Loaders = {l1}
  Consumers = {k1}
  Modules = {m1, m2}
  Crcs = {c1}
  CrcOf <- OneCubin
  Period = 1
  MaxStall = 1
  NoModule = NoModule
INVARIANTS TypeOK ListMatchesModules
PROPERTY EveryConsumerTold
