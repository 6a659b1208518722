SPECIFICATION Spec
CONSTANTS
  Callers = {t1}
  Loaders = {l1, l2}
  Consumers = {k1}
  Modules = {m1, m2}
  Crcs = {c1}
  CrcOf <- OneCubin
  Period = 1
  MaxStall = 1
  NoModule = NoModule
INVARIANT LoadedModulesListed
