SPECIFICATION Spec
CONSTANTS
  Threads = {t1, t2}
  Contexts = {c1, c2}
  Nobody = Nobody
SYMMETRY Symmetry
CHECK_DEADLOCK FALSE
INVARIANT OneContextSampling
