SPECIFICATION Spec
CONSTANTS
  Launchers = {t1, t2}
  Envs <- OneOrTwo
  NoRates = NoRates
  MaxCalls = 2
INVARIANTS TypeOK ExitLeavesNothing LastLaunchesReported RatesAsConfigured DefaultsReported
CHECK_DEADLOCK FALSE
SYMMETRY Alike
