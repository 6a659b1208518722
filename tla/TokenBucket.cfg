SPECIFICATION Spec
CONSTANTS
  Second = 3
  Token = 2
  PerTick <- PerTickFast
  MaxTime = 8
CHECK_DEADLOCK FALSE
INVARIANTS
  TypeOK
  RateBound
PROPERTY QuietLaunchAdmitted
