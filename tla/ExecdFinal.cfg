\* Stop at any moment of a restart.
SPECIFICATION Spec
CONSTANTS
  CrashBackoff = 2
  Grace = TRUE
  MaxProcs = 3
  MaxPsErrors = 0
INVARIANT StopIsFinal
CHECK_DEADLOCK FALSE
