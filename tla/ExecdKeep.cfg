\* keepalived is started with a grace period; one look-up in /proc fails.
SPECIFICATION FairSpec
CONSTANTS
  CrashBackoff = 2
  Grace = TRUE
  MaxProcs = 3
  MaxPsErrors = 1
INVARIANTS TypeOK OneDaemon StopKillsCurrent
PROPERTIES DaemonRestarted KeepaliveEnds
CHECK_DEADLOCK FALSE
