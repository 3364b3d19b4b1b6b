SPECIFICATION Spec
CONSTANTS
  k1 = k1
  k2 = k2
  k3 = k3
  Keys = {k1, k2, k3}
  Adjusts <- MCAdjusts
  Macs = {m1, m2}
  Ports = {p1, p2}
  MaxRuns = 2
  MaxUpdates = 2
  MaxFaults = 1
SYMMETRY Symmetric
INVARIANTS TypeOK Restored Traceless NeighborsOverride NeighborsReset
CHECK_DEADLOCK FALSE
