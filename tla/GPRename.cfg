\* The load balancer is given another ConfigMap.
SPECIFICATION Spec
CONSTANTS
  own = own
  other = other
  c1 = c1
  c2 = c2
  t1 = t1
  t2 = t2
  NoName = NoName
  Keys = {own}
  Own = own
  Protos = {"tcp"}
  CMNames = {c1, c2}
  Stoppers = {}
  MaxRetries = 1
  MaxLBWrites = 3
  MaxCMWrites = 2
  MaxNotes = 1
SYMMETRY Symmetry
INVARIANT RightConfigMaps
CHECK_DEADLOCK FALSE
