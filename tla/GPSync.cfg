\* One protocol, two ConfigMaps, retries, no shutdown.
SPECIFICATION Spec
CONSTANTS
  own = own
  other = other
  c1 = c1
  c2 = c2
  t1 = t1
  t2 = t2
  NoName = NoName
  Keys = {own, other}
  Own = own
  Protos = {"tcp"}
  CMNames = {c1, c2}
  Stoppers = {}
  MaxRetries = 1
  MaxLBWrites = 2
  MaxCMWrites = 2
  MaxNotes = 2
SYMMETRY Symmetry
INVARIANTS TypeOK QueueConsistent NoLostLBUpdate NoLostCMUpdate
CHECK_DEADLOCK FALSE
