\* Two concurrent callers of Stop.
SPECIFICATION FairSpec
CONSTANTS
  own = own
  other = other
  c1 = c1
  c2 = c2
  t1 = t1
  t2 = t2
  NoName = NoName
  Keys = {own}
  Own = own
  Protos = {"tcp"}
  CMNames = {}
  Stoppers = {t1, t2}
  MaxRetries = 1
  MaxLBWrites = 2
  MaxCMWrites = 0
  MaxNotes = 1
INVARIANTS UpdateAfterStart StopOnce
PROPERTIES StopTerminates EventuallySynced ImplementsContract
