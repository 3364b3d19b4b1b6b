\* Two changes of the object or the ConfigMaps; one failing call or one end of the
\* process.
SPECIFICATION FairSpec
CONSTANTS
  a = a
  b = b
  c = c
  Nodes = {a, b, c}
  Specs <- MCSpecs
  FirstSpec <- Public
  Defaults = {d}
  Rules = {r}
  Nil = Nil
  MaxRetries = 1
  MaxChanges = 2
  MaxFailures = 1
INVARIANTS TypeOK AtRestSynced ReleasedClean GroupsClosed
PROPERTIES ReserveRespected EventuallyInSync EventuallyRemoved EventuallyReleased NoCrashLoop
CHECK_DEADLOCK FALSE
