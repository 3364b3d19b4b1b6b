\* One failing call, and nobody changes anything.
SPECIFICATION Spec
CONSTANTS
  a = a
  b = b
  c = c
  Nodes = {a, b, c}
  Specs <- MCSpecs
  FirstSpec <- Public
  Defaults = {d}
  Rules = {r}
  Nil = Nil
  MaxRetries = 1
  MaxChanges = 0
  MaxFailures = 1
INVARIANT InSyncAtRest
CHECK_DEADLOCK FALSE
