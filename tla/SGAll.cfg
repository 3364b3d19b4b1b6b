\* Two calls for the same two groups, which nobody edits.
SPECIFICATION Spec
CONSTANTS
  Groups = {g1, g2}
  Exported = {53}
  PriorityStart = 1
  PriorityStep = 2
  PriorityMax = 7
  NoGroup = NoGroup
  MaxCalls = 2
  MaxEdits = 0
INVARIANT AllGroupsSynced
CHECK_DEADLOCK FALSE
