\* Two groups, one port besides the default ones, and priorities for the owner's
\* rule and three others, so that they can be used up.
SPECIFICATION Spec
CONSTANTS
  Groups = {g1, g2}
  Exported = {53}
  PriorityStart = 1
  PriorityStep = 2
  PriorityMax = 7
  NoGroup = NoGroup
  MaxCalls = 2
  MaxEdits = 1
INVARIANTS TypeOK UniquePriorities OwnerRulesKept SingleGroupSynced
CHECK_DEADLOCK FALSE
