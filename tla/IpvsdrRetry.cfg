\* One call fails; nobody writes the specification or the ConfigMaps.
SPECIFICATION FairSpec
CONSTANTS
  Nodes = {1, 2}
  Ifaces <- MCIfaces
  NodeIP <- MCNodeIP
  Labels <- MCLabels
  FirstV6 = 100
  Nil = Nil
  Specs <- MCSpecs
  FirstSpec <- Full
  MaxRetries = 1
  MaxSpecWrites = 0
  MaxCM = 0
  MaxFaults = 1
  MaxTotal = 2
PROPERTY RegistrationRetried
CHECK_DEADLOCK FALSE
