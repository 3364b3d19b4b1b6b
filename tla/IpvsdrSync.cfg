\* Two nodes; at most two of: a change of the specification, a change of the ConfigMaps, a
\* failing call.
SPECIFICATION FairSpec
CONSTANTS
  Nodes = {1, 2}
  Ifaces <- MCIfaces
  NodeIP <- MCNodeIP
  Labels <- MCLabels
  FirstV6 = 100
  Nil = Nil
  Specs <- MCSpecs
  FirstSpec <- Full
  MaxRetries = 1
  MaxSpecWrites = 1
  MaxCM = 1
  MaxFaults = 1
  MaxTotal = 2
INVARIANTS TypeOK ConfigCurrent PeersAgree DistinctRouters
PROPERTIES OthersUntouched AllRegistered
CHECK_DEADLOCK FALSE
