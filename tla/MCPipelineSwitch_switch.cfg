\* Successive switches, to fresh nodes or back, one of which may fail.
SPECIFICATION FairSpec
CONSTANTS
  n1 = n1
  n2 = n2
  Nodes = {n1, n2, n3, n4}
  InitialNodes <- TwoNodes
  BasePort = 8000
  MaxSwitches = 3
  MaxFailures = 1
INVARIANTS TypeOK StoresBehindServer NothingLeftBehind DeadServerNeedsRetry
PROPERTIES SwitchEnds
