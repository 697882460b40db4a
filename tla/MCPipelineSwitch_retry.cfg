\* A switch after a failed switch.
SPECIFICATION Spec
CONSTANTS
  n1 = n1
  n2 = n2
  Nodes = {n1, n2, n3, n4, n5}
  InitialNodes <- TwoNodes
  BasePort = 8000
  MaxSwitches = 2
  MaxFailures = 1
INVARIANTS NewServerSurvives
