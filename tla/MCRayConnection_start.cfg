\* Two pipelines are created and switched, also at once.
SPECIFICATION FairSpec
CONSTANTS
  p1 = p1
  p2 = p2
  n1 = n1
  n2 = n2
  n3 = n3
  Pipelines = {p1, p2}
  Nodes = {n1, n2, n3, n4, n5}
  InitialNodes <- ThreeNodes
  NoPort = NoPort
  MaxSwitches = 2
  MaxFailures = 1
INVARIANTS JoinedUnlessMixed FreshCluster
PROPERTIES StartEnds
