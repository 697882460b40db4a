\* stop_nodes, stop_node and create_pipeline beside two requests.
SPECIFICATION Spec
CONSTANTS
  p1 = p1
  p2 = p2
  p3 = p3
  h1 = h1
  h2 = h2
  Requests = {r1, r2}
  Pipelines = {p1, p2, p3}
  Ops = {t1}
  NoPipeline = NoPipeline
  NoLimit = NoLimit
  Hosts = {h1, h2}
  InitialHost <- FirstHosts
  BasePort = 8000
  InitialPipelines <- TwoPipelines
  max_batch_size <- TightBatches
  MaxStops = 2
  MaxSwitches = 0
  MaxFailures = 0
  MaxFaults = 1
INVARIANTS TypeOK AtMostOnce FlyingExact CapacitySlack TasksAreTracked LossNeedsRemoval
  StopsOnlyTargets
PROPERTIES ImplementsService
