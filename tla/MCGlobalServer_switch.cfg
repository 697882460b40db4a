\* switch_nodes, one of which may fail, and create_pipeline beside two requests.
SPECIFICATION FairSpec
CONSTANTS
  p1 = p1
  p2 = p2
  p3 = p3
  h1 = h1
  h2 = h2
  Requests = {r1, r2}
  Pipelines = {p1, p2}
  Ops = {t1}
  NoPipeline = NoPipeline
  NoLimit = NoLimit
  Hosts = {h1, h2}
  InitialHost <- FirstHosts
  BasePort = 8000
  InitialPipelines <- OnePipeline
  max_batch_size <- TightBatches
  MaxStops = 0
  MaxSwitches = 2
  MaxFailures = 1
  MaxFaults = 0
INVARIANTS ReadyMeansServing
PROPERTIES EventuallyServed
