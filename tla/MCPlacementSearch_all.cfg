SPECIFICATION FairSpec
CONSTANTS
  small = small
  big = big
  InstanceTypes = {small, big}
  Pools <- PoolsDef
  Memories <- MemoriesDef
  Price <- PriceDef
  Rate <- RateDef
  Embedding = 1
  num_layers = 4
  max_stages = 3
  budget = 14
  top_k = 2
  TopN = 2
INVARIANTS CellsSound TopIsBest NodesConserved Deployable
PROPERTIES DriverEnds
