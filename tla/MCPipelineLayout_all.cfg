\* Every node_layer_mapping of up to three entries, and two switches.
SPECIFICATION Spec
CONSTANTS
  n1 = n1
  n2 = n2
  n3 = n3
  n4 = n4
  Nodes = {n1, n2, n3, n4}
  FirstNodes = {n1, n2}
  gpus <- NodeGpus
  NoStart = NoStart
  StartRanks = {1}
  TpSizes = {1, 2}
  LayerCounts = {1, 2}
  total_num_layers = 3
  vocab_size = 10
  dim = 4
  VOCAB_PADDING_SIZE = 8
  MaxEntries = 3
  MaxSwitches = 2
INVARIANTS WholeModelLoaded GpusDisjoint RankOnItsStage SwitchComplete
SYMMETRY FirstNodeSymmetry
