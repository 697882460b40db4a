\* Two VNodes side by side on a node.
SPECIFICATION Spec
CONSTANTS
  v1 = v1
  v2 = v2
  VNodes = {v1, v2}
  start_local_rank <- NextRank
  tp_size <- OneGpu
  Parts = {q, k}
  Plain = {}
  Fused = qkv
  NoProc = NoProc
  MaxFailures = 0
INVARIANTS ReadyIsOwn
