\* A node whose local ranks are used by two VNodes, one after the other.
SPECIFICATION FairSpec
CONSTANTS
  v1 = v1
  v2 = v2
  VNodes = {v1, v2}
  start_local_rank <- SameRanks
  tp_size <- GpuCounts
  Parts = {q, k}
  Plain = {}
  Fused = qkv
  NoProc = NoProc
  MaxFailures = 2
INVARIANTS TypeOK ReadyIsWhole OwnAnswers KillNeedsFailure
PROPERTIES SilentAfterShutdown ShutdownEnds WaitEnds
