--------------------------- MODULE MCTensorStore ---------------------------
(* Small instances of TensorStore for TLC.                                 *)
EXTENDS TensorStore, TLC

CONSTANTS v1, v2

\* v2 takes over one of the two ranks of v1.
SameRanks == (v1 :> 0) @@ (v2 :> 0)
GpuCounts == (v1 :> 2) @@ (v2 :> 1)

\* v2 uses the GPU beside v1.
NextRank == (v1 :> 0) @@ (v2 :> 1)
OneGpu == (v1 :> 1) @@ (v2 :> 1)
=============================================================================
