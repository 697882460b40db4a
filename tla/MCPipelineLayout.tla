--------------------------- MODULE MCPipelineLayout --------------------------
(* Small instances of PipelineLayout for TLC.                              *)
EXTENDS PipelineLayout

CONSTANTS n1, n2, n3, n4

\* Two nodes of two GPUs, a larger one and a smaller one.
NodeGpus == n1 :> 2 @@ n2 :> 2 @@ n3 :> 4 @@ n4 :> 1

\* The nodes pipelines are created on are alike.
FirstNodeSymmetry == Permutations({n1, n2})
=============================================================================
