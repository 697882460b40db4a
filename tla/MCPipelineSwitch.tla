-------------------------- MODULE MCPipelineSwitch --------------------------
(* Small instances of PipelineSwitch for TLC.                              *)
EXTENDS PipelineSwitch

CONSTANTS n1, n2

\* A pipeline over two nodes.
TwoNodes == <<n1, n2>>
=============================================================================
