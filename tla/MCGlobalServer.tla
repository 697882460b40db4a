--------------------------- MODULE MCGlobalServer ---------------------------
(* Small instances of GlobalServer for TLC.                                *)
EXTENDS GlobalServer

CONSTANTS p1, p2, p3, h1, h2

\* Two pipelines when the trace starts; p3 is created later.
TwoPipelines == <<p1, p2>>
\* One pipeline; p2 is created later.
OnePipeline == <<p1>>
\* One request at a time on p2 and p3, so that capacity matters.
TightBatches == [p \in Pipelines |-> IF p = p1 THEN NoLimit ELSE 1]
\* The nodes of the first VNodes.
FirstHosts == [p \in Pipelines |-> IF p = p2 THEN h2 ELSE h1]
=============================================================================
