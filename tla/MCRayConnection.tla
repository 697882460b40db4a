--------------------------- MODULE MCRayConnection ---------------------------
(* Small instances of RayConnection for TLC.                               *)
EXTENDS RayConnection, TLC

CONSTANTS p1, p2, n1, n2, n3

\* A pipeline of two nodes and one of a single node.
ThreeNodes == (p1 :> {n1, n2}) @@ (p2 :> {n3})
=============================================================================
