---------------------------- MODULE MCNeighbours ----------------------------
(* Model values for the checks of Neighbours.                              *)
EXTENDS Neighbours

CONSTANTS p1, p2, p3
=============================================================================
