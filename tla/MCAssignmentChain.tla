-------------------------- MODULE MCAssignmentChain --------------------------
(* A chain of Depth nodes: the address of a node has an id for each node up *)
(* to the root, so payloads grow along it.  The neighbour nearer to the     *)
(* root was discovered last.                                                *)
EXTENDS Assignment

CONSTANT Depth

MCNodes == 1 .. Depth
MCNbr == [n \in MCNodes |-> {m \in MCNodes : m = n - 1 \/ m = n + 1}]
MCId == [n \in MCNodes |-> [m \in MCNodes |-> IF m > n THEN 1 ELSE 2]]
=============================================================================
