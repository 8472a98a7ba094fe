---------------------------- MODULE MCAssignment ----------------------------
(* A diamond with a cross link: the root sees a and b, which see each other *)
(* and c.  Ids are the positions in an order of the neighbours.             *)
EXTENDS Assignment, TLC

CONSTANTS r, a, b, c

MCNodes == {r, a, b, c}
MCNbr == (r :> {a, b}) @@ (a :> {r, b, c}) @@ (b :> {r, a, c}) @@ (c :> {a, b})
MCId == [n \in MCNodes |->
           (r :> 1) @@ (a :> 2) @@ (b :> 3) @@ (c :> 4)]
=============================================================================
