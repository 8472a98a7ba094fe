------------------------------ MODULE MCDen2ne ------------------------------
(* Networks for the load exchange.  Ids are the positions in an order of    *)
(* the nodes.                                                               *)
EXTENDS Den2ne

CONSTANTS r, a, b, c

\* A triangle with the root: a and b are siblings that hear each other.
Triangle == {r, a, b}
TriangleNbr == (r :> {a, b}) @@ (a :> {r, b}) @@ (b :> {r, a})

\* A diamond with a cross link and a node at depth two.
Diamond == {r, a, b, c}
DiamondNbr ==
  (r :> {a, b}) @@ (a :> {r, b, c}) @@ (b :> {r, a, c}) @@ (c :> {a, b})

\* A chain: the root learns only what the nodes between pass on.
Chain == {r, a, b}
ChainNbr == (r :> {a}) @@ (a :> {r, b}) @@ (b :> {a})

Ids(nodes) ==
  [n \in nodes |->
     [m \in nodes |-> CASE m = r -> 1 [] m = a -> 2 [] m = b -> 3 [] m = c -> 4]]
TriangleId == Ids(Triangle)
DiamondId == Ids(Diamond)
ChainId == Ids(Chain)

\* With ideal timing and no losses these networks are what the theorems of
\* ConvergenceProofs are about.
ASSUME NetworkIsIdeal == Timely /\ ~Lossy => Ideal
=============================================================================
