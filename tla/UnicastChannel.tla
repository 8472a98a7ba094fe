--------------------------- MODULE UnicastChannel ---------------------------
(***************************************************************************)
(* What the link layer makes of the unicast frames of one node for one     *)
(* receiver: a queue.  The frame at its head may be taken by the receiver  *)
(* any number of times, none included, before it leaves; no frame          *)
(* overtakes another.  Den2ne uses its unicast messages this way.          *)
(***************************************************************************)
EXTENDS Naturals, Sequences

CONSTANT Packets

VARIABLES queue, taken

vars == <<queue, taken>>

Init == queue = << >> /\ taken = << >>

Send(p) == queue' = Append(queue, p) /\ UNCHANGED taken

Attempt ==
  /\ queue # << >>
  /\ taken' = Append(taken, Head(queue)) \/ UNCHANGED taken
  /\ queue' = Tail(queue) \/ UNCHANGED queue

Next == Attempt \/ \E p \in Packets : Send(p)

Spec == Init /\ [][Next]_vars
=============================================================================
