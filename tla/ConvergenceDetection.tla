------------------------ MODULE ConvergenceDetection ------------------------
(***************************************************************************)
(* What the load exchange promises (comment at iotorii-csma.c:1641): a     *)
(* round goes on until every common node has shared its surplus once, only *)
(* then does the root say that it has converged, and no round is begun     *)
(* before.                                                                 *)
(***************************************************************************)
EXTENDS Integers

CONSTANT CommonNodes

VARIABLES round, done, detected

vars == <<round, done, detected>>

Init == round = -1 /\ done = {} /\ detected = FALSE

BeginRound ==
  /\ round = -1 \/ detected
  /\ round' = round + 1
  /\ done' = {}
  /\ detected' = FALSE

ShareSurplus(n) ==
  /\ round >= 0 /\ n \notin done
  /\ done' = done \cup {n}
  /\ UNCHANGED <<round, detected>>

Detect ==
  /\ round >= 0 /\ done = CommonNodes /\ ~detected
  /\ detected' = TRUE
  /\ UNCHANGED <<round, done>>

Next == BeginRound \/ (\E n \in CommonNodes : ShareSurplus(n)) \/ Detect

Spec == Init /\ [][Next]_vars
=============================================================================
