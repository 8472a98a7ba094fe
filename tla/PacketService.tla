---------------------------- MODULE PacketService ----------------------------
(***************************************************************************)
(* What csma_output_packet promises its callers: every packet handed to it *)
(* is answered by exactly one callback, a refused one at once, an accepted *)
(* one when its turn has come among the packets to the same destination.   *)
(***************************************************************************)
EXTENDS Naturals, Sequences

CONSTANTS Dests, Packets, NoAnswer, Statuses, Refusal

VARIABLES pending, answer

vars == <<pending, answer>>

Init ==
  /\ pending = [d \in Dests |-> << >>]
  /\ answer = [p \in Packets |-> NoAnswer]

IsNew(p) ==
  answer[p] = NoAnswer /\ \A d \in Dests : \A i \in DOMAIN pending[d] : pending[d][i] # p

Accept(p, d) ==
  /\ IsNew(p)
  /\ pending' = [pending EXCEPT ![d] = Append(@, p)]
  /\ UNCHANGED answer

Refuse(p) ==
  /\ IsNew(p)
  /\ answer' = [answer EXCEPT ![p] = Refusal]
  /\ UNCHANGED pending

Answer(d) ==
  /\ pending[d] # << >>
  /\ \E status \in Statuses :
       answer' = [answer EXCEPT ![Head(pending[d])] = status]
  /\ pending' = [pending EXCEPT ![d] = Tail(@)]

Next ==
  \/ \E p \in Packets : Refuse(p) \/ \E d \in Dests : Accept(p, d)
  \/ \E d \in Dests : Answer(d)

\* Nobody waits for a callback for ever.
Spec == Init /\ [][Next]_vars /\ \A d \in Dests : WF_vars(Answer(d))
=============================================================================
