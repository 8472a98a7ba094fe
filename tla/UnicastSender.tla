---------------------------- MODULE UnicastSender ----------------------------
(***************************************************************************)
(* The sending half of the unicast build (IOTORII_HLMAC_CAST == 0,         *)
(* IOTORII_IPV6 == 0): SetHLMAC, LOAD and SHARE payloads share one list    *)
(* that a timer hands to the CSMA output one by one.  The timer's handler  *)
(* cannot see whether the CSMA output took a packet; it looks whether      *)
(* schedule_transmission has overwritten transmission_delay.               *)
(***************************************************************************)
EXTENDS CsmaOutput

CONSTANT MaxPayloads   \* bound: payloads the handlers produce

VARIABLES
  payload_entry_list,   \* payloads waiting, by number
  send_sethlmac_timer,  \* TRUE iff that ctimer is armed
  dests,                \* history: destination of each payload
  payload_of            \* history: the payload of each packet

vars == <<csmaVars, payload_entry_list, send_sethlmac_timer, dests, payload_of>>

Init ==
  /\ CsmaInit
  /\ payload_entry_list = << >>
  /\ send_sethlmac_timer = FALSE
  /\ dests = << >>
  /\ payload_of = << >>

\* The end of iotorii_send_sethlmac, iotorii_handle_load_timer and
\* iotorii_handle_share_upstream_timer for one receiver.
QueuePayload(d) ==
  /\ Len(dests) < MaxPayloads
  /\ dests' = Append(dests, d)
  /\ payload_entry_list' = Append(payload_entry_list, Len(dests) + 1)
  /\ send_sethlmac_timer' = (send_sethlmac_timer \/ payload_entry_list = << >>)
  /\ UNCHANGED <<csmaVars, payload_of>>

\* Does csma_output_packet schedule a transmission, and with it overwrite
\* transmission_delay?  Only for a packet that is alone in its queue.
Schedules(d) == Accepts(d) /\ packet_queue[d] = << >>

(***************************************************************************)
(* iotorii_handle_send_message_timer: a payload whose delay is still the   *)
(* 1000 it was preset to goes back to the head of the list.                *)
(***************************************************************************)
HandleSendTimer ==
  LET d == dests[Head(payload_entry_list)] IN
  /\ send_sethlmac_timer
  /\ Output(d)
  /\ payload_of' = Append(payload_of, Head(payload_entry_list))
  /\ payload_entry_list' =
       IF Schedules(d) THEN Tail(payload_entry_list) ELSE payload_entry_list
  /\ send_sethlmac_timer' = (payload_entry_list' # << >>)
  /\ UNCHANGED dests

TransmitPacket(d) ==
  /\ \E result \in Results(d) : Transmit(d, result)
  /\ UNCHANGED <<payload_entry_list, send_sethlmac_timer, dests, payload_of>>

Next ==
  \/ HandleSendTimer
  \/ \E d \in Dests : TransmitPacket(d)
  \/ \E d \in Dests \ {Broadcast} : QueuePayload(d)

Spec == Init /\ [][Next]_vars

\* "If the message is not allocated well it is added to the list again": only
\* then.  No payload waits in the list while a packet with it is in a queue of
\* the CSMA output, or was acknowledged.
OnlyRefusedQueuedAgain ==
  \A i \in DOMAIN payload_entry_list : \A p \in DOMAIN payload_of :
    payload_of[p] = payload_entry_list[i] =>
      /\ answer[p] # "OK"
      /\ \A d \in Dests : \A j \in DOMAIN packet_queue[d] : packet_queue[d][j] # p
=============================================================================
