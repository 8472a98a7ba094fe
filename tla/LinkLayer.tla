------------------------------ MODULE LinkLayer ------------------------------
(***************************************************************************)
(* The CSMA output of one node and the frame reception of one of its       *)
(* neighbours, Receiver (input_packet in iotorii-csma.c,                   *)
(* os/net/mac/mac-sequence.c): frames and acknowledgements that are lost,  *)
(* retransmissions, the duplicate filter.  Every neighbour is a Receiver;  *)
(* what one of them hears does not depend on what the others do.           *)
(*                                                                         *)
(* Frames of other senders are not modelled.  What they do to the filter   *)
(* is in ForgetSeqno; that an acknowledgement of theirs, which carries no  *)
(* address, is taken for the awaited one is excluded.                      *)
(***************************************************************************)
EXTENDS CsmaOutput, Sublists

CONSTANTS
  Receiver,
  Forgets    \* TRUE: the entry of the sender may age or be pushed out

ASSUME LinkAssumption ==
  /\ Receiver \in Dests \ {Broadcast}
  /\ Forgets \in BOOLEAN

VARIABLES
  received_seqno,   \* last sequence number the receiver registered of this
                    \* sender, 0 if it has none
  delivered,        \* packets passed to iotorii_operation, in order
  forgetful         \* history: TRUE iff the number was ever forgotten

vars == <<csmaVars, received_seqno, delivered, forgetful>>

Init ==
  /\ CsmaInit
  /\ received_seqno = 0
  /\ delivered = << >>
  /\ forgetful = FALSE

-----------------------------------------------------------------------------
(***************************************************************************)
(* Whether the receiver may hear a transmission to d with this result.  A  *)
(* unicast that was acknowledged was heard; so may have been one with any  *)
(* other result: its acknowledgement may be missing or garbled, and the    *)
(* default case of send_one_packet (ERR) covers a radio that waited for one*)
(* itself in vain.  A broadcast that was not sent (COLLISION) is not heard.*)
(***************************************************************************)
HeardOutcomes(d, result) ==
  CASE d = Receiver /\ result = "OK" -> {TRUE}
    [] d = Receiver /\ result # "OK" -> BOOLEAN
    [] d = Broadcast /\ result # "COLLISION" -> BOOLEAN
    [] OTHER -> {FALSE}

DuplicateIfOlder(s) == s <= received_seqno   \* mutant: numbers only grow

NeverDuplicate(s) == FALSE   \* mutant: no filter

\* mac_sequence_is_duplicate: only the last number of a sender is kept.
IsDuplicate(s) == s = received_seqno

(***************************************************************************)
(* input_packet for a frame that is heard: a duplicate is dropped but      *)
(* acknowledged, anything else is registered and passed on.                *)
(***************************************************************************)
InputPacket(p) ==
  LET s == packets[p].seqno IN
  \/ IsDuplicate(s) /\ UNCHANGED <<received_seqno, delivered>>
  \/ /\ ~IsDuplicate(s)
     /\ received_seqno' = s
     /\ delivered' = Append(delivered, p)

TransmitFrame(d) ==
  /\ \E result \in Results(d) : \E heard \in HeardOutcomes(d, result) :
       /\ Transmit(d, result)
       /\ \/ heard /\ InputPacket(Head(packet_queue[d]))
          \/ ~heard /\ UNCHANGED <<received_seqno, delivered>>
  /\ UNCHANGED forgetful

OutputPacket(d) ==
  /\ Output(d)
  /\ UNCHANGED <<received_seqno, delivered, forgetful>>

\* An entry older than SEQNO_MAX_AGE does not count, and 16 other senders push
\* it out of the table.
ForgetSeqno ==
  /\ Forgets
  /\ received_seqno # 0
  /\ received_seqno' = 0
  /\ forgetful' = TRUE
  /\ UNCHANGED <<csmaVars, delivered>>

Next ==
  \/ \E d \in Dests : OutputPacket(d) \/ TransmitFrame(d)
  \/ ForgetSeqno

\* An armed transmit timer fires.
Fairness == \A d \in Dests : WF_vars(TransmitFrame(d))

Spec == Init /\ [][Next]_vars /\ Fairness

-----------------------------------------------------------------------------
\* Shape of the state.
TypeOK ==
  /\ CsmaTypeOK
  /\ received_seqno \in 0 .. SeqnoRange - 1
  /\ delivered \in Seq(Packet)
  /\ forgetful \in BOOLEAN

Delivered == {delivered[i] : i \in DOMAIN delivered}

\* An acknowledged unicast was passed on by its receiver.  The exception is a
\* wrap of the sequence numbers: a frame that repeats the number of the last
\* one heard is acknowledged and dropped as a duplicate, which takes a
\* multiple of SeqnoRange - 1 packets between the two.
AckedIsDelivered ==
  \A p \in DOMAIN packets :
    packets[p].dest = Receiver /\ answer[p] = "OK" =>
      \/ p \in Delivered
      \/ \E q \in Delivered : q # p /\ (p - q) % (SeqnoRange - 1) = 0

\* A frame is delivered again only after another one of the same sender, a
\* broadcast of its second queue, unless the receiver forgot the number.
RepeatedAfterAnother ==
  ~forgetful =>
    \A i \in 1 .. Len(delivered) - 1 : delivered[i] # delivered[i + 1]

ToReceiver == {p \in DOMAIN packets : packets[p].dest = Receiver}

Channel ==
  INSTANCE UnicastChannel
    WITH Packets <- Packet, queue <- packet_queue[Receiver],
         taken <- Sublist(delivered, ToReceiver)

\* What Den2ne assumes of its unicast messages: lost or repeated, never
\* overtaken, and not delivered any more once they have left the queue.
ImplementsUnicastChannel == Channel!Spec
=============================================================================
