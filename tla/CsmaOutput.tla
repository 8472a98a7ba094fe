----------------------------- MODULE CsmaOutput -----------------------------
(***************************************************************************)
(* CSMA output of one node (csma-output.c): a queue of packets for every   *)
(* destination that has any, one transmit timer per queue, and the memory  *)
(* pools all queues share.                                                 *)
(*                                                                         *)
(* What the radio makes of a transmission is its result, chosen freely;    *)
(* delays are left out: an armed timer may fire at any time.               *)
(***************************************************************************)
EXTENDS Integers, Sequences, FiniteSets

CONSTANTS
  Dests,                  \* receivers, and the broadcast address
  Broadcast,
  MaxNeighborQueues,      \* CSMA_MAX_NEIGHBOR_QUEUES, 2
  MaxPacketsPerNeighbor,  \* CSMA_MAX_PACKET_PER_NEIGHBOR, 8
  MaxQueuedPackets,       \* MAX_QUEUED_PACKETS, 8: size of packet_memb and
                          \* metadata_memb
  QueuebufNum,            \* queuebufs, 8, less those held by other modules
  MaxTransmissions,       \* CSMA_MAX_FRAME_RETRIES + 1, 8
  MaxBackoff,             \* CSMA_MAX_BACKOFF, 5
  SeqnoRange,             \* number of values of the uint8_t seqno, 256
  MaxPackets              \* bound: packets handed to csma_output_packet

ASSUME CsmaAssumption ==
  /\ IsFiniteSet(Dests) /\ Broadcast \in Dests
  /\ MaxNeighborQueues \in Nat /\ MaxQueuedPackets \in Nat /\ QueuebufNum \in Nat
  /\ MaxPacketsPerNeighbor \in Nat \ {0}
  /\ MaxTransmissions \in Nat \ {0}
  /\ MaxBackoff \in Nat
  /\ SeqnoRange \in Nat \ {0, 1}
  /\ MaxPackets \in Nat

VARIABLES
  neighbour_list,   \* destinations that have a queue
  packet_queue,     \* [d]: packets waiting, by number
  transmissions,    \* [d]: attempts made for the head of the queue
  collisions,       \* [d]: collisions since the last attempt
  transmit_timer,   \* [d]: TRUE iff the ctimer is armed
  numfree,          \* free blocks of each memory pool
  seqno,            \* the next sequence number
  packets,          \* history: destination and sequence number of each packet
  answer            \* [packet]: status given to its callback

csmaVars ==
  <<neighbour_list, packet_queue, transmissions, collisions, transmit_timer,
    numfree, seqno, packets, answer>>

Packet == 1 .. MaxPackets
Status == {"OK", "NOACK", "COLLISION", "ERR"}

\* seqno starts at random.  A queue that does not exist has no packets and
\* zero counters, the values csma_output_packet sets when it makes one.
CsmaInit ==
  /\ neighbour_list = {}
  /\ packet_queue = [d \in Dests |-> << >>]
  /\ transmissions = [d \in Dests |-> 0]
  /\ collisions = [d \in Dests |-> 0]
  /\ transmit_timer = [d \in Dests |-> FALSE]
  /\ numfree = [neighbor |-> MaxNeighborQueues, packet |-> MaxQueuedPackets,
                metadata |-> MaxQueuedPackets, queuebuf |-> QueuebufNum]
  /\ seqno \in 0 .. SeqnoRange - 1
  /\ packets = << >>
  /\ answer = [p \in Packet |-> "none"]

-----------------------------------------------------------------------------
SeqnoUnskipped == seqno   \* mutant: 0 is used like the others

\* The sequence number of the next packet: 0 is skipped.
CurrentSeqno == IF seqno = 0 THEN 1 ELSE seqno

\* Every call takes a number, also one that is refused in the end.
NumberPacket(d) ==
  /\ Len(packets) < MaxPackets
  /\ packets' = Append(packets, [dest |-> d, seqno |-> CurrentSeqno])
  /\ seqno' = (CurrentSeqno + 1) % SeqnoRange

HasQueue(d) == d \in neighbour_list \/ numfree.neighbor > 0

Accepts(d) ==
  /\ HasQueue(d)
  /\ Len(packet_queue[d]) < MaxPacketsPerNeighbor
  /\ numfree.packet > 0 /\ numfree.metadata > 0 /\ numfree.queuebuf > 0

NumfreeAfterAccept(d) ==
  [neighbor |-> numfree.neighbor - (IF d \in neighbour_list THEN 0 ELSE 1),
   packet |-> numfree.packet - 1, metadata |-> numfree.metadata - 1,
   queuebuf |-> numfree.queuebuf - 1]

Overtaking(d, p) == <<p>> \o packet_queue[d]   \* mutant: list_push for list_add

Enqueued(d, p) == Append(packet_queue[d], p)

(***************************************************************************)
(* csma_output_packet, the way to list_add: the first packet of a queue    *)
(* arms its timer, the others wait.                                        *)
(***************************************************************************)
AcceptPacket(d) ==
  /\ Accepts(d)
  /\ NumberPacket(d)
  /\ numfree' = NumfreeAfterAccept(d)
  /\ neighbour_list' = neighbour_list \cup {d}
  /\ packet_queue' = [packet_queue EXCEPT ![d] = Enqueued(d, Len(packets) + 1)]
  /\ transmit_timer' = [transmit_timer EXCEPT ![d] = @ \/ packet_queue[d] = << >>]
  /\ UNCHANGED <<transmissions, collisions, answer>>

RollBackForgotten(d) ==   \* mutant: the new queue is not taken back
  /\ neighbour_list' = IF HasQueue(d) THEN neighbour_list \cup {d} ELSE neighbour_list
  /\ numfree' = [numfree EXCEPT !.neighbor =
       IF HasQueue(d) /\ d \notin neighbour_list THEN @ - 1 ELSE @]

\* What a refused packet leaves behind: its own blocks are given back, and
\* the queue, just made or not, if it is empty.
RollBack(d) ==
  LET removed == d \in neighbour_list /\ packet_queue[d] = << >> IN
  /\ neighbour_list' = neighbour_list \ (IF removed THEN {d} ELSE {})
  /\ numfree' = [numfree EXCEPT !.neighbor = IF removed THEN @ + 1 ELSE @]

(***************************************************************************)
(* The other ways through it: no queue, a full one, or one of three        *)
(* allocations fails.  The callback is called at once.                     *)
(***************************************************************************)
RefusePacket(d) ==
  /\ ~Accepts(d)
  /\ NumberPacket(d)
  /\ RollBack(d)
  /\ answer' = [answer EXCEPT ![Len(packets) + 1] = "ERR"]
  /\ UNCHANGED <<packet_queue, transmissions, collisions, transmit_timer>>

Output(d) == AcceptPacket(d) \/ RefusePacket(d)

-----------------------------------------------------------------------------
\* What send_one_packet may report: a broadcast is not acknowledged.
Results(d) == IF d = Broadcast THEN {"OK", "COLLISION", "ERR"} ELSE Status

AttemptsUncollided(d, result) ==   \* mutant: a channel that stays busy costs nothing
  transmissions[d] + (IF result \in {"OK", "NOACK"} THEN 1 ELSE 0)

\* Attempts after the result: more than MaxBackoff collisions count as one.
AttemptsAfter(d, result) ==
  transmissions[d] +
    (IF \/ result \in {"OK", "NOACK"}
        \/ result = "COLLISION" /\ collisions[d] >= MaxBackoff
     THEN 1 ELSE 0)

CollisionsAfter(d, result) ==
  IF result = "COLLISION" /\ collisions[d] < MaxBackoff
  THEN collisions[d] + 1 ELSE 0

Finishes(d, result) ==
  \/ result \in {"OK", "ERR"}
  \/ AttemptsAfter(d, result) >= MaxTransmissions

FreedWithoutMetadata(d) ==   \* mutant: the metadata stay allocated
  [numfree EXCEPT
     !.neighbor = IF Len(packet_queue[d]) = 1 THEN @ + 1 ELSE @,
     !.packet = @ + 1, !.queuebuf = @ + 1]

NumfreeAfterFree(d) ==
  [numfree EXCEPT
     !.neighbor = IF Len(packet_queue[d]) = 1 THEN @ + 1 ELSE @,
     !.packet = @ + 1, !.metadata = @ + 1, !.queuebuf = @ + 1]

\* tx_done with free_packet: the callback is called, the next packet begins
\* from zero, or the queue goes with its last one.
TxDone(d, status) ==
  /\ answer' = [answer EXCEPT ![Head(packet_queue[d])] = status]
  /\ packet_queue' = [packet_queue EXCEPT ![d] = Tail(@)]
  /\ numfree' = NumfreeAfterFree(d)
  /\ transmissions' = [transmissions EXCEPT ![d] = 0]
  /\ collisions' = [collisions EXCEPT ![d] = 0]
  /\ transmit_timer' = [transmit_timer EXCEPT ![d] = Len(packet_queue[d]) > 1]
  /\ neighbour_list' =
       IF Len(packet_queue[d]) > 1 THEN neighbour_list ELSE neighbour_list \ {d}

\* rexmit: the packet stays at the head and the timer is set again.
Rexmit(d, result) ==
  /\ transmissions' = [transmissions EXCEPT ![d] = AttemptsAfter(d, result)]
  /\ collisions' = [collisions EXCEPT ![d] = CollisionsAfter(d, result)]
  /\ UNCHANGED <<neighbour_list, packet_queue, transmit_timer, numfree, answer>>

(***************************************************************************)
(* transmit_from_queue, send_one_packet and packet_sent for the result.    *)
(***************************************************************************)
Transmit(d, result) ==
  /\ transmit_timer[d] /\ packet_queue[d] # << >>
  /\ \/ Finishes(d, result) /\ TxDone(d, result)
     \/ ~Finishes(d, result) /\ Rexmit(d, result)
  /\ UNCHANGED <<seqno, packets>>

CsmaNext ==
  \E d \in Dests : Output(d) \/ \E result \in Results(d) : Transmit(d, result)

CsmaSpec == CsmaInit /\ [][CsmaNext]_csmaVars

-----------------------------------------------------------------------------
\* Shape of the state; the counters stay within uint8_t by their limits.
CsmaTypeOK ==
  /\ neighbour_list \subseteq Dests
  /\ packet_queue \in [Dests -> Seq(Packet)]
  /\ transmissions \in [Dests -> 0 .. MaxTransmissions - 1]
  /\ collisions \in [Dests -> 0 .. MaxBackoff]
  /\ transmit_timer \in [Dests -> BOOLEAN]
  /\ numfree \in [neighbor : Nat, packet : Nat, metadata : Nat, queuebuf : Nat]
  /\ seqno \in 0 .. SeqnoRange - 1
  /\ packets \in Seq([dest : Dests, seqno : 1 .. SeqnoRange - 1])
  /\ Len(packets) <= MaxPackets
  /\ answer \in [Packet -> Status \cup {"none"}]

\* The places of all queues.
Queued == UNION {{d} \X DOMAIN packet_queue[d] : d \in Dests}

\* Whatever fails between two allocations, and in whatever order queues
\* empty and are made again: no block of a pool is leaked or freed twice, and
\* the timer is armed exactly for the destinations that have packets.  A leaked
\* queue would block a destination for ever, there are two of them.
PoolsMatchQueues ==
  /\ \A d \in Dests : (d \in neighbour_list) <=> packet_queue[d] # << >>
  /\ \A d \in Dests : transmit_timer[d] <=> packet_queue[d] # << >>
  /\ numfree.neighbor + Cardinality(neighbour_list) = MaxNeighborQueues
  /\ numfree.packet + Cardinality(Queued) = MaxQueuedPackets
  /\ numfree.metadata = numfree.packet
  /\ numfree.queuebuf + Cardinality(Queued) = QueuebufNum

Service ==
  INSTANCE PacketService
    WITH Packets <- Packet, NoAnswer <- "none", Statuses <- Status,
         Refusal <- "ERR", pending <- packet_queue

\* Every packet is answered once, in order for each destination, and every
\* accepted one in the end, however often the channel is busy.
ImplementsPacketService == Service!Spec
=============================================================================
