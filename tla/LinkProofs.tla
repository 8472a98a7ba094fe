----------------------------- MODULE LinkProofs -----------------------------
(***************************************************************************)
(* Proofs about the CSMA output and the link layer, for any number of      *)
(* destinations and packets and any size of the memory pools.              *)
(***************************************************************************)
EXTENDS LinkLayer, RecursionProofs

\* What the queues hold: packets that were handed over, for their destination.
QueueContents ==
  \A d \in Dests : \A i \in 1 .. Len(packet_queue[d]) :
    /\ packet_queue[d][i] \in 1 .. Len(packets)
    /\ packets[packet_queue[d][i]].dest = d

NoneAnsweredAhead == \A p \in Packet : p > Len(packets) => answer[p] = "none"

CsmaInv ==
  /\ CsmaTypeOK /\ PoolsMatchQueues /\ IsFiniteSet(Queued)
  /\ QueueContents /\ NoneAnsweredAhead

-----------------------------------------------------------------------------
(***************************************************************************)
(* Queues.                                                                 *)
(***************************************************************************)
LEMMA QueuedPlaces ==
  ASSUME packet_queue \in [Dests -> Seq(Packet)]
  PROVE  \A x : x \in Queued <=>
           \E d \in Dests : \E i \in 1 .. Len(packet_queue[d]) : x = <<d, i>>
<1>1. \A d \in Dests : DOMAIN packet_queue[d] = 1 .. Len(packet_queue[d])
  BY LenProperties
<1> QED
  BY <1>1 DEF Queued

LEMMA QueueGrows ==
  ASSUME packet_queue \in [Dests -> Seq(Packet)], NEW d \in Dests,
         NEW p \in Packet, IsFiniteSet(Queued),
         packet_queue' = [packet_queue EXCEPT ![d] = Append(packet_queue[d], p)]
  PROVE  /\ packet_queue' \in [Dests -> Seq(Packet)]
         /\ packet_queue'[d] = Append(packet_queue[d], p)
         /\ packet_queue'[d] # << >>
         /\ \A e \in Dests \ {d} : packet_queue'[e] = packet_queue[e]
         /\ Len(packet_queue'[d]) = Len(packet_queue[d]) + 1
         /\ \A i \in 1 .. Len(packet_queue[d]) :
              packet_queue'[d][i] = packet_queue[d][i]
         /\ packet_queue'[d][Len(packet_queue[d]) + 1] = p
         /\ IsFiniteSet(Queued')
         /\ Cardinality(Queued') = Cardinality(Queued) + 1
<1> DEFINE q == packet_queue[d]
           x == <<d, Len(q) + 1>>
<1>1. q \in Seq(Packet) /\ Len(q) \in Nat
  BY LenProperties
<1>2. /\ Append(q, p) \in Seq(Packet) /\ Append(q, p) # << >>
      /\ Len(Append(q, p)) = Len(q) + 1
      /\ \A i \in 1 .. Len(q) : Append(q, p)[i] = q[i]
      /\ Append(q, p)[Len(q) + 1] = p
  BY <1>1, AppendProperties
<1>3. /\ packet_queue' \in [Dests -> Seq(Packet)]
      /\ packet_queue'[d] = Append(q, p)
      /\ \A e \in Dests \ {d} : packet_queue'[e] = packet_queue[e]
  BY <1>2
<1>4. \A y : y \in Queued' <=>
        \E e \in Dests : \E i \in 1 .. Len(packet_queue'[e]) : y = <<e, i>>
  <2>1. \A e \in Dests : DOMAIN packet_queue'[e] = 1 .. Len(packet_queue'[e])
    BY <1>3, LenProperties
  <2> QED
    BY <2>1 DEF Queued
<1>5. 1 .. Len(q) + 1 = (1 .. Len(q)) \cup {Len(q) + 1}
  BY <1>1
<1>6. Queued' = Queued \cup {x} /\ x \notin Queued
  <2>1. x \notin Queued
    BY <1>1, QueuedPlaces
  <2>2. ASSUME NEW y PROVE y \in Queued' <=> y \in Queued \/ y = x
    <3>1. ASSUME NEW e \in Dests
          PROVE  (\E i \in 1 .. Len(packet_queue'[e]) : y = <<e, i>>) <=>
                   \/ \E i \in 1 .. Len(packet_queue[e]) : y = <<e, i>>
                   \/ e = d /\ y = x
      <4>1. CASE e = d
        BY <1>2, <1>3, <1>5, <4>1
      <4>2. CASE e # d
        BY <1>3, <4>2
      <4> QED
        BY <4>1, <4>2
    <3> QED
      BY <1>4, <3>1, QueuedPlaces
  <2> QED
    BY <2>1, <2>2
<1> QED
  BY <1>2, <1>3, <1>6, FS_AddElement

LEMMA QueueShrinks ==
  ASSUME packet_queue \in [Dests -> Seq(Packet)], NEW d \in Dests,
         packet_queue[d] # << >>, IsFiniteSet(Queued),
         packet_queue' = [packet_queue EXCEPT ![d] = Tail(packet_queue[d])]
  PROVE  /\ packet_queue' \in [Dests -> Seq(Packet)]
         /\ packet_queue'[d] = Tail(packet_queue[d])
         /\ \A e \in Dests \ {d} : packet_queue'[e] = packet_queue[e]
         /\ Len(packet_queue[d]) \in Nat \ {0}
         /\ Len(packet_queue'[d]) = Len(packet_queue[d]) - 1
         /\ packet_queue'[d] # << >> <=> Len(packet_queue[d]) > 1
         /\ \A i \in 1 .. Len(packet_queue[d]) - 1 :
              packet_queue'[d][i] = packet_queue[d][i + 1]
         /\ Head(packet_queue[d]) = packet_queue[d][1]
         /\ IsFiniteSet(Queued')
         /\ Cardinality(Queued') = Cardinality(Queued) - 1
         /\ Cardinality(Queued) \in Nat \ {0}
<1> DEFINE q == packet_queue[d]
           x == <<d, Len(q)>>
<1>1. q \in Seq(Packet) /\ Len(q) \in Nat \ {0}
  BY EmptySeq, LenProperties
<1>2. /\ Tail(q) \in Seq(Packet) /\ Len(Tail(q)) = Len(q) - 1
      /\ \A i \in 1 .. Len(Tail(q)) : Tail(q)[i] = q[i + 1]
      /\ Head(q) = q[1]
  BY <1>1, HeadTailProperties
<1>3. /\ packet_queue' \in [Dests -> Seq(Packet)]
      /\ packet_queue'[d] = Tail(q)
      /\ \A e \in Dests \ {d} : packet_queue'[e] = packet_queue[e]
  BY <1>2
<1>4. Tail(q) # << >> <=> Len(q) > 1
  <2>1. Tail(q) = << >> <=> Len(Tail(q)) = 0
    BY <1>2, EmptySeq
  <2>2. \A len \in Nat \ {0} : len > 1 <=> len - 1 # 0
    OBVIOUS
  <2> QED
    BY <1>1, <1>2, <2>1, <2>2, Zenon
<1>5. \A y : y \in Queued' <=>
        \E e \in Dests : \E i \in 1 .. Len(packet_queue'[e]) : y = <<e, i>>
  <2>1. \A e \in Dests : DOMAIN packet_queue'[e] = 1 .. Len(packet_queue'[e])
    BY <1>3, LenProperties
  <2> QED
    BY <2>1 DEF Queued
<1>6. 1 .. Len(q) - 1 = (1 .. Len(q)) \ {Len(q)}
  BY <1>1
<1>7. Queued' = Queued \ {x} /\ x \in Queued
  <2>1. x \in Queued
    BY <1>1, QueuedPlaces
  <2>2. ASSUME NEW y PROVE y \in Queued' <=> y \in Queued /\ y # x
    <3>1. ASSUME NEW e \in Dests
          PROVE  (\E i \in 1 .. Len(packet_queue'[e]) : y = <<e, i>>) <=>
                   /\ \E i \in 1 .. Len(packet_queue[e]) : y = <<e, i>>
                   /\ y # x
      <4>1. CASE e = d
        BY <1>2, <1>3, <1>6, <4>1
      <4>2. CASE e # d
        BY <1>3, <4>2
      <4> QED
        BY <4>1, <4>2
    <3> QED
      BY <1>5, <3>1, QueuedPlaces
  <2> QED
    BY <2>1, <2>2
<1>8. Cardinality(Queued) \in Nat \ {0}
  BY <1>7, FS_CardinalityType, FS_EmptySet
<1> QED
  BY <1>1, <1>2, <1>3, <1>4, <1>7, <1>8, FS_RemoveElement

-----------------------------------------------------------------------------
(***************************************************************************)
(* Pools, queues and counters, step by step.                               *)
(***************************************************************************)
LEMMA CsmaFacts ==
  ASSUME CsmaInv
  PROVE  /\ packet_queue \in [Dests -> Seq(Packet)] /\ IsFiniteSet(Queued)
         /\ Cardinality(Queued) \in Nat
         /\ IsFiniteSet(neighbour_list) /\ Cardinality(neighbour_list) \in Nat
         /\ neighbour_list \subseteq Dests
         /\ Len(packets) \in Nat /\ Len(packets) <= MaxPackets
         /\ CurrentSeqno \in 1 .. SeqnoRange - 1
<1>1. neighbour_list \subseteq Dests /\ IsFiniteSet(neighbour_list)
  BY CsmaAssumption, FS_Subset DEF CsmaInv, CsmaTypeOK
<1>2. Cardinality(neighbour_list) \in Nat /\ Cardinality(Queued) \in Nat
  BY <1>1, FS_CardinalityType DEF CsmaInv
<1>3. CurrentSeqno \in 1 .. SeqnoRange - 1
  BY CsmaAssumption DEF CsmaInv, CsmaTypeOK, CurrentSeqno
<1> QED
  BY <1>1, <1>2, <1>3, LenProperties DEF CsmaInv, CsmaTypeOK

LEMMA InitCsma == CsmaInit => CsmaInv
<1> SUFFICES ASSUME CsmaInit PROVE CsmaInv
  OBVIOUS
<1>1. Queued = {} /\ Len(<< >>) = 0 /\ \A S : << >> \in Seq(S)
  BY EmptySeq DEF CsmaInit, Queued
<1>2. Cardinality({}) = 0 /\ IsFiniteSet({})
  BY FS_EmptySet
<1>3. CsmaTypeOK
  BY <1>1, CsmaAssumption DEF CsmaInit, CsmaTypeOK, Packet, Status
<1> QED
  BY <1>1, <1>2, <1>3, CsmaAssumption
  DEF CsmaInit, CsmaInv, PoolsMatchQueues, QueueContents, NoneAnsweredAhead

\* A call of csma_output_packet numbers its packet.
LEMMA NumberFacts ==
  ASSUME CsmaInv, NEW d \in Dests, NumberPacket(d)
  PROVE  /\ Len(packets) + 1 \in Packet
         /\ packets' \in Seq([dest : Dests, seqno : 1 .. SeqnoRange - 1])
         /\ Len(packets') = Len(packets) + 1 /\ Len(packets') <= MaxPackets
         /\ \A i \in 1 .. Len(packets) : packets'[i] = packets[i]
         /\ packets'[Len(packets) + 1] = [dest |-> d, seqno |-> CurrentSeqno]
         /\ seqno' \in 0 .. SeqnoRange - 1
<1>1. /\ Len(packets) \in Nat /\ Len(packets) < MaxPackets
      /\ CurrentSeqno \in 1 .. SeqnoRange - 1
      /\ packets \in Seq([dest : Dests, seqno : 1 .. SeqnoRange - 1])
  BY CsmaFacts DEF NumberPacket, CsmaInv, CsmaTypeOK
<1>2. [dest |-> d, seqno |-> CurrentSeqno] \in [dest : Dests, seqno : 1 .. SeqnoRange - 1]
  BY <1>1
<1>3. seqno' \in 0 .. SeqnoRange - 1
  BY <1>1, CsmaAssumption DEF NumberPacket
<1>4. packets' = Append(packets, [dest |-> d, seqno |-> CurrentSeqno])
  BY DEF NumberPacket
<1>5. /\ packets' \in Seq([dest : Dests, seqno : 1 .. SeqnoRange - 1])
      /\ Len(packets') = Len(packets) + 1
      /\ \A i \in 1 .. Len(packets) : packets'[i] = packets[i]
      /\ packets'[Len(packets) + 1] = [dest |-> d, seqno |-> CurrentSeqno]
  BY <1>1, <1>2, <1>4, AppendProperties
<1> QED
  BY <1>1, <1>3, <1>5, CsmaAssumption DEF Packet

\* Numbering one more packet leaves the contents of the queues as they are.
LEMMA ContentsKept ==
  ASSUME QueueContents, Len(packets) \in Nat, Len(packets') = Len(packets) + 1,
         \A i \in 1 .. Len(packets) : packets'[i] = packets[i]
  PROVE  \A d \in Dests : \A i \in 1 .. Len(packet_queue[d]) :
           /\ packet_queue[d][i] \in 1 .. Len(packets')
           /\ packets'[packet_queue[d][i]].dest = d
<1>1. SUFFICES ASSUME NEW d \in Dests, NEW i \in 1 .. Len(packet_queue[d])
               PROVE  /\ packet_queue[d][i] \in 1 .. Len(packets')
                      /\ packets'[packet_queue[d][i]].dest = d
  OBVIOUS
<1>2. PICK p \in 1 .. Len(packets) : p = packet_queue[d][i] /\ packets[p].dest = d
  BY DEF QueueContents
<1>3. packets'[p] = packets[p] /\ p \in 1 .. Len(packets')
  BY <1>2
<1> QED
  BY <1>2, <1>3

LEMMA AcceptCsma ==
  ASSUME CsmaInv, NEW d \in Dests, AcceptPacket(d) PROVE CsmaInv'
<1> DEFINE p == Len(packets) + 1
<1>1. /\ p \in Packet
      /\ packets' \in Seq([dest : Dests, seqno : 1 .. SeqnoRange - 1])
      /\ Len(packets') = Len(packets) + 1 /\ Len(packets') <= MaxPackets
      /\ \A i \in 1 .. Len(packets) : packets'[i] = packets[i]
      /\ packets'[p] = [dest |-> d, seqno |-> CurrentSeqno]
      /\ seqno' \in 0 .. SeqnoRange - 1
  BY NumberFacts DEF AcceptPacket
<1>2. packet_queue' = [packet_queue EXCEPT ![d] = Append(packet_queue[d], p)]
  BY DEF AcceptPacket, Enqueued
<1>3. /\ packet_queue' \in [Dests -> Seq(Packet)]
      /\ packet_queue'[d] # << >>
      /\ \A e \in Dests \ {d} : packet_queue'[e] = packet_queue[e]
      /\ Len(packet_queue'[d]) = Len(packet_queue[d]) + 1
      /\ \A i \in 1 .. Len(packet_queue[d]) :
           packet_queue'[d][i] = packet_queue[d][i]
      /\ packet_queue'[d][Len(packet_queue[d]) + 1] = p
      /\ IsFiniteSet(Queued')
      /\ Cardinality(Queued') = Cardinality(Queued) + 1
  BY <1>1, <1>2, CsmaFacts, QueueGrows
<1>4. /\ Cardinality(Queued) \in Nat /\ Cardinality(neighbour_list) \in Nat
      /\ neighbour_list \subseteq Dests /\ IsFiniteSet(neighbour_list)
      /\ Len(packets) \in Nat
      /\ numfree \in [neighbor : Nat, packet : Nat, metadata : Nat, queuebuf : Nat]
  BY CsmaFacts DEF CsmaInv, CsmaTypeOK
<1>5. Cardinality(neighbour_list') =
        Cardinality(neighbour_list) + (IF d \in neighbour_list THEN 0 ELSE 1)
  <2>1. neighbour_list' = neighbour_list \cup {d}
    BY DEF AcceptPacket
  <2>2. CASE d \in neighbour_list
    <3>1. neighbour_list' = neighbour_list
      BY <2>1, <2>2
    <3> QED
      BY <1>4, <2>2, <3>1
  <2>3. CASE d \notin neighbour_list
    <3>1. Cardinality(neighbour_list \cup {d}) = Cardinality(neighbour_list) + 1
      BY <1>4, <2>3, FS_AddElement
    <3> QED
      BY <2>1, <2>3, <3>1
  <2> QED
    BY <2>2, <2>3
<1>6. /\ d \in neighbour_list \/ numfree.neighbor > 0
      /\ numfree.packet > 0 /\ numfree.metadata > 0 /\ numfree.queuebuf > 0
      /\ numfree' = NumfreeAfterAccept(d)
  BY DEF AcceptPacket, Accepts, HasQueue
<1>7. /\ numfree'.neighbor = numfree.neighbor - (IF d \in neighbour_list THEN 0 ELSE 1)
      /\ numfree'.packet = numfree.packet - 1
      /\ numfree'.metadata = numfree.metadata - 1
      /\ numfree'.queuebuf = numfree.queuebuf - 1
      /\ numfree' \in [neighbor : Nat, packet : Nat, metadata : Nat, queuebuf : Nat]
  BY <1>4, <1>6 DEF NumfreeAfterAccept
<1>8. CsmaTypeOK'
  <2>1. /\ transmit_timer' \in [Dests -> BOOLEAN]
        /\ neighbour_list' \subseteq Dests
    BY <1>4 DEF AcceptPacket, CsmaInv, CsmaTypeOK
  <2> QED
    BY <1>1, <1>3, <1>7, <2>1 DEF AcceptPacket, CsmaInv, CsmaTypeOK, Packet
<1>9. PoolsMatchQueues'
  <2>1. \A e \in Dests : /\ (e \in neighbour_list') <=> packet_queue'[e] # << >>
                         /\ transmit_timer'[e] <=> packet_queue'[e] # << >>
    <3>1. /\ neighbour_list' = neighbour_list \cup {d}
          /\ transmit_timer \in [Dests -> BOOLEAN]
          /\ transmit_timer' = [transmit_timer EXCEPT ![d] =
                                  transmit_timer[d] \/ packet_queue[d] = << >>]
      BY DEF AcceptPacket, CsmaInv, CsmaTypeOK
    <3>2. \A e \in Dests : /\ (e \in neighbour_list) <=> packet_queue[e] # << >>
                           /\ transmit_timer[e] <=> packet_queue[e] # << >>
      BY DEF CsmaInv, PoolsMatchQueues
    <3> QED
      BY <1>3, <3>1, <3>2
  <2>2. /\ numfree.neighbor + Cardinality(neighbour_list) = MaxNeighborQueues
        /\ numfree.packet + Cardinality(Queued) = MaxQueuedPackets
        /\ numfree.metadata = numfree.packet
        /\ numfree.queuebuf + Cardinality(Queued) = QueuebufNum
    BY DEF CsmaInv, PoolsMatchQueues
  <2>3. /\ numfree'.neighbor + Cardinality(neighbour_list') = MaxNeighborQueues
        /\ numfree'.packet + Cardinality(Queued') = MaxQueuedPackets
        /\ numfree'.metadata = numfree'.packet
        /\ numfree'.queuebuf + Cardinality(Queued') = QueuebufNum
    <3>1. /\ numfree.neighbor \in Nat /\ numfree.packet \in Nat
          /\ numfree.queuebuf \in Nat
          /\ Cardinality(Queued') = Cardinality(Queued) + 1
          /\ Cardinality(Queued) \in Nat
      BY <1>3, <1>4
    <3>2. numfree'.neighbor + Cardinality(neighbour_list') = MaxNeighborQueues
      BY <1>4, <1>5, <1>7, <2>2, <3>1
    <3>3. /\ numfree'.packet + Cardinality(Queued') = MaxQueuedPackets
          /\ numfree'.metadata = numfree'.packet
          /\ numfree'.queuebuf + Cardinality(Queued') = QueuebufNum
      BY <1>7, <2>2, <3>1
    <3> QED
      BY <3>2, <3>3
  <2> QED
    BY <2>1, <2>3 DEF PoolsMatchQueues
<1>10. QueueContents'
  <2>1. SUFFICES ASSUME NEW e \in Dests, NEW i \in 1 .. Len(packet_queue'[e])
                 PROVE  /\ packet_queue'[e][i] \in 1 .. Len(packets')
                        /\ packets'[packet_queue'[e][i]].dest = e
    BY DEF QueueContents
  <2>2. \A c \in Dests : \A j \in 1 .. Len(packet_queue[c]) :
          /\ packet_queue[c][j] \in 1 .. Len(packets')
          /\ packets'[packet_queue[c][j]].dest = c
    BY <1>1, <1>4, ContentsKept DEF CsmaInv
  <2>3. CASE e = d /\ i = Len(packet_queue[d]) + 1
    <3>1. packet_queue'[e][i] = p
      BY <1>3, <2>3
    <3>2. packets'[p].dest = d /\ p \in 1 .. Len(packets')
      BY <1>1, <1>4
    <3> QED
      BY <2>3, <3>1, <3>2
  <2>4. CASE e = d /\ i \in 1 .. Len(packet_queue[d])
    BY <1>3, <2>2, <2>4
  <2>5. CASE e # d
    BY <1>3, <2>1, <2>2, <2>5
  <2>6. Len(packet_queue[d]) \in Nat
    BY CsmaFacts, LenProperties
  <2> QED
    BY <1>3, <2>1, <2>3, <2>4, <2>5, <2>6
<1>11. NoneAnsweredAhead'
  BY <1>1, <1>4, CsmaAssumption DEF AcceptPacket, CsmaInv, NoneAnsweredAhead, Packet
<1> QED
  BY <1>3, <1>8, <1>9, <1>10, <1>11 DEF CsmaInv

\* With the queues as they should be, nothing is left of a refused packet.
LEMMA RollBackNothing ==
  ASSUME CsmaInv, NEW d \in Dests, RollBack(d)
  PROVE  neighbour_list' = neighbour_list /\ numfree' = numfree
<1>1. ~(d \in neighbour_list /\ packet_queue[d] = << >>)
  BY DEF CsmaInv, PoolsMatchQueues
<1> QED
  BY <1>1 DEF RollBack, CsmaInv, CsmaTypeOK

LEMMA RefuseCsma ==
  ASSUME CsmaInv, NEW d \in Dests, RefusePacket(d) PROVE CsmaInv'
<1>1. /\ Len(packets) + 1 \in Packet
      /\ packets' \in Seq([dest : Dests, seqno : 1 .. SeqnoRange - 1])
      /\ Len(packets') = Len(packets) + 1 /\ Len(packets') <= MaxPackets
      /\ \A i \in 1 .. Len(packets) : packets'[i] = packets[i]
      /\ seqno' \in 0 .. SeqnoRange - 1
  BY NumberFacts DEF RefusePacket
<1>2. /\ neighbour_list' = neighbour_list /\ numfree' = numfree
      /\ packet_queue' = packet_queue /\ Len(packets) \in Nat
      /\ answer' = [answer EXCEPT ![Len(packets) + 1] = "ERR"]
      /\ answer \in [Packet -> Status \cup {"none"}]
  BY RollBackNothing, CsmaFacts DEF RefusePacket, CsmaInv, CsmaTypeOK
<1>3. CsmaTypeOK'
  BY <1>1, <1>2 DEF RefusePacket, CsmaInv, CsmaTypeOK, Status, Packet
<1>4. Queued' = Queued
  BY <1>2 DEF Queued
<1>5. PoolsMatchQueues'
  BY <1>2, <1>4 DEF RefusePacket, CsmaInv, PoolsMatchQueues
<1>6. QueueContents'
  <2>1. \A e \in Dests : \A i \in 1 .. Len(packet_queue[e]) :
          /\ packet_queue[e][i] \in 1 .. Len(packets')
          /\ packets'[packet_queue[e][i]].dest = e
    BY <1>1, <1>2, ContentsKept DEF CsmaInv
  <2> QED
    BY <1>2, <2>1 DEF QueueContents
<1>7. NoneAnsweredAhead'
  <2>1. ASSUME NEW p \in Packet, p > Len(packets) + 1 PROVE answer'[p] = "none"
    <3>1. p # Len(packets) + 1 /\ p > Len(packets)
      BY <1>2, <2>1 DEF Packet
    <3> QED
      BY <1>2, <3>1 DEF CsmaInv, NoneAnsweredAhead
  <2> QED
    BY <1>1, <2>1 DEF NoneAnsweredAhead
<1> QED
  BY <1>3, <1>4, <1>5, <1>6, <1>7 DEF CsmaInv

LEMMA TxDoneCsma ==
  ASSUME CsmaInv, NEW d \in Dests, NEW status \in Status,
         packet_queue[d] # << >>, TxDone(d, status), UNCHANGED <<seqno, packets>>
  PROVE  CsmaInv'
<1>1. packet_queue' = [packet_queue EXCEPT ![d] = Tail(packet_queue[d])]
  BY DEF TxDone
<1>2. /\ packet_queue' \in [Dests -> Seq(Packet)]
      /\ \A e \in Dests \ {d} : packet_queue'[e] = packet_queue[e]
      /\ Len(packet_queue[d]) \in Nat \ {0}
      /\ Len(packet_queue'[d]) = Len(packet_queue[d]) - 1
      /\ packet_queue'[d] # << >> <=> Len(packet_queue[d]) > 1
      /\ \A i \in 1 .. Len(packet_queue[d]) - 1 :
           packet_queue'[d][i] = packet_queue[d][i + 1]
      /\ Head(packet_queue[d]) = packet_queue[d][1]
      /\ IsFiniteSet(Queued')
      /\ Cardinality(Queued') = Cardinality(Queued) - 1
      /\ Cardinality(Queued) \in Nat \ {0}
  BY <1>1, CsmaFacts, QueueShrinks
<1>3. /\ Cardinality(neighbour_list) \in Nat
      /\ neighbour_list \subseteq Dests /\ IsFiniteSet(neighbour_list)
      /\ Len(packets) \in Nat
      /\ numfree \in [neighbor : Nat, packet : Nat, metadata : Nat, queuebuf : Nat]
      /\ \A e \in Dests : /\ (e \in neighbour_list) <=> packet_queue[e] # << >>
                          /\ transmit_timer[e] <=> packet_queue[e] # << >>
  <2>1. \A e \in Dests : /\ (e \in neighbour_list) <=> packet_queue[e] # << >>
                         /\ transmit_timer[e] <=> packet_queue[e] # << >>
    BY DEF CsmaInv, PoolsMatchQueues
  <2>2. numfree \in [neighbor : Nat, packet : Nat, metadata : Nat, queuebuf : Nat]
    BY DEF CsmaInv, CsmaTypeOK
  <2> QED
    BY <2>1, <2>2, CsmaFacts
<1>4. 1 \in 1 .. Len(packet_queue[d]) /\ d \in neighbour_list
  <2>1. \A len \in Nat \ {0} : 1 \in 1 .. len
    OBVIOUS
  <2> QED
    BY <1>2, <1>3, <2>1
<1>5. PICK p \in 1 .. Len(packets) : p = Head(packet_queue[d])
  BY <1>2, <1>4 DEF CsmaInv, QueueContents
<1>6. Cardinality(neighbour_list') =
        Cardinality(neighbour_list) - (IF Len(packet_queue[d]) = 1 THEN 1 ELSE 0)
  <2>1. CASE Len(packet_queue[d]) = 1
    <3>1. Cardinality(neighbour_list \ {d}) = Cardinality(neighbour_list) - 1
      BY <1>3, <1>4, FS_RemoveElement
    <3>2. neighbour_list' = neighbour_list \ {d}
      BY <2>1 DEF TxDone
    <3> QED
      BY <2>1, <3>1, <3>2
  <2>2. CASE Len(packet_queue[d]) # 1
    <3>1. neighbour_list' = neighbour_list
      BY <1>2, <2>2 DEF TxDone
    <3> QED
      BY <1>3, <2>2, <3>1
  <2> QED
    BY <2>1, <2>2
<1>7. /\ numfree'.neighbor = numfree.neighbor + (IF Len(packet_queue[d]) = 1 THEN 1 ELSE 0)
      /\ numfree'.packet = numfree.packet + 1
      /\ numfree'.metadata = numfree.metadata + 1
      /\ numfree'.queuebuf = numfree.queuebuf + 1
      /\ numfree' \in [neighbor : Nat, packet : Nat, metadata : Nat, queuebuf : Nat]
  <2> DEFINE n == IF Len(packet_queue[d]) = 1 THEN numfree.neighbor + 1
                  ELSE numfree.neighbor
  <2>1. numfree' = [numfree EXCEPT !.neighbor = n, !.packet = numfree.packet + 1,
                                   !.metadata = numfree.metadata + 1,
                                   !.queuebuf = numfree.queuebuf + 1]
    BY DEF TxDone, NumfreeAfterFree
  <2>2. /\ n \in Nat /\ numfree.packet + 1 \in Nat
        /\ numfree.metadata + 1 \in Nat /\ numfree.queuebuf + 1 \in Nat
        /\ n = numfree.neighbor + (IF Len(packet_queue[d]) = 1 THEN 1 ELSE 0)
    BY <1>3
  <2> HIDE DEF n
  <2>3. numfree' = [neighbor |-> n, packet |-> numfree.packet + 1,
                    metadata |-> numfree.metadata + 1,
                    queuebuf |-> numfree.queuebuf + 1]
    BY <1>3, <2>1, <2>2
  <2> QED
    BY <2>2, <2>3
<1>8. CsmaTypeOK'
  <2>1. /\ transmissions' \in [Dests -> 0 .. MaxTransmissions - 1]
        /\ collisions' \in [Dests -> 0 .. MaxBackoff]
    <3>1. /\ transmissions' = [transmissions EXCEPT ![d] = 0]
          /\ collisions' = [collisions EXCEPT ![d] = 0]
      BY DEF TxDone
    <3>2. /\ transmissions \in [Dests -> 0 .. MaxTransmissions - 1]
          /\ collisions \in [Dests -> 0 .. MaxBackoff]
      BY DEF CsmaInv, CsmaTypeOK
    <3>3. 0 \in 0 .. MaxTransmissions - 1 /\ 0 \in 0 .. MaxBackoff
      BY CsmaAssumption
    <3> QED
      BY <3>1, <3>2, <3>3
  <2>2. transmit_timer' \in [Dests -> BOOLEAN]
    <3>1. /\ transmit_timer' = [transmit_timer EXCEPT ![d] = Len(packet_queue[d]) > 1]
          /\ transmit_timer \in [Dests -> BOOLEAN]
      BY DEF TxDone, CsmaInv, CsmaTypeOK
    <3> QED
      BY <1>2, <3>1
  <2>3. neighbour_list' \subseteq Dests
    BY <1>3 DEF TxDone
  <2>4. answer' \in [Packet -> Status \cup {"none"}]
    BY DEF TxDone, CsmaInv, CsmaTypeOK
  <2> QED
    BY <1>2, <1>7, <2>1, <2>2, <2>3, <2>4 DEF CsmaInv, CsmaTypeOK
<1>9. PoolsMatchQueues'
  <2>1. \A e \in Dests : /\ (e \in neighbour_list') <=> packet_queue'[e] # << >>
                         /\ transmit_timer'[e] <=> packet_queue'[e] # << >>
    <3>1. /\ transmit_timer \in [Dests -> BOOLEAN]
          /\ transmit_timer' =
               [transmit_timer EXCEPT ![d] = Len(packet_queue[d]) > 1]
          /\ neighbour_list' = IF Len(packet_queue[d]) > 1 THEN neighbour_list
                               ELSE neighbour_list \ {d}
      BY DEF TxDone, CsmaInv, CsmaTypeOK
    <3>2. \A e \in Dests \ {d} :
            /\ (e \in neighbour_list') <=> packet_queue'[e] # << >>
            /\ transmit_timer'[e] <=> packet_queue'[e] # << >>
      <4>1. ASSUME NEW e \in Dests \ {d}
            PROVE  /\ (e \in neighbour_list') <=> e \in neighbour_list
                   /\ transmit_timer'[e] = transmit_timer[e]
                   /\ packet_queue'[e] = packet_queue[e]
        BY <1>2, <3>1
      <4> QED
        BY <1>3, <4>1
    <3>3. /\ (d \in neighbour_list') <=> packet_queue'[d] # << >>
          /\ transmit_timer'[d] <=> packet_queue'[d] # << >>
      <4>1. transmit_timer'[d] = (Len(packet_queue[d]) > 1)
        BY <3>1
      <4> QED
        BY <1>2, <1>4, <3>1, <4>1, Zenon
    <3> QED
      BY <3>2, <3>3
  <2>2. /\ numfree.neighbor + Cardinality(neighbour_list) = MaxNeighborQueues
        /\ numfree.packet + Cardinality(Queued) = MaxQueuedPackets
        /\ numfree.metadata = numfree.packet
        /\ numfree.queuebuf + Cardinality(Queued) = QueuebufNum
    BY DEF CsmaInv, PoolsMatchQueues
  <2>3. /\ numfree.neighbor \in Nat /\ numfree.packet \in Nat
        /\ numfree.queuebuf \in Nat
        /\ Cardinality(Queued') = Cardinality(Queued) - 1
        /\ Cardinality(Queued) \in Nat
    BY <1>2, <1>3
  <2>4. numfree'.neighbor + Cardinality(neighbour_list') = MaxNeighborQueues
    BY <1>3, <1>6, <1>7, <2>2, <2>3
  <2>5. /\ numfree'.packet + Cardinality(Queued') = MaxQueuedPackets
        /\ numfree'.metadata = numfree'.packet
        /\ numfree'.queuebuf + Cardinality(Queued') = QueuebufNum
    <3>1. /\ numfree'.packet = numfree.packet + 1
          /\ numfree'.queuebuf = numfree.queuebuf + 1
      BY <1>7
    <3>2. numfree.packet + 1 + (Cardinality(Queued) - 1) = MaxQueuedPackets
      BY <2>2, <2>3
    <3>3. numfree'.packet + Cardinality(Queued') = MaxQueuedPackets
      BY <3>1, <3>2, <2>3
    <3>4. numfree.queuebuf + 1 + (Cardinality(Queued) - 1) = QueuebufNum
      BY <2>2, <2>3
    <3>5. numfree'.queuebuf + Cardinality(Queued') = QueuebufNum
      BY <3>1, <3>4, <2>3
    <3> QED
      BY <1>7, <2>2, <3>3, <3>5
  <2> QED
    BY <2>1, <2>4, <2>5 DEF PoolsMatchQueues
<1>10. QueueContents'
  <2>1. SUFFICES ASSUME NEW e \in Dests, NEW i \in 1 .. Len(packet_queue'[e])
                 PROVE  /\ packet_queue'[e][i] \in 1 .. Len(packets)
                        /\ packets[packet_queue'[e][i]].dest = e
    BY DEF QueueContents
  <2>2. PICK j \in 1 .. Len(packet_queue[e]) :
          packet_queue'[e][i] = packet_queue[e][j]
    <3>1. CASE e = d
      <4>1. i + 1 \in 1 .. Len(packet_queue[d]) /\ i \in 1 .. Len(packet_queue[d]) - 1
        BY <1>2, <2>1, <3>1
      <4> QED
        BY <1>2, <3>1, <4>1
    <3>2. CASE e # d
      BY <1>2, <2>1, <3>2
    <3> QED
      BY <3>1, <3>2
  <2> QED
    BY <2>2 DEF CsmaInv, QueueContents
<1>11. NoneAnsweredAhead'
  <2>1. ASSUME NEW q \in Packet, q > Len(packets) PROVE answer'[q] = "none"
    <3>1. q # p
      BY <1>3, <2>1 DEF Packet
    <3>2. answer'[q] = answer[q]
      BY <1>5, <3>1 DEF TxDone, CsmaInv, CsmaTypeOK
    <3> QED
      BY <2>1, <3>2 DEF CsmaInv, NoneAnsweredAhead
  <2> QED
    BY <2>1 DEF NoneAnsweredAhead
<1> QED
  BY <1>2, <1>8, <1>9, <1>10, <1>11 DEF CsmaInv

LEMMA RexmitCsma ==
  ASSUME CsmaInv, NEW d \in Dests, NEW result \in Status, ~Finishes(d, result),
         Rexmit(d, result), UNCHANGED <<seqno, packets>>
  PROVE  CsmaInv'
<1>1. /\ transmissions \in [Dests -> 0 .. MaxTransmissions - 1]
      /\ collisions \in [Dests -> 0 .. MaxBackoff]
  BY DEF CsmaInv, CsmaTypeOK
<1>2. AttemptsAfter(d, result) \in 0 .. MaxTransmissions - 1
  BY <1>1, CsmaAssumption DEF AttemptsAfter, Finishes
<1>3. CollisionsAfter(d, result) \in 0 .. MaxBackoff
  BY <1>1, CsmaAssumption DEF CollisionsAfter
<1>4. /\ transmissions' \in [Dests -> 0 .. MaxTransmissions - 1]
      /\ collisions' \in [Dests -> 0 .. MaxBackoff]
      /\ UNCHANGED <<neighbour_list, packet_queue, transmit_timer, numfree, answer>>
  BY <1>1, <1>2, <1>3 DEF Rexmit
<1> QED
  BY <1>4
  DEF CsmaInv, CsmaTypeOK, PoolsMatchQueues, Queued, QueueContents,
      NoneAnsweredAhead

LEMMA ResultsAreStatuses == ASSUME NEW d \in Dests PROVE Results(d) \subseteq Status
BY DEF Results, Status

LEMMA NextCsma == CsmaInv /\ [CsmaNext]_csmaVars => CsmaInv'
<1> SUFFICES ASSUME CsmaInv, [CsmaNext]_csmaVars PROVE CsmaInv'
  OBVIOUS
<1>1. ASSUME NEW d \in Dests, Output(d) PROVE CsmaInv'
  BY <1>1, AcceptCsma, RefuseCsma DEF Output
<1>2. ASSUME NEW d \in Dests, NEW result \in Results(d), Transmit(d, result)
      PROVE  CsmaInv'
  <2>1. result \in Status /\ packet_queue[d] # << >>
    BY <1>2, ResultsAreStatuses DEF Transmit
  <2> QED
    BY <1>2, <2>1, TxDoneCsma, RexmitCsma DEF Transmit
<1>3. CASE UNCHANGED csmaVars
  BY <1>3
  DEF csmaVars, CsmaInv, CsmaTypeOK, PoolsMatchQueues, Queued, QueueContents,
      NoneAnsweredAhead
<1> QED
  BY <1>1, <1>2, <1>3 DEF CsmaNext

\* The receiver leaves the sender alone: each step of the link layer is one of
\* the CSMA output, or none.
LEMMA LinkStep ==
  ASSUME [Next]_vars PROVE [CsmaNext]_csmaVars
BY DEF Next, vars, OutputPacket, TransmitFrame, ForgetSeqno, CsmaNext, csmaVars

LEMMA SpecCsma == Spec => []CsmaInv
<1>1. Init => CsmaInv
  BY InitCsma DEF Init
<1>2. CsmaInv /\ [Next]_vars => CsmaInv'
  BY LinkStep, NextCsma
<1> QED
  BY <1>1, <1>2, PTL DEF Spec

\* No block of a pool is leaked or freed twice and the timers are armed exactly
\* for the destinations with packets, whatever allocation fails when.
THEOREM PoolsCorrect == Spec => []PoolsMatchQueues
BY SpecCsma, PTL DEF CsmaInv

-----------------------------------------------------------------------------
(***************************************************************************)
(* The CSMA output keeps what PacketService promises, liveness apart.      *)
(***************************************************************************)
\* A packet that is handed over now was neither answered nor queued before.
LEMMA NewPacket ==
  ASSUME CsmaInv, Len(packets) < MaxPackets
  PROVE  Len(packets) + 1 \in Packet /\ Service!IsNew(Len(packets) + 1)
<1>1. Len(packets) \in Nat /\ Len(packets) + 1 \in Packet
  BY CsmaFacts, CsmaAssumption DEF Packet
<1>2. answer[Len(packets) + 1] = "none"
  BY <1>1 DEF CsmaInv, NoneAnsweredAhead
<1>3. ASSUME NEW d \in Dests, NEW i \in DOMAIN packet_queue[d]
      PROVE  packet_queue[d][i] # Len(packets) + 1
  <2>1. packet_queue[d] \in Seq(Packet)
    BY CsmaFacts
  <2>2. i \in 1 .. Len(packet_queue[d])
    BY <1>3, <2>1, LenProperties
  <2>3. packet_queue[d][i] \in 1 .. Len(packets)
    BY <2>2 DEF CsmaInv, QueueContents
  <2> QED
    BY <1>1, <2>3
<1> QED
  BY <1>1, <1>2, <1>3 DEF Service!IsNew

LEMMA ServiceStep ==
  ASSUME CsmaInv, [CsmaNext]_csmaVars PROVE [Service!Next]_(Service!vars)
<1>1. ASSUME NEW d \in Dests, AcceptPacket(d) PROVE Service!Next
  <2>1. Len(packets) < MaxPackets
    BY <1>1 DEF AcceptPacket, NumberPacket
  <2>2. /\ packet_queue' = [packet_queue EXCEPT ![d] =
                              Append(packet_queue[d], Len(packets) + 1)]
        /\ answer' = answer
    BY <1>1 DEF AcceptPacket, Enqueued
  <2>3. Service!Accept(Len(packets) + 1, d)
    BY <2>1, <2>2, NewPacket DEF Service!Accept
  <2> QED
    BY <2>1, <2>3, NewPacket DEF Service!Next
<1>2. ASSUME NEW d \in Dests, RefusePacket(d) PROVE Service!Next
  <2>1. Len(packets) < MaxPackets
    BY <1>2 DEF RefusePacket, NumberPacket
  <2>2. Service!Refuse(Len(packets) + 1)
    BY <1>2, <2>1, NewPacket DEF RefusePacket, Service!Refuse
  <2> QED
    BY <2>1, <2>2, NewPacket DEF Service!Next
<1>3. ASSUME NEW d \in Dests, NEW result \in Results(d), Transmit(d, result)
      PROVE  Service!Next \/ UNCHANGED <<packet_queue, answer>>
  <2>1. result \in Status /\ packet_queue[d] # << >>
    BY <1>3, ResultsAreStatuses DEF Transmit
  <2>2. CASE TxDone(d, result)
    <3>1. Service!Answer(d)
      BY <2>1, <2>2 DEF TxDone, Service!Answer
    <3> QED
      BY <3>1 DEF Service!Next
  <2>3. CASE Rexmit(d, result)
    BY <2>3 DEF Rexmit
  <2> QED
    BY <1>3, <2>2, <2>3 DEF Transmit
<1> QED
  BY <1>1, <1>2, <1>3 DEF CsmaNext, csmaVars, Output, Service!vars

\* Whatever the channel does and whichever allocation fails, every packet is
\* answered at most once and only after those handed over before it for the
\* same destination: the CSMA output takes no step that PacketService forbids.
THEOREM ImplementsServiceSafely ==
  Spec => Service!Init /\ [][Service!Next]_(Service!vars)
<1>1. Init => Service!Init
  BY DEF Init, CsmaInit, Service!Init
<1>2. CsmaInv /\ [Next]_vars => [Service!Next]_(Service!vars)
  BY LinkStep, ServiceStep
<1> QED
  BY <1>1, <1>2, SpecCsma, PTL DEF Spec

-----------------------------------------------------------------------------
(***************************************************************************)
(* The duplicate filter.                                                   *)
(***************************************************************************)
\* The number the receiver keeps is that of the last packet it passed on.
LastHeard ==
  ~forgetful =>
    received_seqno =
      IF delivered = << >> THEN 0 ELSE packets[delivered[Len(delivered)]].seqno

\* A number that is kept is that of a packet that was passed on.
HeardWasDelivered ==
  received_seqno # 0 =>
    \E i \in 1 .. Len(delivered) : packets[delivered[i]].seqno = received_seqno

DeliveredExist == \A i \in 1 .. Len(delivered) : delivered[i] \in 1 .. Len(packets)

LinkInv ==
  /\ TypeOK /\ CsmaInv
  /\ DeliveredExist /\ LastHeard /\ HeardWasDelivered /\ RepeatedAfterAnother

LEMMA InitLink == Init => LinkInv
<1> SUFFICES ASSUME Init PROVE LinkInv
  OBVIOUS
<1>1. CsmaInv
  BY InitCsma DEF Init
<1>2. Len(<< >>) = 0 /\ \A S : << >> \in Seq(S)
  BY EmptySeq
<1>3. TypeOK
  <2>1. << >> \in Seq(Packet) /\ 0 \in 0 .. SeqnoRange - 1
    BY <1>2, CsmaAssumption
  <2> QED
    BY <1>1, <2>1 DEF Init, TypeOK, CsmaInv
<1> QED
  BY <1>1, <1>2, <1>3
  DEF Init, LinkInv, DeliveredExist, LastHeard, HeardWasDelivered,
      RepeatedAfterAnother

\* Packets keep their destinations and sequence numbers.
LEMMA PacketsKept ==
  ASSUME CsmaInv, [CsmaNext]_csmaVars
  PROVE  /\ Len(packets) \in Nat /\ Len(packets') \in Nat
         /\ Len(packets) <= Len(packets')
         /\ \A i \in 1 .. Len(packets) : packets'[i] = packets[i]
<1>1. ASSUME NEW d \in Dests, Output(d)
      PROVE  /\ Len(packets') = Len(packets) + 1
             /\ \A i \in 1 .. Len(packets) : packets'[i] = packets[i]
  BY <1>1, NumberFacts DEF Output, AcceptPacket, RefusePacket
<1>2. Len(packets) \in Nat
  BY CsmaFacts
<1> QED
  BY <1>1, <1>2 DEF CsmaNext, csmaVars, Transmit

\* A step that passes nothing on.
LEMMA NothingPassedOn ==
  ASSUME LinkInv, [CsmaNext]_csmaVars,
         UNCHANGED <<received_seqno, delivered, forgetful>>
  PROVE  LinkInv'
<1>1. CsmaInv'
  BY NextCsma DEF LinkInv
<1>2. TypeOK'
  BY <1>1 DEF LinkInv, TypeOK, CsmaInv
<1>3. \A i \in 1 .. Len(delivered) :
        /\ delivered[i] \in 1 .. Len(packets')
        /\ packets'[delivered[i]] = packets[delivered[i]]
  <2>1. \A i \in 1 .. Len(delivered) : delivered[i] \in 1 .. Len(packets)
    BY DEF LinkInv, DeliveredExist
  <2> QED
    BY <2>1, PacketsKept DEF LinkInv
<1>4. delivered # << >> => Len(delivered) \in 1 .. Len(delivered)
  BY EmptySeq, LenProperties DEF LinkInv, TypeOK
<1>5. DeliveredExist' /\ HeardWasDelivered' /\ RepeatedAfterAnother'
  BY <1>3 DEF LinkInv, DeliveredExist, HeardWasDelivered, RepeatedAfterAnother
<1>6. LastHeard'
  BY <1>3, <1>4 DEF LinkInv, LastHeard
<1> QED
  BY <1>1, <1>2, <1>5, <1>6 DEF LinkInv

\* Passing on a packet with another number than the last one.
LEMMA PassedOn ==
  ASSUME LinkInv, [CsmaNext]_csmaVars, NEW p \in 1 .. Len(packets),
         UNCHANGED <<packets, forgetful>>, ~IsDuplicate(packets[p].seqno),
         received_seqno' = packets[p].seqno, delivered' = Append(delivered, p)
  PROVE  LinkInv'
<1> DEFINE n == Len(delivered)
<1>1. CsmaInv'
  BY NextCsma DEF LinkInv
<1>2. p \in Packet /\ packets[p].seqno \in 1 .. SeqnoRange - 1
  <2>1. packets \in Seq([dest : Dests, seqno : 1 .. SeqnoRange - 1])
        /\ Len(packets) <= MaxPackets /\ Len(packets) \in Nat
    BY CsmaFacts DEF LinkInv, CsmaInv, CsmaTypeOK
  <2>2. packets[p] \in [dest : Dests, seqno : 1 .. SeqnoRange - 1]
    BY <2>1, ElementOfSeq
  <2> QED
    BY <2>1, <2>2, CsmaAssumption DEF Packet
<1>3. /\ delivered \in Seq(Packet) /\ n \in Nat
      /\ delivered' \in Seq(Packet) /\ delivered' # << >> /\ Len(delivered') = n + 1
      /\ \A i \in 1 .. n : delivered'[i] = delivered[i]
      /\ delivered'[n + 1] = p
  BY <1>2, AppendProperties, LenProperties DEF LinkInv, TypeOK
<1>4. TypeOK'
  <2>1. received_seqno' \in 0 .. SeqnoRange - 1
    BY <1>2, CsmaAssumption
  <2> QED
    BY <1>1, <1>3, <2>1 DEF LinkInv, TypeOK, CsmaInv
<1>5. DeliveredExist'
  <2>1. ASSUME NEW i \in 1 .. n + 1 PROVE delivered'[i] \in 1 .. Len(packets)
    <3>1. i \in 1 .. n \/ i = n + 1
      BY <1>3
    <3> QED
      BY <1>3, <3>1 DEF LinkInv, DeliveredExist
  <2> QED
    BY <1>3, <2>1 DEF DeliveredExist
<1>6. n + 1 \in 1 .. n + 1
  BY <1>3
<1>7. LastHeard' /\ HeardWasDelivered'
  BY <1>3, <1>6 DEF LastHeard, HeardWasDelivered
<1>8. RepeatedAfterAnother'
  <2>1. SUFFICES ASSUME ~forgetful, NEW i \in 1 .. n
                 PROVE  delivered'[i] # delivered'[i + 1]
    BY <1>3 DEF RepeatedAfterAnother
  <2>2. CASE i = n
    <3>1. delivered # << >>
      BY <1>3, <2>2, EmptySeq
    <3>2. packets[delivered[n]].seqno # packets[p].seqno
      BY <2>1, <3>1 DEF LinkInv, LastHeard, IsDuplicate
    <3> QED
      BY <1>3, <2>2, <3>2
  <2>3. CASE i # n
    <3>1. i \in 1 .. n - 1 /\ i + 1 \in 1 .. n
      BY <1>3, <2>3
    <3>2. delivered[i] # delivered[i + 1]
      BY <2>1, <3>1 DEF LinkInv, RepeatedAfterAnother
    <3> QED
      BY <1>3, <3>1, <3>2
  <2> QED
    BY <2>2, <2>3
<1> QED
  BY <1>1, <1>4, <1>5, <1>7, <1>8 DEF LinkInv

LEMMA HeadIsPacket ==
  ASSUME CsmaInv, NEW d \in Dests, packet_queue[d] # << >>
  PROVE  /\ Head(packet_queue[d]) \in 1 .. Len(packets)
         /\ packets[Head(packet_queue[d])].dest = d
<1>1. packet_queue[d] \in Seq(Packet)
  BY CsmaFacts
<1>2. /\ Head(packet_queue[d]) = packet_queue[d][1]
      /\ Len(packet_queue[d]) \in Nat \ {0}
  BY <1>1, HeadTailProperties, EmptySeq, LenProperties
<1>3. 1 \in 1 .. Len(packet_queue[d])
  BY <1>2
<1> QED
  BY <1>2, <1>3 DEF CsmaInv, QueueContents

LEMMA NextLink == LinkInv /\ [Next]_vars => LinkInv'
<1> SUFFICES ASSUME LinkInv, [Next]_vars PROVE LinkInv'
  OBVIOUS
<1>1. [CsmaNext]_csmaVars
  BY LinkStep
<1>2. ASSUME NEW d \in Dests, OutputPacket(d) PROVE LinkInv'
  BY <1>1, <1>2, NothingPassedOn DEF OutputPacket
<1>3. ASSUME NEW d \in Dests, TransmitFrame(d) PROVE LinkInv'
  <2> DEFINE p == Head(packet_queue[d])
  <2>1. /\ packet_queue[d] # << >>
        /\ UNCHANGED <<packets, forgetful>>
        /\ InputPacket(p) \/ UNCHANGED <<received_seqno, delivered>>
    BY <1>3 DEF TransmitFrame, Transmit
  <2>2. p \in 1 .. Len(packets)
    BY <2>1, HeadIsPacket DEF LinkInv
  <2>3. CASE UNCHANGED <<received_seqno, delivered>>
    BY <1>1, <2>1, <2>3, NothingPassedOn
  <2>4. CASE /\ ~IsDuplicate(packets[p].seqno)
             /\ received_seqno' = packets[p].seqno
             /\ delivered' = Append(delivered, p)
    BY <1>1, <2>1, <2>2, <2>4, PassedOn
  <2> QED
    BY <2>1, <2>3, <2>4 DEF InputPacket
<1>4. CASE ForgetSeqno
  <2>1. CsmaInv' /\ UNCHANGED <<packets, delivered>>
    BY <1>1, <1>4, NextCsma DEF ForgetSeqno, csmaVars, LinkInv
  <2>2. 0 \in 0 .. SeqnoRange - 1
    BY CsmaAssumption
  <2>3. TypeOK'
    BY <1>4, <2>1, <2>2 DEF ForgetSeqno, LinkInv, TypeOK, CsmaInv
  <2> QED
    BY <1>4, <2>1, <2>3
    DEF ForgetSeqno, LinkInv, DeliveredExist, LastHeard, HeardWasDelivered,
        RepeatedAfterAnother
<1>5. CASE UNCHANGED vars
  BY <1>1, <1>5, NothingPassedOn DEF vars
<1> QED
  BY <1>2, <1>3, <1>4, <1>5 DEF Next

LEMMA SpecLink == Spec => []LinkInv
<1>1. Init => LinkInv
  BY InitLink
<1>2. LinkInv /\ [Next]_vars => LinkInv'
  BY NextLink
<1> QED
  BY <1>1, <1>2, PTL DEF Spec

\* The shape of the state; the counters of transmissions and collisions stay
\* below their limits.
THEOREM LinkTypeCorrect == Spec => []TypeOK
BY SpecLink, PTL DEF LinkInv

\* A frame that is sent again is passed on again only after another frame of
\* the same sender, or after the receiver forgot the number.
THEOREM NoRepeatInARow == Spec => []RepeatedAfterAnother
BY SpecLink, PTL DEF LinkInv

-----------------------------------------------------------------------------
(***************************************************************************)
(* Acknowledged packets.                                                   *)
(***************************************************************************)
\* The numbers go round 1 .. SeqnoRange - 1: they differ as the packets do, but
\* for whole rounds.
SeqnosRotate ==
  \A i \in 1 .. Len(packets) : \E z \in Int :
    CurrentSeqno - packets[i].seqno =
      (Len(packets) + 1 - i) + z * (SeqnoRange - 1)

AckedInv == LinkInv /\ SeqnosRotate /\ AckedIsDelivered

LEMMA MultipleLeavesNothing ==
  ASSUME NEW w \in Int, NEW M \in Nat \ {0} PROVE (w * M) % M = 0
BY SMTT(30)

LEMMA PacketFacts ==
  ASSUME CsmaInv
  PROVE  /\ Len(packets) \in Nat /\ DOMAIN packets = 1 .. Len(packets)
         /\ CurrentSeqno \in 1 .. SeqnoRange - 1
         /\ \A i \in 1 .. Len(packets) : packets[i].seqno \in 1 .. SeqnoRange - 1
<1>1. packets \in Seq([dest : Dests, seqno : 1 .. SeqnoRange - 1])
  BY DEF CsmaInv, CsmaTypeOK
<1>2. \A i \in 1 .. Len(packets) : packets[i] \in [dest : Dests, seqno : 1 .. SeqnoRange - 1]
  BY <1>1, ElementOfSeq
<1> QED
  BY <1>1, <1>2, CsmaFacts, LenProperties

\* Packets with the same number are whole rounds apart.
LEMMA SameSeqno ==
  ASSUME CsmaInv, SeqnosRotate, NEW p \in 1 .. Len(packets),
         NEW q \in 1 .. Len(packets), packets[p].seqno = packets[q].seqno
  PROVE  (p - q) % (SeqnoRange - 1) = 0
<1> DEFINE M == SeqnoRange - 1
<1>1. /\ M \in Nat \ {0} /\ Len(packets) \in Nat /\ CurrentSeqno \in Int
      /\ packets[p].seqno \in Int
  BY PacketFacts, CsmaAssumption
<1>2. PICK y \in Int :
        CurrentSeqno - packets[p].seqno = (Len(packets) + 1 - p) + y * M
  BY DEF SeqnosRotate
<1>3. PICK z \in Int :
        CurrentSeqno - packets[q].seqno = (Len(packets) + 1 - q) + z * M
  BY DEF SeqnosRotate
<1> HIDE DEF M
<1>4. p - q = (y - z) * M
  BY <1>1, <1>2, <1>3
<1>5. (p - q) % M = 0
  BY <1>1, <1>4, MultipleLeavesNothing
<1> QED
  BY <1>5 DEF M

LEMMA RotateOn ==
  ASSUME CsmaInv, SeqnosRotate, NEW d \in Dests, NumberPacket(d)
  PROVE  SeqnosRotate'
<1> DEFINE M == SeqnoRange - 1
           n == Len(packets)
<1>1. /\ M \in Nat \ {0} /\ n \in Nat /\ CurrentSeqno \in 1 .. M
      /\ \A i \in 1 .. n : packets[i].seqno \in Int
  BY PacketFacts, CsmaAssumption
<1>2. PICK r \in Int : CurrentSeqno' = CurrentSeqno + 1 + r * M
  <2>1. seqno' = (CurrentSeqno + 1) % SeqnoRange
    BY DEF NumberPacket
  <2>2. CASE CurrentSeqno = M
    <3>1. (CurrentSeqno + 1) % SeqnoRange = 0
      BY <1>1, <2>2, CsmaAssumption
    <3>2. CurrentSeqno' = 1 /\ 1 = CurrentSeqno + 1 + (-1) * M
      BY <1>1, <2>1, <2>2, <3>1 DEF CurrentSeqno
    <3> QED
      BY <3>2
  <2>3. CASE CurrentSeqno # M
    <3>1. (CurrentSeqno + 1) % SeqnoRange = CurrentSeqno + 1 /\ CurrentSeqno + 1 # 0
      <4>1. \A a \in Nat, b \in Nat \ {0} : a < b => a % b = a
        OBVIOUS
      <4>2. /\ CurrentSeqno + 1 \in Nat /\ CurrentSeqno + 1 # 0
            /\ CurrentSeqno + 1 < SeqnoRange /\ SeqnoRange \in Nat \ {0}
        BY <1>1, <2>3, CsmaAssumption
      <4> QED
        BY <4>1, <4>2
    <3>2. CurrentSeqno' = CurrentSeqno + 1 + 0 * M
      BY <1>1, <2>1, <3>1 DEF CurrentSeqno
    <3> QED
      BY <3>2
  <2> QED
    BY <2>2, <2>3
<1>3. /\ Len(packets') = n + 1
      /\ \A i \in 1 .. n : packets'[i] = packets[i]
      /\ packets'[n + 1].seqno = CurrentSeqno
  <2>1. packets'[n + 1] = [dest |-> d, seqno |-> CurrentSeqno]
    BY NumberFacts
  <2> QED
    BY <2>1, NumberFacts
<1>4. ASSUME NEW i \in 1 .. n + 1
      PROVE  \E z \in Int :
               CurrentSeqno' - packets'[i].seqno = (n + 2 - i) + z * M
  <2>1. CASE i = n + 1
    <3>1. CurrentSeqno' - packets'[i].seqno = (n + 2 - i) + r * M
      BY <1>1, <1>2, <1>3, <2>1
    <3> QED
      BY <3>1
  <2>2. CASE i # n + 1
    <3>1. i \in 1 .. n /\ packets'[i].seqno = packets[i].seqno
      BY <1>1, <1>3, <2>2
    <3>2. PICK z \in Int : CurrentSeqno - packets[i].seqno = (n + 1 - i) + z * M
      BY <3>1 DEF SeqnosRotate
    <3> HIDE DEF M, n
    <3>3. CurrentSeqno' - packets'[i].seqno = (n + 2 - i) + (z + r) * M
      BY <1>1, <1>2, <3>1, <3>2
    <3> QED
      BY <3>3
  <2> QED
    BY <2>1, <2>2
<1>5. Len(packets') + 1 = n + 2
  BY <1>1, <1>3
<1> QED
  BY <1>3, <1>4, <1>5 DEF SeqnosRotate

LEMMA RotateStep ==
  ASSUME CsmaInv, SeqnosRotate, [CsmaNext]_csmaVars PROVE SeqnosRotate'
<1>1. ASSUME NEW d \in Dests, Output(d) PROVE SeqnosRotate'
  BY <1>1, RotateOn DEF Output, AcceptPacket, RefusePacket
<1>2. CASE UNCHANGED <<seqno, packets>>
  BY <1>2 DEF SeqnosRotate, CurrentSeqno
<1> QED
  BY <1>1, <1>2 DEF CsmaNext, csmaVars, Transmit

\* What AckedIsDelivered says of one packet.
Explained(p) ==
  \/ p \in Delivered
  \/ \E q \in Delivered : q # p /\ (p - q) % (SeqnoRange - 1) = 0

LEMMA DeliveredFacts ==
  ASSUME LinkInv
  PROVE  /\ \A i \in 1 .. Len(delivered) : delivered[i] \in Delivered
         /\ \A q \in Delivered : \E i \in 1 .. Len(delivered) : q = delivered[i]
         /\ Delivered \subseteq 1 .. Len(packets)
<1>1. DOMAIN delivered = 1 .. Len(delivered)
  BY LenProperties DEF LinkInv, TypeOK
<1> QED
  BY <1>1 DEF LinkInv, DeliveredExist, Delivered

\* What was passed on stays so.
LEMMA DeliveredKept ==
  ASSUME LinkInv, [Next]_vars PROVE Delivered \subseteq Delivered'
<1>1. ASSUME NEW p, delivered' = Append(delivered, p), p \in 1 .. Len(packets)
      PROVE  Delivered \subseteq Delivered'
  <2>1. delivered \in Seq(Packet) /\ Len(delivered) \in Nat
    BY LenProperties DEF LinkInv, TypeOK
  <2>2. p \in Packet
    BY <1>1, CsmaFacts, CsmaAssumption DEF LinkInv, Packet
  <2>3. /\ delivered' \in Seq(Packet) /\ Len(delivered') = Len(delivered) + 1
        /\ \A i \in 1 .. Len(delivered) : delivered'[i] = delivered[i]
    BY <1>1, <2>1, <2>2, AppendProperties
  <2>4. \A i \in 1 .. Len(delivered) : delivered'[i] \in Delivered'
    <3>1. DOMAIN delivered' = 1 .. Len(delivered')
      BY <2>3, LenProperties
    <3> QED
      BY <2>1, <2>3, <3>1 DEF Delivered
  <2> QED
    BY <2>3, <2>4, DeliveredFacts
<1>2. ASSUME NEW d \in Dests, TransmitFrame(d) PROVE Delivered \subseteq Delivered'
  <2>1. /\ packet_queue[d] # << >>
        /\ \/ InputPacket(Head(packet_queue[d]))
           \/ UNCHANGED <<received_seqno, delivered>>
    BY <1>2 DEF TransmitFrame, Transmit
  <2>2. Head(packet_queue[d]) \in 1 .. Len(packets)
    BY <2>1, HeadIsPacket DEF LinkInv
  <2> QED
    BY <1>1, <2>1, <2>2 DEF InputPacket, Delivered
<1> QED
  BY <1>2 DEF Next, vars, OutputPacket, ForgetSeqno, Delivered

\* A frame that is heard was passed on, now or under the same number.
LEMMA HeardIsExplained ==
  ASSUME AckedInv, LinkInv', NEW p \in 1 .. Len(packets), UNCHANGED packets,
         InputPacket(p)
  PROVE  Explained(p)'
<1>1. CASE IsDuplicate(packets[p].seqno) /\ UNCHANGED <<received_seqno, delivered>>
  <2>1. received_seqno = packets[p].seqno /\ received_seqno # 0
    BY <1>1, PacketFacts DEF IsDuplicate, AckedInv, LinkInv
  <2>2. PICK i \in 1 .. Len(delivered) : packets[delivered[i]].seqno = packets[p].seqno
    BY <2>1 DEF AckedInv, LinkInv, HeardWasDelivered
  <2>3. delivered[i] \in Delivered /\ delivered[i] \in 1 .. Len(packets)
    BY <2>2, DeliveredFacts DEF AckedInv
  <2>4. (p - delivered[i]) % (SeqnoRange - 1) = 0
    BY <2>2, <2>3, SameSeqno DEF AckedInv, LinkInv
  <2>5. Explained(p)
    BY <2>3, <2>4 DEF Explained
  <2> QED
    BY <1>1, <2>5 DEF Explained, Delivered
<1>2. CASE delivered' = Append(delivered, p)
  <2>1. delivered \in Seq(Packet) /\ Len(delivered) \in Nat /\ p \in Packet
    BY LenProperties, CsmaFacts, CsmaAssumption DEF AckedInv, LinkInv, TypeOK, Packet
  <2>2. /\ delivered' \in Seq(Packet) /\ Len(delivered') = Len(delivered) + 1
        /\ delivered'[Len(delivered) + 1] = p
    BY <1>2, <2>1, AppendProperties
  <2>3. Len(delivered) + 1 \in DOMAIN delivered'
    BY <2>1, <2>2, LenProperties
  <2>4. p \in Delivered'
    BY <2>2, <2>3 DEF Delivered
  <2> QED
    BY <2>4 DEF Explained
<1> QED
  BY <1>1, <1>2 DEF InputPacket

LEMMA AckedStep == ASSUME AckedInv, [Next]_vars PROVE AckedInv'
<1>1. [CsmaNext]_csmaVars /\ LinkInv'
  BY LinkStep, NextLink DEF AckedInv
<1>2. SeqnosRotate'
  BY <1>1, RotateStep DEF AckedInv, LinkInv
<1>3. AckedIsDelivered <=>
        \A p \in 1 .. Len(packets) :
          packets[p].dest = Receiver /\ answer[p] = "OK" => Explained(p)
  BY PacketFacts DEF AckedInv, LinkInv, AckedIsDelivered, Explained
<1>4. AckedIsDelivered' <=>
        \A p \in 1 .. Len(packets') :
          packets'[p].dest = Receiver /\ answer'[p] = "OK" => Explained(p)'
  <2>1. DOMAIN packets' = 1 .. Len(packets')
    BY <1>1, LenProperties DEF LinkInv, CsmaInv, CsmaTypeOK
  <2> QED
    BY <2>1 DEF AckedIsDelivered, Explained
<1>5. \A p : Explained(p) => Explained(p)'
  BY DeliveredKept DEF AckedInv, Explained
<1>6. SUFFICES ASSUME NEW p \in 1 .. Len(packets'),
                      packets'[p].dest = Receiver, answer'[p] = "OK"
               PROVE  Explained(p)'
  BY <1>1, <1>2, <1>4 DEF AckedInv
<1>7. Len(packets) \in Nat /\ Len(packets) <= MaxPackets
  BY CsmaFacts DEF AckedInv, LinkInv
<1>8. CASE p \in 1 .. Len(packets) /\ answer[p] = "OK"
  <2>1. packets'[p] = packets[p]
    BY <1>1, <1>8, PacketsKept DEF AckedInv, LinkInv
  <2>2. Explained(p)
    BY <1>3, <1>6, <1>8, <2>1 DEF AckedInv
  <2> QED
    BY <1>5, <2>2
<1>9. ASSUME NEW d \in Dests, Output(d)
      PROVE  p \in 1 .. Len(packets) /\ answer[p] = "OK"
  <2>1. Len(packets') = Len(packets) + 1
    BY <1>9, NumberFacts DEF Output, AcceptPacket, RefusePacket, AckedInv, LinkInv
  <2>2. /\ answer \in [Packet -> Status \cup {"none"}]
        /\ answer' = answer \/ answer' = [answer EXCEPT ![Len(packets) + 1] = "ERR"]
    BY <1>9
    DEF Output, AcceptPacket, RefusePacket, AckedInv, LinkInv, CsmaInv, CsmaTypeOK
  <2>3. Len(packets) + 1 \in Packet /\ answer[Len(packets) + 1] = "none"
    BY <1>9, NumberFacts
    DEF Output, AcceptPacket, RefusePacket, AckedInv, LinkInv, CsmaInv,
        NoneAnsweredAhead, NumberPacket
  <2>4. p # Len(packets) + 1
    BY <1>6, <2>2, <2>3
  <2>5. p \in 1 .. Len(packets) /\ p \in Packet
    BY <1>6, <1>7, <2>1, <2>4, CsmaAssumption DEF Packet
  <2> QED
    BY <1>6, <2>2, <2>4, <2>5
<1>10. ASSUME NEW d \in Dests, TransmitFrame(d) PROVE Explained(p)'
  <2>1. PICK result \in Results(d) : \E heard \in HeardOutcomes(d, result) :
          /\ Transmit(d, result)
          /\ \/ heard /\ InputPacket(Head(packet_queue[d]))
             \/ ~heard /\ UNCHANGED <<received_seqno, delivered>>
    BY <1>10 DEF TransmitFrame
  <2>2. packet_queue[d] # << >> /\ UNCHANGED packets
    BY <2>1 DEF Transmit
  <2>3. /\ Head(packet_queue[d]) \in 1 .. Len(packets)
        /\ packets[Head(packet_queue[d])].dest = d
    BY <2>2, HeadIsPacket DEF AckedInv, LinkInv
  <2>4. p \in 1 .. Len(packets)
    BY <1>6, <2>2
  <2>5. CASE p = Head(packet_queue[d]) /\ result = "OK" /\ TxDone(d, result)
    <3>1. d = Receiver
      BY <1>6, <2>2, <2>3, <2>5
    <3>2. Receiver # Broadcast
      BY LinkAssumption
    <3>3. HeardOutcomes(d, result) = {TRUE}
      BY <2>5, <3>1, <3>2 DEF HeardOutcomes
    <3>4. InputPacket(p)
      BY <2>1, <2>5, <3>3
    <3> QED
      BY <1>1, <2>2, <2>4, <3>4, HeardIsExplained
  <2>6. CASE ~(p = Head(packet_queue[d]) /\ result = "OK" /\ TxDone(d, result))
    <3>1. /\ answer \in [Packet -> Status \cup {"none"}]
          /\ \/ answer' = answer
             \/ /\ TxDone(d, result)
                /\ answer' = [answer EXCEPT ![Head(packet_queue[d])] = result]
      BY <2>1
      DEF Transmit, TxDone, Rexmit, AckedInv, LinkInv, CsmaInv, CsmaTypeOK
    <3>2. p \in Packet
      BY <1>7, <2>4, CsmaAssumption DEF Packet
    <3>3. answer[p] = "OK"
      BY <1>6, <2>6, <3>1, <3>2
    <3> QED
      BY <1>8, <2>4, <3>3
  <2> QED
    BY <2>5, <2>6
<1>11. CASE UNCHANGED <<packets, answer>>
  BY <1>6, <1>8, <1>11
<1> QED
  BY <1>8, <1>9, <1>10, <1>11 DEF Next, vars, OutputPacket, ForgetSeqno, csmaVars

\* A unicast packet reported as acknowledged was passed on by its receiver, or
\* a multiple of SeqnoRange - 1 packets lie between it and one that was.
THEOREM AcknowledgedIsDelivered == Spec => []AckedIsDelivered
<1>1. Init => AckedInv
  <2>1. Init => SeqnosRotate /\ AckedIsDelivered
    BY EmptySeq
    DEF Init, CsmaInit, SeqnosRotate, AckedIsDelivered
  <2> QED
    BY <2>1, InitLink DEF AckedInv
<1>2. AckedInv /\ [Next]_vars => AckedInv'
  BY AckedStep
<1> QED
  BY <1>1, <1>2, PTL DEF Spec, AckedInv

-----------------------------------------------------------------------------
(***************************************************************************)
(* The unicast channel.                                                    *)
(***************************************************************************)
Taken == Sublist(delivered, ToReceiver)

\* Packets that are handed over do not change what was taken.
LEMMA TakenKept ==
  ASSUME LinkInv, [CsmaNext]_csmaVars, UNCHANGED delivered
  PROVE  Taken' = Taken
<1>1. delivered \in Seq(Packet) /\ delivered' = delivered
  BY DEF LinkInv, TypeOK
<1>2. /\ packets \in Seq([dest : Dests, seqno : 1 .. SeqnoRange - 1])
      /\ packets' \in Seq([dest : Dests, seqno : 1 .. SeqnoRange - 1])
  BY NextCsma DEF LinkInv, CsmaInv, CsmaTypeOK
<1>3. ASSUME NEW i \in 1 .. Len(delivered)
      PROVE  delivered[i] \in ToReceiver <=> delivered[i] \in ToReceiver'
  <2>1. delivered[i] \in 1 .. Len(packets)
    BY DEF LinkInv, DeliveredExist
  <2>2. /\ delivered[i] \in 1 .. Len(packets')
        /\ packets'[delivered[i]] = packets[delivered[i]]
    BY <2>1, PacketsKept DEF LinkInv
  <2>3. DOMAIN packets = 1 .. Len(packets) /\ DOMAIN packets' = 1 .. Len(packets')
    BY <1>2, LenProperties
  <2> QED
    BY <2>1, <2>2, <2>3 DEF ToReceiver
<1>4. Sublist(delivered, ToReceiver) = Sublist(delivered, ToReceiver')
  BY <1>1, <1>3, SublistSame
<1> QED
  BY <1>1, <1>4 DEF Taken

\* What a transmission to d adds.
LEMMA TakenGrows ==
  ASSUME LinkInv, NEW d \in Dests, packet_queue[d] # << >>, UNCHANGED packets,
         InputPacket(Head(packet_queue[d]))
  PROVE  \/ Taken' = Taken
         \/ d = Receiver /\ Taken' = Append(Taken, Head(packet_queue[d]))
<1> DEFINE p == Head(packet_queue[d])
<1>1. p \in 1 .. Len(packets) /\ packets[p].dest = d
  BY HeadIsPacket DEF LinkInv
<1>2. /\ delivered \in Seq(Packet)
      /\ packets \in Seq([dest : Dests, seqno : 1 .. SeqnoRange - 1])
      /\ Len(packets) <= MaxPackets /\ Len(packets) \in Nat
  BY CsmaFacts DEF LinkInv, TypeOK, CsmaInv, CsmaTypeOK
<1>3. p \in Packet /\ DOMAIN packets = 1 .. Len(packets)
  BY <1>1, <1>2, CsmaAssumption, LenProperties DEF Packet
<1>4. ToReceiver' = ToReceiver
  BY DEF ToReceiver
<1>5. p \in ToReceiver <=> d = Receiver
  BY <1>1, <1>3 DEF ToReceiver
<1>6. CASE delivered' = delivered
  BY <1>4, <1>6 DEF Taken
<1>7. CASE delivered' = Append(delivered, p)
  <2>1. Taken' = IF p \in ToReceiver THEN Append(Taken, p) ELSE Taken
    <3>1. Sublist(Append(delivered, p), ToReceiver) =
            IF p \in ToReceiver THEN Append(Taken, p) ELSE Taken
      <4>1. delivered \in Seq(Packet) /\ p \in Packet
        BY <1>2, <1>3
      <4> HIDE DEF p
      <4> QED
        BY <4>1, SublistOfAppend DEF Taken
    <3>2. Taken' = Sublist(Append(delivered, p), ToReceiver)
      BY <1>4, <1>7 DEF Taken
    <3> QED
      BY <3>1, <3>2
  <2> QED
    BY <1>5, <2>1
<1> QED
  BY <1>6, <1>7 DEF InputPacket

LEMMA ChannelStep ==
  ASSUME LinkInv, [Next]_vars PROVE [Channel!Next]_(Channel!vars)
<1> DEFINE queue == packet_queue[Receiver]
<1>1. Receiver \in Dests /\ packet_queue \in [Dests -> Seq(Packet)]
  BY LinkAssumption DEF LinkInv, CsmaInv, CsmaTypeOK
<1>2. [CsmaNext]_csmaVars
  BY LinkStep
<1>3. SUFFICES \/ Taken' = Taken /\ queue' = queue
               \/ Taken' = Taken /\ \E p \in Packet : queue' = Append(queue, p)
               \/ /\ queue # << >>
                  /\ Taken' = Append(Taken, Head(queue)) \/ Taken' = Taken
                  /\ queue' = Tail(queue) \/ queue' = queue
  BY DEF Channel!Next, Channel!Send, Channel!Attempt, Channel!vars, Taken
<1>4. ASSUME NEW d \in Dests, OutputPacket(d)
      PROVE  Taken' = Taken /\ (queue' = queue \/ \E p \in Packet : queue' = Append(queue, p))
  <2>1. Taken' = Taken
    BY <1>2, <1>4, TakenKept DEF OutputPacket
  <2>2. CASE AcceptPacket(d)
    <3>1. Len(packets) + 1 \in Packet
      BY <2>2, NewPacket DEF LinkInv, AcceptPacket, NumberPacket
    <3>2. packet_queue' =
            [packet_queue EXCEPT ![d] = Append(packet_queue[d], Len(packets) + 1)]
      BY <2>2 DEF AcceptPacket, Enqueued
    <3>3. queue' = queue \/ queue' = Append(queue, Len(packets) + 1)
      BY <1>1, <3>2
    <3> QED
      BY <2>1, <3>1, <3>3
  <2>3. CASE RefusePacket(d)
    BY <2>1, <2>3 DEF RefusePacket
  <2> QED
    BY <1>4, <2>2, <2>3 DEF OutputPacket, Output
<1>5. ASSUME NEW d \in Dests, TransmitFrame(d)
      PROVE  \/ Taken' = Taken /\ queue' = queue
             \/ /\ queue # << >>
                /\ Taken' = Append(Taken, Head(queue)) \/ Taken' = Taken
                /\ queue' = Tail(queue) \/ queue' = queue
  <2>1. PICK result \in Results(d) : Transmit(d, result)
    BY <1>5 DEF TransmitFrame
  <2>2. /\ packet_queue[d] # << >> /\ UNCHANGED packets
        /\ \/ packet_queue' = packet_queue
           \/ packet_queue' = [packet_queue EXCEPT ![d] = Tail(packet_queue[d])]
    BY <2>1 DEF Transmit, TxDone, Rexmit
  <2>3. \/ Taken' = Taken
        \/ d = Receiver /\ Taken' = Append(Taken, Head(packet_queue[d]))
    <3>1. CASE InputPacket(Head(packet_queue[d]))
      BY <2>2, <3>1, TakenGrows
    <3>2. CASE UNCHANGED delivered
      BY <1>2, <3>2, TakenKept
    <3> QED
      BY <1>5, <3>1, <3>2 DEF TransmitFrame
  <2>4. CASE d = Receiver
    BY <1>1, <2>2, <2>3, <2>4
  <2>5. CASE d # Receiver
    BY <1>1, <2>2, <2>3, <2>5
  <2> QED
    BY <2>4, <2>5
<1>6. CASE ForgetSeqno \/ UNCHANGED vars
  <2>1. UNCHANGED <<packet_queue, delivered>>
    BY <1>6 DEF ForgetSeqno, vars, csmaVars
  <2> QED
    BY <1>2, <2>1, TakenKept
<1> QED
  BY <1>4, <1>5, <1>6 DEF Next

\* For the receiver of its unicasts a sender is a queue: frames are lost or
\* repeated at its head, never overtaken, and not heard once they have left.
THEOREM ImplementsChannel == Spec => ImplementsUnicastChannel
<1>1. Init => Channel!Init
  <2> SUFFICES ASSUME Init PROVE Channel!Init
    OBVIOUS
  <2>1. packet_queue[Receiver] = << >> /\ delivered = << >>
    BY LinkAssumption DEF Init, CsmaInit
  <2>2. Sublist(<< >>, ToReceiver) = << >>
    <3>1. << >> \in Seq(Packet) /\ Len(<< >>) = 0
      BY EmptySeq
    <3> QED
      BY <3>1, KeptSteps
  <2> QED
    BY <2>1, <2>2 DEF Channel!Init
<1>2. LinkInv /\ [Next]_vars => [Channel!Next]_(Channel!vars)
  BY ChannelStep
<1> QED
  BY <1>1, <1>2, SpecLink, PTL DEF Spec, ImplementsUnicastChannel, Channel!Spec
=============================================================================
