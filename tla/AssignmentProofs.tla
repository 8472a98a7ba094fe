-------------------------- MODULE AssignmentProofs --------------------------
(***************************************************************************)
(* Proofs about the HLMAC assignment, for every network, every loss, delay *)
(* and overtaking of messages, and any number of rounds.                   *)
(***************************************************************************)
EXTENDS Assignment, RecursionProofs

\* The head of n's table is of a later round than ts, or of ts itself with the
\* given address.
HeadCovers(n, ts, addr) ==
  /\ hlmac_table[n] # << >>
  /\ \/ HeadEntry(n).timestamp > ts
     \/ HeadEntry(n).timestamp = ts /\ HeadEntry(n).address = addr

\* o extends the given address.
Extends(o, prefix) ==
  o.address = hlmac_add_new_id(prefix, number_id[o.from][o.to])

-----------------------------------------------------------------------------
\* The id appended last and what it was appended to can be read off.
LEMMA AddIdInjective ==
  ASSUME NEW s \in Address, NEW t \in Address, NEW x \in Nat, NEW y \in Nat,
         hlmac_add_new_id(s, x) = hlmac_add_new_id(t, y)
  PROVE  s = t /\ x = y
BY AppendInjective DEF Address, hlmac_add_new_id

LEMMA AddIdType ==
  ASSUME NEW s \in Address, NEW x \in Nat
  PROVE  /\ hlmac_add_new_id(s, x) \in Address
         /\ Len(hlmac_add_new_id(s, x)) = Len(s) + 1
BY DEF Address, hlmac_add_new_id

LEMMA NeighbourCount ==
  ASSUME NEW n \in Nodes
  PROVE  number_of_neighbours(n) \in Nat
<1>1. IsFiniteSet(Nbr[n])
  BY AssignmentAssumption, FS_Subset
<1> QED
  BY <1>1, FS_CardinalityType DEF number_of_neighbours

\* hlmactable_add returns a table whose head is the old one's, or, when the
\* old table is empty or of an earlier round, the new entry.
LEMMA TableAddProperties ==
  ASSUME NEW table \in Seq(Entry), NEW addr \in Address,
         NEW ts \in 0 .. MaxRound
  PROVE  /\ hlmactable_add(table, addr, ts) \in Seq(Entry)
         /\ IsAdded(table, ts) => hlmactable_add(table, addr, ts) # << >>
<1>1. Cleaned(table, ts) \in Seq(Entry)
  BY EmptySeq DEF Cleaned
<1>2. [address |-> addr, timestamp |-> ts] \in Entry
  BY DEF Entry
<1> QED
  BY <1>1, <1>2, AppendProperties DEF hlmactable_add

\* With one address per node.
LEMMA SingleAddProperties ==
  ASSUME MaxHlmac = 1, NEW table \in Seq(Entry), Len(table) <= 1,
         NEW addr \in Address, NEW ts \in 0 .. MaxRound
  PROVE  /\ IsAdded(table, ts) <=> (table = << >> \/ ts > table[1].timestamp)
         /\ IsAdded(table, ts) =>
              hlmactable_add(table, addr, ts) =
                << [address |-> addr, timestamp |-> ts] >>
         /\ ~IsAdded(table, ts) => hlmactable_add(table, addr, ts) = table
<1>1. TableCapacity \in Nat \ {0} /\ Len(table) \in Nat
  BY HlmacAssumption, LenProperties
<1>2. table # << >> => Len(table) = 1
  <2>1. table # << >> => Len(table) \in Nat \ {0}
    BY EmptySeq
  <2>2. \A k \in Nat \ {0} : k <= 1 => k = 1
    OBVIOUS
  <2> QED
    BY <2>1, <2>2, Zenon
<1>3. Len(<< >>) = 0
  OBVIOUS
<1>4. IsAdded(table, ts) <=> Cleaned(table, ts) = << >>
  BY <1>1, <1>2, <1>3 DEF IsAdded, HasRoom, Cleaned
<1>5. Append(<< >>, [address |-> addr, timestamp |-> ts]) =
        << [address |-> addr, timestamp |-> ts] >>
  OBVIOUS
<1> QED
  BY <1>4, <1>5 DEF Cleaned, hlmactable_add

LEMMA QuotientBelow ==
  ASSUME NEW a \in Int, NEW b \in Nat \ {0}
  PROVE  a \div b \in Int /\ (a \div b) * b <= a
OBVIOUS

\* The bytes of the timestamp, which the test before the first entry forgets.
TimestampSize == 4

\* A payload is within its buffer, or has a single entry and is longer by the
\* timestamp at most.
FitsBuffer(payload) ==
  \/ PayloadLength(payload) <= payload.size
  \/ /\ Cardinality(payload.to) = 1
     /\ PayloadLength(payload) <= payload.size + TimestampSize

OverrunBounded ==
  \A n \in Nodes : \A i \in 1 .. Len(payload_entry_list[n]) :
    FitsBuffer(payload_entry_list[n][i])

\* As many entries as EntriesThatFit grants are within the buffer, but for the
\* timestamp when it is a single one.
LEMMA GrantedFit ==
  ASSUME NEW len \in Nat, NEW mac \in Nat, NEW r \in Nat \ {0},
         r <= EntriesThatFit(len, mac)
  PROVE  \/ 5 + len + r * (AddrSize + 1) <= mac
         \/ r = 1 /\ 5 + len + r * (AddrSize + 1) <= mac + 4
<1> DEFINE entry == AddrSize + 1
           left == mac - (5 + len)
           room == left \div entry
<1>1. entry \in Nat \ {0} /\ left \in Int /\ AddrSize \in Nat
  BY AssignmentAssumption
<1>2. room \in Int /\ room * entry <= left
  BY <1>1, QuotientBelow, Zenon
<1>3. mac >= len + 2 + AddrSize
  BY <1>1 DEF EntriesThatFit
<1>4. CASE room < 1
  <2>1. r = 1
    BY <1>3, <1>4 DEF EntriesThatFit
  <2> QED
    BY <1>1, <1>3, <2>1
<1>5. CASE ~ (room < 1)
  <2>1. r <= room
    BY <1>3, <1>5 DEF EntriesThatFit
  <2> HIDE DEF room, entry
  <2>2. r * entry <= room * entry
    BY <1>1, <1>2, <2>1
  <2>3. r * entry \in Int /\ room * entry \in Int
    BY <1>1, <1>2
  <2>4. r * entry <= left
    BY <1>1, <1>2, <2>2, <2>3
  <2>5. 5 + len + r * entry <= mac
    BY <2>3, <2>4
  <2> QED
    BY <2>5 DEF entry
<1> QED
  BY <1>4, <1>5

\* So do the recipients that are chosen.
LEMMA ChosenFit ==
  ASSUME NEW n \in Nodes, NEW addr \in Address, NEW sender,
         NEW mac \in MacPayloads,
         NEW R \in RecipientChoices(n, addr, sender, mac), R # {}
  PROVE  \/ 5 + Len(addr) + Cardinality(R) * (AddrSize + 1) <= mac
         \/ /\ Cardinality(R) = 1
            /\ 5 + Len(addr) + Cardinality(R) * (AddrSize + 1) <= mac + 4
<1> DEFINE others == Nbr[n] \ {sender}
<1>1. IsFiniteSet(others) /\ R \subseteq others /\ IsFiniteSet(R)
  <2>1. IsFiniteSet(Nbr[n]) /\ R \subseteq others
    BY AssignmentAssumption, FS_Subset DEF RecipientChoices
  <2> QED
    BY <2>1, FS_Subset
<1>2. Cardinality(R) \in Nat \ {0} /\ Cardinality(others) \in Nat
  BY <1>1, FS_CardinalityType, FS_EmptySet
<1>3. Len(addr) \in Nat /\ mac \in Nat
  BY AssignmentAssumption, LenProperties DEF Address
<1>4. EntriesThatFit(Len(addr), mac) \in Int
  BY <1>3, AssignmentAssumption DEF EntriesThatFit
<1>5. Cardinality(R) <= EntriesThatFit(Len(addr), mac)
  BY <1>2, <1>4 DEF RecipientChoices
<1> QED
  BY <1>2, <1>3, <1>5, GrantedFit, Zenon

\* What queueing a SetHLMAC does to the queues and timers.
LEMMA QueueProperties ==
  ASSUME AssignmentTypeOK, NEW n \in Nodes, NEW addr \in Address,
         NEW sender, NEW ts \in 0 .. MaxRound,
         QueueSetHlmac(n, addr, sender, ts)
  PROVE  /\ payload_entry_list' \in [Nodes -> Seq(Payload)]
         /\ send_sethlmac_timer' \in [Nodes -> BOOLEAN]
         /\ TimerMatchesQueue => TimerMatchesQueue'
         /\ \A k \in Nodes : \A i \in 1 .. Len(payload_entry_list'[k]) :
              \/ /\ i \in 1 .. Len(payload_entry_list[k])
                 /\ payload_entry_list'[k][i] = payload_entry_list[k][i]
              \/ /\ k = n
                 /\ payload_entry_list'[k][i].timestamp = ts
                 /\ payload_entry_list'[k][i].prefix = addr
                 /\ payload_entry_list'[k][i].to \subseteq Nbr[n]
                 /\ FitsBuffer(payload_entry_list'[k][i])
<1> DEFINE Queued(mac, R) ==
        \/ /\ R = {}
           /\ UNCHANGED <<payload_entry_list, send_sethlmac_timer>>
        \/ /\ R # {}
           /\ payload_entry_list' = [payload_entry_list EXCEPT ![n] =
                Append(@, [timestamp |-> ts, prefix |-> addr, to |-> R,
                           size |-> mac])]
           /\ send_sethlmac_timer' = [send_sethlmac_timer EXCEPT ![n] =
                @ \/ payload_entry_list[n] = << >>]
<1>0. PICK mac \in MacPayloads :
        \E R \in RecipientChoices(n, addr, sender, mac) : Queued(mac, R)
  BY DEF QueueSetHlmac
<1>1. PICK R \in RecipientChoices(n, addr, sender, mac) : Queued(mac, R)
  BY <1>0
<1>2. R \subseteq Nbr[n] /\ R \subseteq Nodes
  BY AssignmentAssumption DEF RecipientChoices
<1>3. /\ payload_entry_list \in [Nodes -> Seq(Payload)]
      /\ send_sethlmac_timer \in [Nodes -> BOOLEAN]
  BY DEF AssignmentTypeOK
<1>4. CASE R = {}
  BY <1>1, <1>3, <1>4 DEF TimerMatchesQueue
<1>5. CASE R # {}
  <2> DEFINE e == [timestamp |-> ts, prefix |-> addr, to |-> R, size |-> mac]
  <2>1. /\ e \in Payload /\ e.timestamp = ts /\ e.prefix = addr /\ e.to = R
        /\ e.size = mac
    BY <1>2 DEF Payload
  <2>2. payload_entry_list' =
          [payload_entry_list EXCEPT ![n] = Append(@, e)]
    BY <1>1, <1>5
  <2> HIDE DEF e
  <2>9. FitsBuffer(e)
    BY <1>5, <2>1, ChosenFit DEF FitsBuffer, PayloadLength, TimestampSize
  <2>3. payload_entry_list[n] \in Seq(Payload)
    BY <1>3
  <2>4. /\ Append(payload_entry_list[n], e) \in Seq(Payload)
        /\ Append(payload_entry_list[n], e) # << >>
        /\ Len(Append(payload_entry_list[n], e)) = Len(payload_entry_list[n]) + 1
        /\ \A i \in 1 .. Len(payload_entry_list[n]) :
             Append(payload_entry_list[n], e)[i] = payload_entry_list[n][i]
        /\ Append(payload_entry_list[n], e)[Len(payload_entry_list[n]) + 1] = e
        /\ Len(payload_entry_list[n]) \in Nat
    BY <2>1, <2>3, AppendProperties, LenProperties
  <2>5. payload_entry_list' \in [Nodes -> Seq(Payload)]
    BY <1>3, <2>2, <2>4
  <2>6. send_sethlmac_timer' \in [Nodes -> BOOLEAN]
    BY <1>1, <1>3, <1>5
  <2>7. ASSUME TimerMatchesQueue PROVE TimerMatchesQueue'
    <3>1. \A k \in Nodes \ {n} :
            /\ payload_entry_list'[k] = payload_entry_list[k]
            /\ send_sethlmac_timer'[k] = send_sethlmac_timer[k]
      BY <1>1, <1>3, <1>5
    <3>2. payload_entry_list'[n] # << >>
      BY <1>3, <2>2, <2>4
    <3>3. send_sethlmac_timer'[n] =
            (send_sethlmac_timer[n] \/ payload_entry_list[n] = << >>)
      BY <1>1, <1>3, <1>5
    <3> QED
      BY <2>7, <3>1, <3>2, <3>3, Zenon DEF TimerMatchesQueue
  <2>8. ASSUME NEW k \in Nodes, NEW i \in 1 .. Len(payload_entry_list'[k])
        PROVE  \/ /\ i \in 1 .. Len(payload_entry_list[k])
                  /\ payload_entry_list'[k][i] = payload_entry_list[k][i]
               \/ k = n /\ payload_entry_list'[k][i] = e
    <3>1. CASE k # n
      BY <1>3, <2>2, <2>8, <3>1
    <3>2. CASE k = n
      <4>1. payload_entry_list'[k] = Append(payload_entry_list[n], e)
        BY <1>3, <2>2, <3>2
      <4>2. \/ i \in 1 .. Len(payload_entry_list[n])
            \/ i = Len(payload_entry_list[n]) + 1
        BY <2>4, <2>8, <4>1
      <4> QED
        BY <2>4, <3>2, <4>1, <4>2
    <3> QED
      BY <3>1, <3>2
  <2> QED
    BY <1>2, <2>1, <2>5, <2>6, <2>7, <2>8, <2>9, Zenon
<1> QED
  BY <1>4, <1>5

\* What sending the head of a queue does to the queues and timers.
LEMMA SendProperties ==
  ASSUME AssignmentTypeOK, TimerMatchesQueue, NEW n \in Nodes, SendMessage(n)
  PROVE  /\ payload_entry_list' \in [Nodes -> Seq(Payload)]
         /\ send_sethlmac_timer' \in [Nodes -> BOOLEAN]
         /\ TimerMatchesQueue'
         /\ 1 \in 1 .. Len(payload_entry_list[n])
         /\ Head(payload_entry_list[n]) = payload_entry_list[n][1]
         /\ payload_entry_list[n][1] \in Payload
         /\ \A k \in Nodes : \A i \in 1 .. Len(payload_entry_list'[k]) :
              \E j \in 1 .. Len(payload_entry_list[k]) :
                payload_entry_list'[k][i] = payload_entry_list[k][j]
<1>1. /\ payload_entry_list \in [Nodes -> Seq(Payload)]
      /\ send_sethlmac_timer \in [Nodes -> BOOLEAN]
  BY DEF AssignmentTypeOK
<1>2. /\ payload_entry_list[n] \in Seq(Payload)
      /\ payload_entry_list[n] # << >>
  BY <1>1 DEF SendMessage, TimerMatchesQueue
<1>3. Len(payload_entry_list[n]) \in Nat \ {0}
  BY <1>2, EmptySeq
<1>4. /\ Tail(payload_entry_list[n]) \in Seq(Payload)
      /\ Len(Tail(payload_entry_list[n])) = Len(payload_entry_list[n]) - 1
      /\ \A i \in 1 .. Len(Tail(payload_entry_list[n])) :
           Tail(payload_entry_list[n])[i] = payload_entry_list[n][i + 1]
  BY <1>2, HeadTailProperties
<1>5. payload_entry_list' =
        [payload_entry_list EXCEPT ![n] = Tail(payload_entry_list[n])]
  BY DEF SendMessage
<1>6. /\ payload_entry_list' \in [Nodes -> Seq(Payload)]
      /\ payload_entry_list'[n] = Tail(payload_entry_list[n])
      /\ \A k \in Nodes \ {n} : payload_entry_list'[k] = payload_entry_list[k]
  BY <1>1, <1>4, <1>5
<1>7. /\ send_sethlmac_timer' \in [Nodes -> BOOLEAN]
      /\ send_sethlmac_timer'[n] = (Len(payload_entry_list[n]) > 1)
      /\ \A k \in Nodes \ {n} : send_sethlmac_timer'[k] = send_sethlmac_timer[k]
  BY <1>1, <1>3 DEF SendMessage, MoreQueued
<1>8. Len(payload_entry_list[n]) > 1 <=> Tail(payload_entry_list[n]) # << >>
  <2>1. Tail(payload_entry_list[n]) = << >> <=> Len(Tail(payload_entry_list[n])) = 0
    BY <1>4, EmptySeq
  <2>2. \A len \in Nat \ {0} : len > 1 <=> len - 1 # 0
    OBVIOUS
  <2> QED
    BY <1>3, <1>4, <2>1, <2>2, Zenon
<1>9. TimerMatchesQueue'
  BY <1>6, <1>7, <1>8, Zenon DEF TimerMatchesQueue
<1>10. /\ 1 \in 1 .. Len(payload_entry_list[n])
       /\ payload_entry_list[n][1] \in Payload
       /\ Head(payload_entry_list[n]) = payload_entry_list[n][1]
  BY <1>2, <1>3, ElementOfSeq
<1>11. ASSUME NEW k \in Nodes, NEW i \in 1 .. Len(payload_entry_list'[k])
       PROVE  \E j \in 1 .. Len(payload_entry_list[k]) :
                payload_entry_list'[k][i] = payload_entry_list[k][j]
  <2>1. CASE k # n
    BY <1>6, <1>11, <2>1
  <2>2. CASE k = n
    <3>1. i \in 1 .. Len(Tail(payload_entry_list[n]))
      BY <1>6, <1>11, <2>2
    <3>2. i + 1 \in 1 .. Len(payload_entry_list[n])
      BY <1>3, <1>4, <3>1
    <3> QED
      BY <1>4, <1>6, <2>2, <3>1, <3>2
  <2> QED
    BY <2>1, <2>2
<1> QED
  BY <1>6, <1>7, <1>9, <1>10, <1>11

-----------------------------------------------------------------------------
(***************************************************************************)
(* Shape of the state, timer against queue.                                *)
(***************************************************************************)
ShapeInv == AssignmentTypeOK /\ TimerMatchesQueue

LEMMA InitShape == AssignmentInit => ShapeInv
<1> SUFFICES ASSUME AssignmentInit PROVE ShapeInv
  OBVIOUS
<1>1. MaxRound \in Nat
  BY AssignmentAssumption
<1>2. << >> \in Seq(Entry) /\ << >> \in Seq(Payload)
  BY EmptySeq
<1> QED
  BY <1>1, <1>2 DEF AssignmentInit, ShapeInv, AssignmentTypeOK, TimerMatchesQueue

LEMMA StartRoundShape == ShapeInv /\ StartRound => ShapeInv'
<1> SUFFICES ASSUME ShapeInv, StartRound PROVE ShapeInv'
  OBVIOUS
<1> DEFINE addr == hlmac_create_root_addr(1)
<1>1. timestamp + 1 \in 0 .. MaxRound /\ Root \in Nodes
  BY AssignmentAssumption DEF ShapeInv, AssignmentTypeOK, StartRound
<1>2. addr \in Address
  BY DEF hlmac_create_root_addr, Address
<1>3. /\ payload_entry_list' \in [Nodes -> Seq(Payload)]
      /\ send_sethlmac_timer' \in [Nodes -> BOOLEAN]
      /\ TimerMatchesQueue'
  BY <1>1, <1>2, QueueProperties DEF ShapeInv, StartRound
<1>4. hlmactable_add(hlmac_table[Root], addr, timestamp + 1) \in Seq(Entry)
  BY <1>1, <1>2, TableAddProperties DEF ShapeInv, AssignmentTypeOK
<1>5. hlmac_table' \in [Nodes -> Seq(Entry)]
  BY <1>1, <1>4 DEF ShapeInv, AssignmentTypeOK, StartRound
<1>6. number_of_neighbours_flag' \in [Nodes -> Int]
  BY <1>1, NeighbourCount DEF ShapeInv, AssignmentTypeOK, StartRound
<1>7. flag' \in [Nodes -> [Nodes -> {-1, 0, 1}]]
  BY <1>1 DEF ShapeInv, AssignmentTypeOK, StartRound
<1>8. assigned' \subseteq [node : Nodes, timestamp : 0 .. MaxRound, address : Address]
  BY <1>1, <1>2 DEF ShapeInv, AssignmentTypeOK, StartRound
<1>9. /\ timestamp' \in -1 .. MaxRound
      /\ last_timestamp' \in [Nodes -> 0 .. MaxRound]
      /\ offers' \subseteq Offer
  BY <1>1, AssignmentAssumption DEF ShapeInv, AssignmentTypeOK, StartRound
<1> QED
  BY <1>3, <1>5, <1>6, <1>7, <1>8, <1>9 DEF ShapeInv, AssignmentTypeOK

LEMMA SendMessageShape ==
  ASSUME ShapeInv, NEW n \in Nodes, SendMessage(n) PROVE ShapeInv'
<1> DEFINE payload == Head(payload_entry_list[n])
<1>1. /\ payload_entry_list' \in [Nodes -> Seq(Payload)]
      /\ send_sethlmac_timer' \in [Nodes -> BOOLEAN]
      /\ TimerMatchesQueue'
      /\ payload \in Payload
  BY SendProperties DEF ShapeInv
<1>2. \A m \in payload.to :
        [from |-> n, to |-> m, timestamp |-> payload.timestamp,
         address |-> hlmac_add_new_id(payload.prefix, number_id[n][m])] \in Offer
  <2>1. payload.to \subseteq Nodes /\ payload.prefix \in Address
          /\ payload.timestamp \in 0 .. MaxRound
    BY <1>1 DEF Payload
  <2>2. ASSUME NEW m \in payload.to
        PROVE  hlmac_add_new_id(payload.prefix, number_id[n][m]) \in Address
    <3>1. number_id[n][m] \in Nat
      BY <2>1, AssignmentAssumption
    <3> QED
      BY <2>1, <3>1, AddIdType
  <2> HIDE DEF payload
  <2> QED
    BY <2>1, <2>2 DEF Offer
<1>3. offers' \subseteq Offer
  BY <1>2 DEF SendMessage, Frame, ShapeInv, AssignmentTypeOK
<1> QED
  BY <1>1, <1>3 DEF ShapeInv, AssignmentTypeOK, SendMessage

LEMMA MarkSenderType ==
  ASSUME NEW o, NEW flags \in [Nodes -> {-1, 0, 1}], NEW mark \in {-1, 1}
  PROVE  MarkSender(o, flags, mark) \in [Nodes -> {-1, 0, 1}]
BY DEF MarkSender

LEMMA AcceptOfferShape ==
  ASSUME ShapeInv, NEW o \in offers, AcceptOffer(o) PROVE ShapeInv'
<1>1. /\ o \in Offer /\ o.to \in Nodes /\ o.from \in Nodes
      /\ o.timestamp \in 0 .. MaxRound /\ o.address \in Address
  BY DEF ShapeInv, AssignmentTypeOK, Offer
<1>2. /\ payload_entry_list' \in [Nodes -> Seq(Payload)]
      /\ send_sethlmac_timer' \in [Nodes -> BOOLEAN]
      /\ TimerMatchesQueue'
  BY <1>1, QueueProperties DEF ShapeInv, AcceptOffer
<1>3. hlmactable_add(hlmac_table[o.to], o.address, o.timestamp) \in Seq(Entry)
  BY <1>1, TableAddProperties DEF ShapeInv, AssignmentTypeOK
<1>4. hlmac_table' \in [Nodes -> Seq(Entry)]
  BY <1>1, <1>3 DEF ShapeInv, AssignmentTypeOK, AcceptOffer
<1>5. flag' \in [Nodes -> [Nodes -> {-1, 0, 1}]]
  <2>1. ResetFlags(o) \in [Nodes -> {-1, 0, 1}]
    BY <1>1 DEF ResetFlags, ShapeInv, AssignmentTypeOK
  <2>2. MarkSender(o, ResetFlags(o), 1) \in [Nodes -> {-1, 0, 1}]
    BY <2>1, MarkSenderType
  <2> QED
    BY <1>1, <2>2 DEF ShapeInv, AssignmentTypeOK, AcceptOffer
<1>6. number_of_neighbours_flag' \in [Nodes -> Int]
  BY <1>1, NeighbourCount DEF ShapeInv, AssignmentTypeOK, AcceptOffer
<1>7. last_timestamp' \in [Nodes -> 0 .. MaxRound]
  BY <1>1 DEF ShapeInv, AssignmentTypeOK, AcceptOffer
<1>8. assigned' \subseteq [node : Nodes, timestamp : 0 .. MaxRound, address : Address]
  BY <1>1 DEF ShapeInv, AssignmentTypeOK, AcceptOffer
<1>9. timestamp' \in -1 .. MaxRound /\ offers' \subseteq Offer
  BY DEF ShapeInv, AssignmentTypeOK, AcceptOffer
<1> QED
  BY <1>2, <1>4, <1>5, <1>6, <1>7, <1>8, <1>9 DEF ShapeInv, AssignmentTypeOK

LEMMA RefuseOfferShape ==
  ASSUME ShapeInv, NEW o \in offers, RefuseOffer(o) PROVE ShapeInv'
<1>1. /\ o \in Offer /\ o.to \in Nodes /\ o.from \in Nodes
      /\ o.timestamp \in 0 .. MaxRound /\ o.address \in Address
  BY DEF ShapeInv, AssignmentTypeOK, Offer
<1>2. hlmactable_add(hlmac_table[o.to], o.address, o.timestamp) \in Seq(Entry)
  BY <1>1, TableAddProperties DEF ShapeInv, AssignmentTypeOK
<1>3. hlmac_table' \in [Nodes -> Seq(Entry)]
  BY <1>1, <1>2 DEF ShapeInv, AssignmentTypeOK, RefuseOffer
<1>4. flag' \in [Nodes -> [Nodes -> {-1, 0, 1}]]
  <2>1. MarkSender(o, flag[o.to], -1) \in [Nodes -> {-1, 0, 1}]
    BY <1>1, MarkSenderType DEF ShapeInv, AssignmentTypeOK
  <2> QED
    BY <1>1, <2>1 DEF ShapeInv, AssignmentTypeOK, RefuseOffer
<1>5. number_of_neighbours_flag' \in [Nodes -> Int]
  BY <1>1 DEF ShapeInv, AssignmentTypeOK, RefuseOffer
<1>6. TimerMatchesQueue'
  BY DEF ShapeInv, TimerMatchesQueue, RefuseOffer
<1> QED
  BY <1>3, <1>4, <1>5, <1>6 DEF ShapeInv, AssignmentTypeOK, RefuseOffer

LEMMA NextShape == ShapeInv /\ [AssignmentNext]_assignmentVars => ShapeInv'
<1> SUFFICES ASSUME ShapeInv, [AssignmentNext]_assignmentVars PROVE ShapeInv'
  OBVIOUS
<1>1. CASE StartRound
  BY <1>1, StartRoundShape
<1>2. ASSUME NEW n \in Nodes, SendMessage(n) PROVE ShapeInv'
  BY <1>2, SendMessageShape
<1>3. ASSUME NEW o \in offers, AcceptOffer(o) PROVE ShapeInv'
  BY <1>3, AcceptOfferShape
<1>4. ASSUME NEW o \in offers, RefuseOffer(o) PROVE ShapeInv'
  BY <1>4, RefuseOfferShape
<1>5. ASSUME NEW o \in offers, DisregardOffer(o) \/ LoseOffer(o) PROVE ShapeInv'
  BY <1>5
  DEF ShapeInv, AssignmentTypeOK, TimerMatchesQueue, DisregardOffer, LoseOffer
<1>6. CASE UNCHANGED assignmentVars
  BY <1>6 DEF ShapeInv, AssignmentTypeOK, TimerMatchesQueue, assignmentVars
<1> QED
  BY <1>1, <1>2, <1>3, <1>4, <1>5, <1>6 DEF AssignmentNext

LEMMA SpecShape == AssignmentSpec => []ShapeInv
BY InitShape, NextShape, PTL DEF AssignmentSpec

\* Every reachable state has the shape AssignmentTypeOK describes: every
\* address a node stores, offers or has on its way is a sequence of ids, and
\* only what a SetHLMAC of the current rounds carries is ever stored.
THEOREM AssignmentTypeCorrect == AssignmentSpec => []AssignmentTypeOK
BY SpecShape, PTL DEF ShapeInv

\* The handler that pops the payload queue without a test never finds it
\* empty, and no payload is left without an armed timer.
THEOREM TimerCorrect == AssignmentSpec => []TimerMatchesQueue
BY SpecShape, PTL DEF ShapeInv

LEMMA NextFits ==
  ShapeInv /\ OverrunBounded /\ [AssignmentNext]_assignmentVars => OverrunBounded'
<1> SUFFICES ASSUME ShapeInv, OverrunBounded, [AssignmentNext]_assignmentVars
             PROVE  OverrunBounded'
  OBVIOUS
<1>0. AssignmentTypeOK /\ TimerMatchesQueue
  BY DEF ShapeInv
<1>1. ASSUME NEW n \in Nodes, NEW addr \in Address, NEW sender,
             NEW ts \in 0 .. MaxRound, QueueSetHlmac(n, addr, sender, ts)
      PROVE  OverrunBounded'
  <2>1. \A k \in Nodes : \A i \in 1 .. Len(payload_entry_list'[k]) :
          \/ /\ i \in 1 .. Len(payload_entry_list[k])
             /\ payload_entry_list'[k][i] = payload_entry_list[k][i]
          \/ FitsBuffer(payload_entry_list'[k][i])
    BY <1>0, <1>1, QueueProperties
  <2> QED
    BY <2>1 DEF OverrunBounded, FitsBuffer, PayloadLength
<1>2. CASE StartRound
  <2>1. timestamp + 1 \in 0 .. MaxRound /\ Root \in Nodes
    BY <1>0, <1>2, AssignmentAssumption DEF AssignmentTypeOK, StartRound
  <2>2. hlmac_create_root_addr(1) \in Address
    BY DEF hlmac_create_root_addr, Address
  <2> QED
    BY <1>1, <1>2, <2>1, <2>2 DEF StartRound
<1>3. ASSUME NEW n \in Nodes, SendMessage(n) PROVE OverrunBounded'
  <2>1. \A k \in Nodes : \A i \in 1 .. Len(payload_entry_list'[k]) :
          \E j \in 1 .. Len(payload_entry_list[k]) :
            payload_entry_list'[k][i] = payload_entry_list[k][j]
    BY <1>0, <1>3, SendProperties
  <2>2. ASSUME NEW k \in Nodes, NEW i \in 1 .. Len(payload_entry_list'[k])
        PROVE  FitsBuffer(payload_entry_list'[k][i])
    <3>1. PICK j \in 1 .. Len(payload_entry_list[k]) :
            payload_entry_list'[k][i] = payload_entry_list[k][j]
      BY <2>1
    <3>2. FitsBuffer(payload_entry_list[k][j])
      BY DEF OverrunBounded
    <3> QED
      BY <3>1, <3>2, Zenon
  <2> QED
    BY <2>2 DEF OverrunBounded, FitsBuffer, PayloadLength
<1>4. ASSUME NEW o \in offers, AcceptOffer(o) PROVE OverrunBounded'
  <2>1. o.to \in Nodes /\ o.timestamp \in 0 .. MaxRound /\ o.address \in Address
    BY <1>0 DEF AssignmentTypeOK, Offer
  <2> QED
    BY <1>1, <1>4, <2>1 DEF AcceptOffer
<1>5. ASSUME UNCHANGED payload_entry_list PROVE OverrunBounded'
  BY <1>5 DEF OverrunBounded, FitsBuffer, PayloadLength
<1> QED
  BY <1>2, <1>3, <1>4, <1>5
  DEF AssignmentNext, assignmentVars, RefuseOffer, DisregardOffer, LoseOffer

\* Whatever header max_payl() measures, however long the address and however
\* many the neighbours: the first entry of a SetHLMAC may be written past the
\* buffer, but by the four bytes of the timestamp at most and only when it is
\* the single one.
THEOREM OverrunIsBounded == AssignmentSpec => []OverrunBounded
<1>1. AssignmentInit => OverrunBounded
  <2>1. Len(<< >>) = 0
    OBVIOUS
  <2> QED
    BY <2>1 DEF AssignmentInit, OverrunBounded
<1>2. AssignmentSpec => []ShapeInv
  BY SpecShape
<1> QED
  BY <1>1, <1>2, NextFits, PTL DEF AssignmentSpec

\* A SetHLMAC with several entries is never written past its buffer: the loop
\* that adds entries counts the timestamp, and the overrun of the first entry
\* leaves no room for a second one.
THEOREM SeveralEntriesFitHolds == AssignmentSpec => []SeveralEntriesFit
<1>1. AssignmentTypeOK /\ OverrunBounded => SeveralEntriesFit
  <2> SUFFICES ASSUME AssignmentTypeOK, OverrunBounded,
                      NEW n \in Nodes,
                      NEW i \in 1 .. Len(payload_entry_list[n]),
                      Cardinality(payload_entry_list[n][i].to) > 1
               PROVE  PayloadLength(payload_entry_list[n][i])
                        <= payload_entry_list[n][i].size
    BY DEF SeveralEntriesFit
  <2>1. FitsBuffer(payload_entry_list[n][i])
    BY DEF OverrunBounded
  <2>2. Cardinality(payload_entry_list[n][i].to) # 1
    OBVIOUS
  <2> QED
    BY <2>1, <2>2 DEF FitsBuffer
<1>2. AssignmentSpec => []AssignmentTypeOK
  BY AssignmentTypeCorrect
<1> QED
  BY <1>1, <1>2, OverrunIsBounded, PTL

-----------------------------------------------------------------------------
(***************************************************************************)
(* Addresses.  Every address a node accepts is the root's one or extends   *)
(* an address a neighbour accepted in the same round by the id this        *)
(* neighbour gives the node; so do the addresses on their way.             *)
(***************************************************************************)
Record(n, ts, addr) == [node |-> n, timestamp |-> ts, address |-> addr]

IsRootRecord(a) == a.node = Root /\ a.address = << 1 >>

ExtendsRecord(a, p, prefix) ==
  /\ a.node \in Nbr[p]
  /\ a.address = hlmac_add_new_id(prefix, number_id[p][a.node])
  /\ Record(p, a.timestamp, prefix) \in assigned

Derived(a) ==
  \/ IsRootRecord(a)
  \/ \E p \in Nodes, prefix \in Address : ExtendsRecord(a, p, prefix)

AddressInv ==
  /\ \A n \in Nodes : \A i \in 1 .. Len(payload_entry_list[n]) :
       /\ payload_entry_list[n][i].to \subseteq Nbr[n]
       /\ Record(n, payload_entry_list[n][i].timestamp,
                 payload_entry_list[n][i].prefix) \in assigned
  /\ \A o \in offers : \E prefix \in Address :
       ExtendsRecord(Record(o.to, o.timestamp, o.address), o.from, prefix)
  /\ \A a \in assigned : Derived(a)
  /\ AddressesDistinct

LEMMA DerivedNotEmpty ==
  ASSUME AssignmentTypeOK, NEW a \in assigned, Derived(a)
  PROVE  a.address \in Address /\ Len(a.address) \in Nat \ {0}
<1>1. a.address \in Address /\ a.node \in Nodes
  BY DEF AssignmentTypeOK
<1>2. CASE IsRootRecord(a)
  BY <1>1, <1>2, EmptySeq DEF IsRootRecord, Address
<1>3. ASSUME NEW p \in Nodes, NEW prefix \in Address, ExtendsRecord(a, p, prefix)
      PROVE  Len(a.address) \in Nat \ {0}
  <2>1. number_id[p][a.node] \in Nat
    BY <1>1, AssignmentAssumption
  <2>2. Len(prefix) \in Nat
    BY LenProperties DEF Address
  <2>3. Len(a.address) = Len(prefix) + 1
    BY <1>3, <2>1, AddIdType DEF ExtendsRecord
  <2> QED
    BY <2>2, <2>3
<1> QED
  BY <1>1, <1>2, <1>3 DEF Derived

\* Two records of one round with the same address, one of which extends an
\* accepted address, are of the same node.
LEMMA SameAddressSameNode ==
  ASSUME AssignmentTypeOK, AddressInv, DistinctIds,
         NEW b \in assigned,
         NEW n \in Nodes, NEW ts, NEW addr,
         NEW p \in Nodes, NEW prefix \in Address,
         ExtendsRecord(Record(n, ts, addr), p, prefix),
         b.timestamp = ts, b.address = addr
  PROVE  b.node = n
<1>1. /\ n \in Nbr[p]
      /\ addr = hlmac_add_new_id(prefix, number_id[p][n])
      /\ Record(p, ts, prefix) \in assigned
  BY DEF ExtendsRecord, Record
<1>2. Len(prefix) \in Nat \ {0}
  <2>1. Derived(Record(p, ts, prefix))
    BY <1>1 DEF AddressInv
  <2>2. Len(Record(p, ts, prefix).address) \in Nat \ {0}
    BY <1>1, <2>1, DerivedNotEmpty
  <2> QED
    BY <2>2 DEF Record
<1>3. number_id[p][n] \in Nat
  BY AssignmentAssumption
<1>4. Len(addr) = Len(prefix) + 1
  BY <1>1, <1>3, AddIdType
<1>5. ~ IsRootRecord(b)
  <2>1. IsRootRecord(b) => Len(addr) = 1
    BY DEF IsRootRecord
  <2>2. \A k \in Nat \ {0} : k + 1 # 1
    OBVIOUS
  <2> QED
    BY <1>2, <1>4, <2>1, <2>2, Zenon
<1>6. PICK q \in Nodes, prefix2 \in Address : ExtendsRecord(b, q, prefix2)
  BY <1>5 DEF AddressInv, Derived
<1>7. b.node \in Nodes /\ number_id[q][b.node] \in Nat
  <2>1. b.node \in Nodes
    BY DEF AssignmentTypeOK
  <2> QED
    BY <2>1, AssignmentAssumption
<1>8. prefix2 = prefix /\ number_id[q][b.node] = number_id[p][n]
  <2>1. hlmac_add_new_id(prefix2, number_id[q][b.node])
          = hlmac_add_new_id(prefix, number_id[p][n])
    BY <1>1, <1>6 DEF ExtendsRecord
  <2> QED
    BY <1>3, <1>7, <2>1, AddIdInjective
<1>9. q = p
  <2>1. Record(q, ts, prefix) \in assigned
    BY <1>6, <1>8 DEF ExtendsRecord
  <2>2. \A c, d \in assigned :
          c.timestamp = d.timestamp /\ c.address = d.address => c.node = d.node
    BY DEF AddressInv, AddressesDistinct
  <2>3. Record(q, ts, prefix).node = Record(p, ts, prefix).node
    BY <1>1, <2>1, <2>2 DEF Record
  <2> QED
    BY <2>3 DEF Record
<1> QED
  BY <1>1, <1>6, <1>8, <1>9 DEF ExtendsRecord, DistinctIds

\* A derivation stands when more addresses are accepted.
LEMMA DerivationKept ==
  ASSUME assigned \subseteq assigned', NEW a, NEW p \in Nodes,
         NEW prefix \in Address, ExtendsRecord(a, p, prefix)
  PROVE  ExtendsRecord(a, p, prefix)'
BY DEF ExtendsRecord

LEMMA StartRoundAddresses ==
  ASSUME ShapeInv, ShapeInv', AddressInv, StartRound PROVE AddressInv'
<1> DEFINE addr == hlmac_create_root_addr(1)
<1> DEFINE new == Record(Root, timestamp + 1, addr)
<1>1. /\ assigned' = assigned \cup {new}
      /\ addr = << 1 >> /\ addr \in Address /\ Len(addr) = 1
      /\ timestamp + 1 \in 0 .. MaxRound /\ Root \in Nodes
  BY AssignmentAssumption
  DEF StartRound, Record, hlmac_create_root_addr, Address, ShapeInv,
      AssignmentTypeOK
<1>2. \A n \in Nodes : \A i \in 1 .. Len(payload_entry_list'[n]) :
        /\ payload_entry_list'[n][i].to \subseteq Nbr[n]
        /\ Record(n, payload_entry_list'[n][i].timestamp,
                  payload_entry_list'[n][i].prefix) \in assigned'
  <2>1. SUFFICES ASSUME NEW n \in Nodes, NEW i \in 1 .. Len(payload_entry_list'[n])
                 PROVE  /\ payload_entry_list'[n][i].to \subseteq Nbr[n]
                        /\ Record(n, payload_entry_list'[n][i].timestamp,
                             payload_entry_list'[n][i].prefix) \in assigned'
    OBVIOUS
  <2>2. \/ /\ i \in 1 .. Len(payload_entry_list[n])
           /\ payload_entry_list'[n][i] = payload_entry_list[n][i]
        \/ /\ n = Root
           /\ payload_entry_list'[n][i].timestamp = timestamp + 1
           /\ payload_entry_list'[n][i].prefix = addr
           /\ payload_entry_list'[n][i].to \subseteq Nbr[Root]
    BY <1>1, <2>1, QueueProperties DEF ShapeInv, StartRound
  <2> QED
    BY <1>1, <2>1, <2>2 DEF AddressInv
<1>3. \A o \in offers' : \E prefix \in Address :
        ExtendsRecord(Record(o.to, o.timestamp, o.address), o.from, prefix)'
  <2>1. offers' = offers
    BY DEF StartRound
  <2>2. \A o \in offers : o.from \in Nodes
    BY DEF ShapeInv, AssignmentTypeOK, Offer
  <2> QED
    BY <1>1, <2>1, <2>2 DEF AddressInv, ExtendsRecord, Record
<1>4. \A a \in assigned' : Derived(a)'
  <2>1. IsRootRecord(new)
    BY <1>1 DEF IsRootRecord, Record
  <2> QED
    BY <1>1, <2>1, DerivationKept DEF AddressInv, Derived, IsRootRecord
<1>5. AddressesDistinct'
  <2>1. SUFFICES ASSUME DistinctIds
                 PROVE  \A a, b \in assigned' :
                          a.timestamp = b.timestamp /\ a.address = b.address
                            => a.node = b.node
    BY DEF AddressesDistinct, DistinctIds
  <2>2. \A a \in assigned : a.address = addr => a.node = Root
    <3>1. SUFFICES ASSUME NEW a \in assigned, a.address = addr,
                          NEW p \in Nodes, NEW prefix \in Address,
                          ExtendsRecord(a, p, prefix)
                   PROVE  FALSE
      BY <1>1 DEF AddressInv, Derived, IsRootRecord
    <3>2. Record(p, a.timestamp, prefix) \in assigned
      BY <3>1 DEF ExtendsRecord
    <3>3. Len(prefix) \in Nat \ {0}
      <4>1. Len(Record(p, a.timestamp, prefix).address) \in Nat \ {0}
        BY <3>2, DerivedNotEmpty DEF AddressInv, ShapeInv
      <4> QED
        BY <4>1 DEF Record
    <3>4. number_id[p][a.node] \in Nat
      BY <3>1, AssignmentAssumption DEF ShapeInv, AssignmentTypeOK
    <3>5. Len(a.address) = Len(prefix) + 1
      BY <3>1, <3>4, AddIdType DEF ExtendsRecord
    <3>6. \A k \in Nat \ {0} : k + 1 # 1
      OBVIOUS
    <3> HIDE DEF addr
    <3> QED
      BY <1>1, <3>1, <3>3, <3>5, <3>6, Zenon
  <2>3. \A a, b \in assigned :
          a.timestamp = b.timestamp /\ a.address = b.address => a.node = b.node
    BY <2>1 DEF AddressInv, AddressesDistinct
  <2>4. new.node = Root /\ new.address = addr
    BY DEF Record
  <2> HIDE DEF new, addr
  <2> QED
    BY <1>1, <2>2, <2>3, <2>4
<1> QED
  BY <1>2, <1>3, <1>4, <1>5 DEF AddressInv

LEMMA SendMessageAddresses ==
  ASSUME ShapeInv, AddressInv, NEW n \in Nodes, SendMessage(n)
  PROVE  AddressInv'
<1>0. PICK payload \in Payload : payload = Head(payload_entry_list[n])
  BY SendProperties DEF ShapeInv
<1>1. /\ 1 \in 1 .. Len(payload_entry_list[n])
      /\ payload = payload_entry_list[n][1]
      /\ \A k \in Nodes : \A i \in 1 .. Len(payload_entry_list'[k]) :
           \E j \in 1 .. Len(payload_entry_list[k]) :
             payload_entry_list'[k][i] = payload_entry_list[k][j]
  BY <1>0, SendProperties DEF ShapeInv
<1>2. assigned' = assigned
  BY DEF SendMessage
<1>3. /\ payload.to \subseteq Nbr[n] /\ payload.prefix \in Address
      /\ Record(n, payload.timestamp, payload.prefix) \in assigned
  BY <1>1 DEF AddressInv, Payload
<1>4. \A k \in Nodes : \A i \in 1 .. Len(payload_entry_list'[k]) :
        /\ payload_entry_list'[k][i].to \subseteq Nbr[k]
        /\ Record(k, payload_entry_list'[k][i].timestamp,
                  payload_entry_list'[k][i].prefix) \in assigned'
  BY <1>1, <1>2 DEF AddressInv
<1>5. ASSUME NEW o \in offers'
      PROVE  \E prefix \in Address :
        ExtendsRecord(Record(o.to, o.timestamp, o.address), o.from, prefix)'
  <2>1. CASE o \in offers
    BY <1>2, <2>1 DEF AddressInv, ExtendsRecord, Record
  <2>2. CASE o \notin offers
    <3>1. PICK m \in payload.to :
            o = [from |-> n, to |-> m, timestamp |-> payload.timestamp,
                 address |-> hlmac_add_new_id(payload.prefix, number_id[n][m])]
      BY <1>0, <1>5, <2>2 DEF SendMessage, Frame
    <3>2. /\ o.from = n /\ o.to = m /\ o.timestamp = payload.timestamp
          /\ o.address = hlmac_add_new_id(payload.prefix, number_id[n][m])
      BY <3>1
    <3>3. ExtendsRecord(Record(o.to, o.timestamp, o.address), o.from,
                        payload.prefix)'
      BY <1>2, <1>3, <3>1, <3>2 DEF ExtendsRecord, Record
    <3> QED
      BY <1>3, <3>3
  <2> QED
    BY <2>1, <2>2
<1>6. (\A a \in assigned : Derived(a))' /\ AddressesDistinct'
  BY <1>2
  DEF AddressInv, Derived, ExtendsRecord, IsRootRecord, AddressesDistinct
<1> QED
  BY <1>4, <1>5, <1>6 DEF AddressInv

LEMMA AcceptOfferAddresses ==
  ASSUME ShapeInv, AddressInv, NEW o \in offers, AcceptOffer(o)
  PROVE  AddressInv'
<1> DEFINE new == Record(o.to, o.timestamp, o.address)
<1>1. /\ o.to \in Nodes /\ o.from \in Nodes
      /\ o.timestamp \in 0 .. MaxRound /\ o.address \in Address
  BY DEF ShapeInv, AssignmentTypeOK, Offer
<1>2. assigned' = assigned \cup {new} /\ offers' \subseteq offers
  BY DEF AcceptOffer, Record
<1>3. PICK prefix \in Address : ExtendsRecord(new, o.from, prefix)
  BY DEF AddressInv
<1>4. \A n \in Nodes : \A i \in 1 .. Len(payload_entry_list'[n]) :
        /\ payload_entry_list'[n][i].to \subseteq Nbr[n]
        /\ Record(n, payload_entry_list'[n][i].timestamp,
                  payload_entry_list'[n][i].prefix) \in assigned'
  <2>1. SUFFICES ASSUME NEW n \in Nodes, NEW i \in 1 .. Len(payload_entry_list'[n])
                 PROVE  /\ payload_entry_list'[n][i].to \subseteq Nbr[n]
                        /\ Record(n, payload_entry_list'[n][i].timestamp,
                             payload_entry_list'[n][i].prefix) \in assigned'
    OBVIOUS
  <2>2. \/ /\ i \in 1 .. Len(payload_entry_list[n])
           /\ payload_entry_list'[n][i] = payload_entry_list[n][i]
        \/ /\ n = o.to
           /\ payload_entry_list'[n][i].timestamp = o.timestamp
           /\ payload_entry_list'[n][i].prefix = o.address
           /\ payload_entry_list'[n][i].to \subseteq Nbr[o.to]
    BY <1>1, <2>1, QueueProperties DEF ShapeInv, AcceptOffer
  <2> QED
    BY <1>2, <2>1, <2>2 DEF AddressInv
<1>5. \A q \in offers' : \E pre \in Address :
        ExtendsRecord(Record(q.to, q.timestamp, q.address), q.from, pre)'
  BY <1>2 DEF AddressInv, ExtendsRecord, Record
<1>6. ASSUME NEW a \in assigned' PROVE Derived(a)'
  <2>1. CASE a \in assigned
    BY <1>2, <2>1, DerivationKept DEF AddressInv, Derived, IsRootRecord
  <2>2. CASE a = new
    <3>1. ExtendsRecord(new, o.from, prefix)'
      BY <1>1, <1>2, <1>3, DerivationKept
    <3> HIDE DEF new
    <3> QED
      BY <1>1, <2>2, <3>1 DEF Derived
  <2> QED
    BY <1>2, <2>1, <2>2
<1>7. AddressesDistinct'
  <2>1. SUFFICES ASSUME DistinctIds
                 PROVE  \A a, b \in assigned' :
                          a.timestamp = b.timestamp /\ a.address = b.address
                            => a.node = b.node
    BY DEF AddressesDistinct, DistinctIds
  <2>2. \A b \in assigned :
          b.timestamp = o.timestamp /\ b.address = o.address => b.node = o.to
    BY <1>1, <1>3, <2>1, SameAddressSameNode DEF ShapeInv
  <2>3. \A a, b \in assigned :
          a.timestamp = b.timestamp /\ a.address = b.address => a.node = b.node
    BY <2>1 DEF AddressInv, AddressesDistinct
  <2>4. /\ new.node = o.to /\ new.timestamp = o.timestamp
        /\ new.address = o.address
    BY DEF Record
  <2> HIDE DEF new
  <2> QED
    BY <1>2, <2>2, <2>3, <2>4
<1> QED
  BY <1>4, <1>5, <1>6, <1>7 DEF AddressInv

LEMMA NextAddresses ==
  ShapeInv /\ ShapeInv' /\ AddressInv /\ [AssignmentNext]_assignmentVars
    => AddressInv'
<1> SUFFICES ASSUME ShapeInv, ShapeInv', AddressInv,
                    [AssignmentNext]_assignmentVars
             PROVE  AddressInv'
  OBVIOUS
<1>1. CASE StartRound
  BY <1>1, StartRoundAddresses
<1>2. ASSUME NEW n \in Nodes, SendMessage(n) PROVE AddressInv'
  BY <1>2, SendMessageAddresses
<1>3. ASSUME NEW o \in offers, AcceptOffer(o) PROVE AddressInv'
  BY <1>3, AcceptOfferAddresses
<1>4. ASSUME assigned' = assigned, payload_entry_list' = payload_entry_list,
             offers' \subseteq offers
      PROVE  AddressInv'
  BY <1>4
  DEF AddressInv, Derived, ExtendsRecord, IsRootRecord, Record, AddressesDistinct
<1>5. ASSUME NEW o \in offers, RefuseOffer(o) \/ DisregardOffer(o) \/ LoseOffer(o)
      PROVE  AddressInv'
  BY <1>4, <1>5 DEF RefuseOffer, DisregardOffer, LoseOffer
<1>6. CASE UNCHANGED assignmentVars
  BY <1>4, <1>6 DEF assignmentVars
<1> QED
  BY <1>1, <1>2, <1>3, <1>5, <1>6 DEF AssignmentNext

LEMMA InitAddresses == AssignmentInit => AddressInv
BY DEF AssignmentInit, AddressInv, AddressesDistinct

\* In every network whose nodes give their neighbours distinct ids, no address
\* is accepted by two nodes in one round.  (Two numbers wrap to one id, and
\* ids are reused, in neighbour tables that expire entries: see Neighbours.)
THEOREM AddressesAreDistinct == AssignmentSpec => []AddressesDistinct
<1>1. AssignmentSpec => [](ShapeInv /\ AddressInv)
  <2>1. AssignmentInit => ShapeInv /\ AddressInv
    BY InitShape, InitAddresses
  <2>2. ShapeInv /\ AddressInv /\ [AssignmentNext]_assignmentVars
          => (ShapeInv /\ AddressInv)'
    BY NextShape, NextAddresses
  <2> QED
    BY <2>1, <2>2, PTL DEF AssignmentSpec
<1>2. AddressInv => AddressesDistinct
  BY DEF AddressInv
<1> QED
  BY <1>1, <1>2, PTL

-----------------------------------------------------------------------------
(***************************************************************************)
(* The tree, with one address per node.  The head of a node's table only   *)
(* moves to later rounds, and it covers every address the node has queued  *)
(* or offered: it is of a later round, or is that very address.            *)
(***************************************************************************)
RootEntryIsCurrent ==
  \/ timestamp = -1 /\ hlmac_table[Root] = << >>
  \/ hlmac_table[Root] # << >> /\ HeadEntry(Root).timestamp = timestamp

LastTimestampIsHeads ==
  \A n \in Nodes \ {Root} :
    last_timestamp[n] = IF hlmac_table[n] = << >> THEN 0
                        ELSE HeadEntry(n).timestamp

QueuedAreCovered ==
  \A n \in Nodes : \A i \in 1 .. Len(payload_entry_list[n]) :
    /\ payload_entry_list[n][i].timestamp <= timestamp
    /\ HeadCovers(n, payload_entry_list[n][i].timestamp,
                  payload_entry_list[n][i].prefix)

OffersAreCovered ==
  \A o \in offers :
    /\ o.timestamp <= timestamp
    /\ \E prefix \in Address :
         Extends(o, prefix) /\ HeadCovers(o.from, o.timestamp, prefix)

TreeInv ==
  MaxHlmac = 1 =>
    /\ \A n \in Nodes : Len(hlmac_table[n]) <= 1
    /\ RootEntryIsCurrent
    /\ LastTimestampIsHeads
    /\ QueuedAreCovered
    /\ OffersAreCovered
    /\ TreeOrder

\* A step that leaves every table alone or moves its head to a later round.
HeadsAdvance ==
  \A k \in Nodes :
    \/ hlmac_table'[k] = hlmac_table[k]
    \/ /\ hlmac_table'[k] # << >>
       /\ \/ hlmac_table[k] = << >>
          \/ hlmac_table'[k][1].timestamp > hlmac_table[k][1].timestamp

LEMMA HeadType ==
  ASSUME AssignmentTypeOK, NEW n \in Nodes, hlmac_table[n] # << >>
  PROVE  /\ HeadEntry(n).timestamp \in 0 .. MaxRound
         /\ HeadEntry(n).address \in Address
<1>1. hlmac_table[n] \in Seq(Entry)
  BY DEF AssignmentTypeOK
<1>2. Len(hlmac_table[n]) \in Nat \ {0}
  BY <1>1, EmptySeq
<1>3. hlmac_table[n][1] \in Entry
  BY <1>1, <1>2, ElementOfSeq
<1> QED
  BY <1>3 DEF Entry, HeadEntry

LEMMA CoverKept ==
  ASSUME AssignmentTypeOK, AssignmentTypeOK', HeadsAdvance,
         NEW n \in Nodes, NEW ts \in Int, NEW addr, HeadCovers(n, ts, addr)
  PROVE  HeadCovers(n, ts, addr)'
<1>1. hlmac_table[n] # << >> /\ hlmac_table'[n] # << >>
  BY DEF HeadCovers, HeadsAdvance
<1>2. /\ HeadEntry(n).timestamp \in Int
      /\ hlmac_table'[n][1].timestamp \in Int
  <2>1. HeadEntry(n).timestamp \in 0 .. MaxRound
    BY <1>1, HeadType
  <2>2. hlmac_table'[n] \in Seq(Entry)
    BY DEF AssignmentTypeOK
  <2>3. hlmac_table'[n][1] \in Entry
    BY <1>1, <2>2, EmptySeq, ElementOfSeq
  <2> QED
    BY <2>1, <2>3, AssignmentAssumption DEF Entry
<1> QED
  BY <1>1, <1>2 DEF HeadCovers, HeadsAdvance, HeadEntry

\* With one address per node, what hlmactable_add does to a node's head.
LEMMA HeadAfterAdd ==
  ASSUME MaxHlmac = 1, AssignmentTypeOK, NEW n \in Nodes,
         Len(hlmac_table[n]) <= 1, NEW addr \in Address,
         NEW ts \in 0 .. MaxRound,
         hlmac_table' = [hlmac_table EXCEPT ![n] = hlmactable_add(@, addr, ts)]
  PROVE  /\ \A k \in Nodes \ {n} : hlmac_table'[k] = hlmac_table[k]
         /\ IsAdded(hlmac_table[n], ts) <=>
              (hlmac_table[n] = << >> \/ ts > HeadEntry(n).timestamp)
         /\ IsAdded(hlmac_table[n], ts) =>
              /\ hlmac_table'[n] # << >> /\ Len(hlmac_table'[n]) = 1
              /\ hlmac_table'[n][1].timestamp = ts
              /\ hlmac_table'[n][1].address = addr
         /\ ~IsAdded(hlmac_table[n], ts) => hlmac_table'[n] = hlmac_table[n]
         /\ Len(hlmac_table'[n]) <= 1
         /\ HeadsAdvance
<1>1. hlmac_table \in [Nodes -> Seq(Entry)] /\ hlmac_table[n] \in Seq(Entry)
  BY DEF AssignmentTypeOK
<1>2. /\ hlmac_table'[n] = hlmactable_add(hlmac_table[n], addr, ts)
      /\ \A k \in Nodes \ {n} : hlmac_table'[k] = hlmac_table[k]
  BY <1>1
<1>3. /\ IsAdded(hlmac_table[n], ts) <=>
           (hlmac_table[n] = << >> \/ ts > hlmac_table[n][1].timestamp)
      /\ IsAdded(hlmac_table[n], ts) =>
           hlmactable_add(hlmac_table[n], addr, ts) =
             << [address |-> addr, timestamp |-> ts] >>
      /\ ~IsAdded(hlmac_table[n], ts) =>
           hlmactable_add(hlmac_table[n], addr, ts) = hlmac_table[n]
  BY <1>1, SingleAddProperties
<1>4. LET t == << [address |-> addr, timestamp |-> ts] >>
      IN  t # << >> /\ Len(t) = 1 /\ t[1].timestamp = ts /\ t[1].address = addr
  OBVIOUS
<1>5. IsAdded(hlmac_table[n], ts) =>
        /\ hlmac_table'[n] # << >> /\ Len(hlmac_table'[n]) = 1
        /\ hlmac_table'[n][1].timestamp = ts
        /\ hlmac_table'[n][1].address = addr
  BY <1>2, <1>3, <1>4
<1>6. ~IsAdded(hlmac_table[n], ts) => hlmac_table'[n] = hlmac_table[n]
  BY <1>2, <1>3
<1>7. Len(hlmac_table'[n]) <= 1
  <2>0. 1 <= 1
    OBVIOUS
  <2>1. CASE IsAdded(hlmac_table[n], ts)
    BY <1>5, <2>0, <2>1, Zenon
  <2>2. CASE ~IsAdded(hlmac_table[n], ts)
    BY <1>6, <2>2
  <2> QED
    BY <2>1, <2>2
<1>8. HeadsAdvance
  <2>1. CASE IsAdded(hlmac_table[n], ts)
    BY <1>2, <1>3, <1>5, <2>1 DEF HeadsAdvance
  <2>2. CASE ~IsAdded(hlmac_table[n], ts)
    BY <1>2, <1>6, <2>2 DEF HeadsAdvance
  <2> QED
    BY <2>1, <2>2
<1> QED
  BY <1>2, <1>3, <1>5, <1>6, <1>7, <1>8, Zenon DEF HeadEntry

\* What TreeOrder says of one node, and of one parent of it.
ParentOrder(n, p) ==
  /\ n # Root
  /\ hlmac_table[n] # << >> /\ hlmac_table[p] # << >>
  /\ \/ HeadEntry(p).timestamp > HeadEntry(n).timestamp
     \/ /\ HeadEntry(p).timestamp = HeadEntry(n).timestamp
        /\ HeadEntry(n).address
             = hlmac_add_new_id(HeadEntry(p).address, number_id[p][n])

NodeOrder(n) ==
  /\ \A p, q \in Parents(n) : p = q
  /\ \A p \in Parents(n) : ParentOrder(n, p)

LEMMA TreeOrderByNode ==
  ASSUME MaxHlmac = 1
  PROVE  /\ TreeOrder <=> \A n \in Nodes : NodeOrder(n)
         /\ TreeOrder' <=> \A n \in Nodes : NodeOrder(n)'
BY Zenon DEF TreeOrder, NodeOrder, ParentOrder

\* The order of a node whose own table and parents stay is kept.
LEMMA NodeOrderKept ==
  ASSUME AssignmentTypeOK, AssignmentTypeOK', HeadsAdvance,
         NEW n \in Nodes, NodeOrder(n),
         hlmac_table'[n] = hlmac_table[n], Parents(n)' \subseteq Parents(n)
  PROVE  NodeOrder(n)'
<1>1. ASSUME NEW p \in Parents(n)' PROVE ParentOrder(n, p)'
  <2>1. p \in Parents(n) /\ p \in Nodes /\ ParentOrder(n, p)
    BY <1>1 DEF NodeOrder, Parents
  <2>2. HeadCovers(p, HeadEntry(n).timestamp, HeadEntry(p).address)
    BY <2>1 DEF ParentOrder, HeadCovers
  <2>3. HeadEntry(n).timestamp \in Int
    BY <2>1, HeadType, AssignmentAssumption DEF ParentOrder
  <2>4. /\ hlmac_table'[p] # << >>
        /\ \/ HeadEntry(p)'.timestamp > HeadEntry(n).timestamp
           \/ /\ HeadEntry(p)'.timestamp = HeadEntry(n).timestamp
              /\ HeadEntry(p)' = HeadEntry(p)
    <3>1. hlmac_table[p] # << >> /\ hlmac_table'[p] # << >>
      BY <2>1 DEF ParentOrder, HeadsAdvance
    <3>2. HeadEntry(p).timestamp \in Int
      BY <2>1, <3>1, HeadType, AssignmentAssumption
    <3>3. hlmac_table'[p][1].timestamp \in Int
      <4>1. hlmac_table'[p] \in Seq(Entry)
        BY <2>1 DEF AssignmentTypeOK
      <4>2. hlmac_table'[p][1] \in Entry
        BY <3>1, <4>1, EmptySeq, ElementOfSeq
      <4> QED
        BY <4>2, AssignmentAssumption DEF Entry
    <3> QED
      BY <2>1, <2>3, <3>1, <3>2, <3>3 DEF ParentOrder, HeadsAdvance, HeadEntry
  <2>5. HeadEntry(n)' = HeadEntry(n) /\ hlmac_table'[n] # << >>
    BY <2>1 DEF HeadEntry, ParentOrder
  <2> QED
    BY <2>1, <2>4, <2>5 DEF ParentOrder
<1> QED
  BY <1>1 DEF NodeOrder

\* What is queued and on its way stays covered by heads that only advance.
LEMMA QueuedCoverKept ==
  ASSUME AssignmentTypeOK, AssignmentTypeOK', HeadsAdvance, QueuedAreCovered,
         timestamp <= timestamp',
         NEW n \in Nodes, NEW ts \in Int, NEW addr,
         (ts <= timestamp /\ HeadCovers(n, ts, addr))',
         \A k \in Nodes : \A i \in 1 .. Len(payload_entry_list'[k]) :
           \/ /\ i \in 1 .. Len(payload_entry_list[k])
              /\ payload_entry_list'[k][i] = payload_entry_list[k][i]
           \/ /\ k = n
              /\ payload_entry_list'[k][i].timestamp = ts
              /\ payload_entry_list'[k][i].prefix = addr
  PROVE  QueuedAreCovered'
<1>1. SUFFICES ASSUME NEW k \in Nodes, NEW i \in 1 .. Len(payload_entry_list'[k]),
                      NEW t, t = payload_entry_list'[k][i].timestamp,
                      NEW pre, pre = payload_entry_list'[k][i].prefix
               PROVE  (t <= timestamp /\ HeadCovers(k, t, pre))'
  BY DEF QueuedAreCovered, HeadCovers, HeadEntry
<1>2. CASE /\ i \in 1 .. Len(payload_entry_list[k])
           /\ payload_entry_list'[k][i] = payload_entry_list[k][i]
  <2>1. payload_entry_list[k][i] \in Payload
    BY <1>2, ElementOfSeq DEF AssignmentTypeOK
  <2>2. t \in Int
    BY <1>1, <1>2, <2>1, AssignmentAssumption DEF Payload
  <2>3. t <= timestamp /\ HeadCovers(k, t, pre)
    BY <1>1, <1>2 DEF QueuedAreCovered
  <2>4. HeadCovers(k, t, pre)'
    BY <2>2, <2>3, CoverKept
  <2>5. timestamp \in Int /\ timestamp' \in Int
    BY AssignmentAssumption DEF AssignmentTypeOK
  <2> QED
    BY <2>2, <2>3, <2>4, <2>5
<1>3. CASE k = n /\ payload_entry_list'[k][i].timestamp = ts
             /\ payload_entry_list'[k][i].prefix = addr
  BY <1>1, <1>3
<1> QED
  BY <1>2, <1>3

LEMMA OffersCoverKept ==
  ASSUME AssignmentTypeOK, AssignmentTypeOK', HeadsAdvance, OffersAreCovered,
         timestamp <= timestamp', offers' \subseteq offers
  PROVE  OffersAreCovered'
<1>1. SUFFICES ASSUME NEW o \in offers'
               PROVE  /\ o.timestamp <= timestamp'
                      /\ \E prefix \in Address :
                           /\ Extends(o, prefix)
                           /\ HeadCovers(o.from, o.timestamp, prefix)'
  BY DEF OffersAreCovered, Extends
<1>2. PICK prefix \in Address :
        Extends(o, prefix) /\ HeadCovers(o.from, o.timestamp, prefix)
  BY <1>1 DEF OffersAreCovered
<1>3. o \in offers /\ o.from \in Nodes /\ o.timestamp \in Int
  <2>1. o \in Offer
    BY <1>1 DEF AssignmentTypeOK
  <2> QED
    BY <1>1, <2>1, AssignmentAssumption DEF Offer
<1>4. HeadCovers(o.from, o.timestamp, prefix)'
  BY <1>2, <1>3, CoverKept
<1>5. /\ timestamp \in Int /\ timestamp' \in Int
      /\ o.timestamp <= timestamp
  BY <1>3, AssignmentAssumption DEF AssignmentTypeOK, OffersAreCovered
<1> QED
  BY <1>2, <1>3, <1>4, <1>5

LEMMA StartRoundTree ==
  ASSUME MaxHlmac = 1, ShapeInv, ShapeInv', TreeInv, StartRound
  PROVE  TreeInv'
<1> DEFINE addr == hlmac_create_root_addr(1)
<1>1. /\ addr \in Address /\ Root \in Nodes
      /\ timestamp \in Int /\ timestamp + 1 \in 0 .. MaxRound
      /\ timestamp' = timestamp + 1 /\ offers' = offers
      /\ last_timestamp' = last_timestamp
      /\ flag' = [flag EXCEPT ![Root] = [m \in Nodes |-> 0]]
      /\ hlmac_table' = [hlmac_table EXCEPT ![Root] =
           hlmactable_add(@, addr, timestamp + 1)]
  BY AssignmentAssumption
  DEF StartRound, hlmac_create_root_addr, Address, ShapeInv, AssignmentTypeOK
<1>2. /\ AssignmentTypeOK /\ AssignmentTypeOK'
      /\ \A n \in Nodes : Len(hlmac_table[n]) <= 1
      /\ RootEntryIsCurrent /\ LastTimestampIsHeads
      /\ QueuedAreCovered /\ OffersAreCovered
      /\ \A n \in Nodes : NodeOrder(n)
  BY TreeOrderByNode DEF TreeInv, ShapeInv
<1> HIDE DEF addr
<1>3. /\ \A k \in Nodes \ {Root} : hlmac_table'[k] = hlmac_table[k]
      /\ IsAdded(hlmac_table[Root], timestamp + 1) <=>
           (hlmac_table[Root] = << >> \/ timestamp + 1 > HeadEntry(Root).timestamp)
      /\ IsAdded(hlmac_table[Root], timestamp + 1) =>
           /\ hlmac_table'[Root] # << >> /\ Len(hlmac_table'[Root]) = 1
           /\ hlmac_table'[Root][1].timestamp = timestamp + 1
           /\ hlmac_table'[Root][1].address = addr
      /\ Len(hlmac_table'[Root]) <= 1
      /\ HeadsAdvance
  BY <1>1, <1>2, HeadAfterAdd
<1>4. IsAdded(hlmac_table[Root], timestamp + 1)
  BY <1>1, <1>2, <1>3 DEF RootEntryIsCurrent
<1>5. (\A n \in Nodes : Len(hlmac_table[n]) <= 1)'
  BY <1>2, <1>3
<1>6. RootEntryIsCurrent' /\ LastTimestampIsHeads'
  BY <1>1, <1>2, <1>3, <1>4
  DEF RootEntryIsCurrent, LastTimestampIsHeads, HeadEntry
<1>7. QueuedAreCovered'
  <2>1. PICK ts \in Int, a \in Address : ts = timestamp + 1 /\ a = addr
    BY <1>1
  <2>2. (ts <= timestamp /\ HeadCovers(Root, ts, a))'
    BY <1>1, <1>3, <1>4, <2>1 DEF HeadCovers, HeadEntry
  <2>3. \A k \in Nodes : \A i \in 1 .. Len(payload_entry_list'[k]) :
          \/ /\ i \in 1 .. Len(payload_entry_list[k])
             /\ payload_entry_list'[k][i] = payload_entry_list[k][i]
          \/ /\ k = Root
             /\ payload_entry_list'[k][i].timestamp = ts
             /\ payload_entry_list'[k][i].prefix = a
    BY <1>1, <1>2, <2>1, QueueProperties DEF StartRound, addr
  <2>4. timestamp <= timestamp'
    BY <1>1
  <2> QED
    BY <1>1, <1>2, <1>3, <2>1, <2>2, <2>3, <2>4, QueuedCoverKept
<1>8. OffersAreCovered'
  BY <1>1, <1>2, <1>3, OffersCoverKept
<1>9. ASSUME NEW n \in Nodes PROVE NodeOrder(n)'
  <2>1. CASE n = Root
    <3>1. Parents(Root)' = {}
      BY <1>1, <1>2 DEF Parents, AssignmentTypeOK
    <3> QED
      BY <2>1, <3>1 DEF NodeOrder
  <2>2. CASE n # Root
    <3>1. Parents(n)' = Parents(n) /\ hlmac_table'[n] = hlmac_table[n]
      BY <1>1, <1>2, <1>3, <2>2 DEF Parents, AssignmentTypeOK
    <3> QED
      BY <1>2, <1>3, <3>1, NodeOrderKept
  <2> QED
    BY <2>1, <2>2
<1> QED
  BY <1>5, <1>6, <1>7, <1>8, <1>9, TreeOrderByNode DEF TreeInv

LEMMA SendMessageTree ==
  ASSUME MaxHlmac = 1, ShapeInv, ShapeInv', TreeInv,
         NEW n \in Nodes, SendMessage(n)
  PROVE  TreeInv'
<1>1. /\ AssignmentTypeOK /\ AssignmentTypeOK'
      /\ QueuedAreCovered /\ OffersAreCovered
  BY DEF TreeInv, ShapeInv
<1>2. /\ hlmac_table' = hlmac_table /\ flag' = flag
      /\ timestamp' = timestamp /\ last_timestamp' = last_timestamp
  BY DEF SendMessage
<1>3. QueuedAreCovered'
  <2>1. \A k \in Nodes : \A i \in 1 .. Len(payload_entry_list'[k]) :
          \E j \in 1 .. Len(payload_entry_list[k]) :
            payload_entry_list'[k][i] = payload_entry_list[k][j]
    BY SendProperties DEF ShapeInv
  <2>2. \A k \in Nodes : \A i \in 1 .. Len(payload_entry_list'[k]) :
          /\ payload_entry_list'[k][i].timestamp <= timestamp
          /\ HeadCovers(k, payload_entry_list'[k][i].timestamp,
                        payload_entry_list'[k][i].prefix)
    BY <1>1, <2>1, Zenon DEF QueuedAreCovered
  <2> QED
    BY <1>2, <2>2, Zenon DEF QueuedAreCovered, HeadCovers, HeadEntry
<1>4. OffersAreCovered'
  <2>1. PICK payload \in Payload : payload = Head(payload_entry_list[n])
    BY SendProperties DEF ShapeInv
  <2>2. /\ payload.timestamp <= timestamp /\ payload.prefix \in Address
        /\ HeadCovers(n, payload.timestamp, payload.prefix)
    BY <1>1, <2>1, SendProperties DEF ShapeInv, QueuedAreCovered, Payload
  <2>3. SUFFICES ASSUME NEW o \in offers'
                 PROVE  /\ o.timestamp <= timestamp
                        /\ \E prefix \in Address :
                             /\ Extends(o, prefix)
                             /\ HeadCovers(o.from, o.timestamp, prefix)
    BY <1>2 DEF OffersAreCovered, Extends, HeadCovers, HeadEntry
  <2>4. CASE o \in offers
    BY <1>1, <2>4 DEF OffersAreCovered
  <2>5. CASE o \notin offers
    <3>1. PICK m \in payload.to :
            o = [from |-> n, to |-> m, timestamp |-> payload.timestamp,
                 address |-> hlmac_add_new_id(payload.prefix, number_id[n][m])]
      BY <2>1, <2>3, <2>5 DEF SendMessage, Frame
    <3>2. /\ o.from = n /\ o.timestamp = payload.timestamp
          /\ Extends(o, payload.prefix)
      BY <3>1 DEF Extends
    <3> QED
      BY <2>2, <3>2
  <2> QED
    BY <2>4, <2>5
<1> QED
  BY <1>2, <1>3, <1>4
  DEF TreeInv, RootEntryIsCurrent, LastTimestampIsHeads, TreeOrder, Parents,
      HeadEntry

\* The root, which is never behind its own rounds, accepts no address.
LEMMA RootAcceptsNone ==
  ASSUME MaxHlmac = 1, AssignmentTypeOK, RootEntryIsCurrent, OffersAreCovered,
         \A n \in Nodes : Len(hlmac_table[n]) <= 1, NEW o \in offers, Added(o)
  PROVE  o.to # Root
<1>1. SUFFICES ASSUME o.to = Root PROVE FALSE
  OBVIOUS
<1>2. o \in Offer
  BY DEF AssignmentTypeOK
<1>3. o.to \in Nodes /\ o.timestamp \in 0 .. MaxRound /\ o.address \in Address
  BY <1>2 DEF Offer
<1>4. hlmac_table[o.to] \in Seq(Entry) /\ Len(hlmac_table[o.to]) <= 1
  BY <1>3 DEF AssignmentTypeOK
<1>5. hlmac_table[o.to] = << >> \/ o.timestamp > hlmac_table[o.to][1].timestamp
  BY <1>3, <1>4, SingleAddProperties DEF Added
<1>6. o.timestamp <= timestamp /\ o.timestamp \in Int /\ timestamp \in Int
      /\ 0 <= o.timestamp
  BY <1>3, AssignmentAssumption DEF OffersAreCovered, AssignmentTypeOK
<1> QED
  BY <1>1, <1>5, <1>6 DEF RootEntryIsCurrent, HeadEntry

LEMMA AcceptOfferTree ==
  ASSUME MaxHlmac = 1, ShapeInv, ShapeInv', TreeInv,
         NEW o \in offers, AcceptOffer(o)
  PROVE  TreeInv'
<1>1. /\ AssignmentTypeOK /\ AssignmentTypeOK'
      /\ \A n \in Nodes : Len(hlmac_table[n]) <= 1
      /\ RootEntryIsCurrent /\ LastTimestampIsHeads
      /\ QueuedAreCovered /\ OffersAreCovered
      /\ \A n \in Nodes : NodeOrder(n)
  BY TreeOrderByNode DEF TreeInv, ShapeInv
<1>2. PICK to \in Nodes, ts \in 0 .. MaxRound, addr \in Address :
        to = o.to /\ ts = o.timestamp /\ addr = o.address
  BY <1>1 DEF AssignmentTypeOK, Offer
<1>3. o.from \in Nodes /\ to # Root /\ ts \in Int /\ 0 <= ts
  <2>1. to # Root
    BY <1>1, <1>2, RootAcceptsNone DEF AcceptOffer
  <2>2. o \in Offer
    BY <1>1 DEF AssignmentTypeOK
  <2> QED
    BY <1>2, <2>1, <2>2, AssignmentAssumption DEF Offer
<1>4. /\ \A k \in Nodes \ {to} : hlmac_table'[k] = hlmac_table[k]
      /\ hlmac_table[to] = << >> \/ ts > HeadEntry(to).timestamp
      /\ hlmac_table'[to] # << >> /\ Len(hlmac_table'[to]) = 1
      /\ hlmac_table'[to][1].timestamp = ts
      /\ hlmac_table'[to][1].address = addr
      /\ HeadsAdvance
  <2>1. hlmac_table' = [hlmac_table EXCEPT ![to] = hlmactable_add(@, addr, ts)]
    BY <1>2 DEF AcceptOffer
  <2>2. IsAdded(hlmac_table[to], ts)
    BY <1>2 DEF AcceptOffer, Added
  <2>3. Len(hlmac_table[to]) <= 1
    BY <1>1
  <2>4. /\ \A k \in Nodes \ {to} : hlmac_table'[k] = hlmac_table[k]
        /\ IsAdded(hlmac_table[to], ts) <=>
             (hlmac_table[to] = << >> \/ ts > HeadEntry(to).timestamp)
        /\ IsAdded(hlmac_table[to], ts) =>
             /\ hlmac_table'[to] # << >> /\ Len(hlmac_table'[to]) = 1
             /\ hlmac_table'[to][1].timestamp = ts
             /\ hlmac_table'[to][1].address = addr
        /\ HeadsAdvance
    BY <1>1, <2>1, <2>3, HeadAfterAdd
  <2> QED
    BY <2>2, <2>4, Zenon
<1>5. NewRound(o)
  <2>1. last_timestamp[to] = IF hlmac_table[to] = << >> THEN 0
                             ELSE HeadEntry(to).timestamp
    BY <1>1, <1>3 DEF LastTimestampIsHeads
  <2> QED
    BY <1>2, <1>4, <2>1 DEF NewRound
<1>6. /\ timestamp' = timestamp /\ offers' \subseteq offers
      /\ \A n \in Nodes \ {to} : last_timestamp'[n] = last_timestamp[n]
      /\ last_timestamp'[to] = ts
      /\ \A n \in Nodes \ {to} : flag'[n] = flag[n]
      /\ flag'[to] = MarkSender(o, [m \in Nodes |-> 0], 1)
  BY <1>1, <1>2, <1>5 DEF AcceptOffer, AssignmentTypeOK, ResetFlags
<1>7. (\A n \in Nodes : Len(hlmac_table[n]) <= 1)'
  <2>1. 1 <= 1
    OBVIOUS
  <2> QED
    BY <1>1, <1>4, <2>1, Zenon
<1>8. RootEntryIsCurrent' /\ LastTimestampIsHeads'
  <2>1. RootEntryIsCurrent'
    BY <1>1, <1>3, <1>4, <1>6, AssignmentAssumption
    DEF RootEntryIsCurrent, HeadEntry
  <2>2. ASSUME NEW n \in Nodes \ {Root}
        PROVE  last_timestamp'[n] = IF hlmac_table'[n] = << >> THEN 0
                                    ELSE HeadEntry(n)'.timestamp
    BY <1>1, <1>4, <1>6 DEF LastTimestampIsHeads, HeadEntry
  <2> QED
    BY <2>1, <2>2 DEF LastTimestampIsHeads
<1>9. timestamp \in Int /\ timestamp <= timestamp' /\ ts <= timestamp
  BY <1>1, <1>2, <1>6, AssignmentAssumption DEF AssignmentTypeOK, OffersAreCovered
<1>10. QueuedAreCovered'
  <2>1. (ts <= timestamp /\ HeadCovers(to, ts, addr))'
    BY <1>4, <1>6, <1>9 DEF HeadCovers, HeadEntry
  <2>2. \A k \in Nodes : \A i \in 1 .. Len(payload_entry_list'[k]) :
          \/ /\ i \in 1 .. Len(payload_entry_list[k])
             /\ payload_entry_list'[k][i] = payload_entry_list[k][i]
          \/ /\ k = to
             /\ payload_entry_list'[k][i].timestamp = ts
             /\ payload_entry_list'[k][i].prefix = addr
    BY <1>1, <1>2, QueueProperties DEF AcceptOffer
  <2> QED
    BY <1>1, <1>3, <1>4, <1>9, <2>1, <2>2, QueuedCoverKept
<1>11. OffersAreCovered'
  BY <1>1, <1>4, <1>6, <1>9, OffersCoverKept
<1>12. ASSUME NEW n \in Nodes PROVE NodeOrder(n)'
  <2>1. CASE n = to
    <3>1. \A p \in Parents(to)' : p = o.from
      BY <1>6 DEF Parents, MarkSender
    <3>2. PICK prefix \in Address :
            Extends(o, prefix) /\ HeadCovers(o.from, ts, prefix)
      BY <1>1, <1>2 DEF OffersAreCovered
    <3>3. HeadCovers(o.from, ts, prefix)'
      BY <1>1, <1>3, <1>4, <3>2, CoverKept
    <3>4. ParentOrder(to, o.from)'
      BY <1>2, <1>3, <1>4, <3>2, <3>3
      DEF ParentOrder, HeadCovers, HeadEntry, Extends
    <3> QED
      BY <2>1, <3>1, <3>4 DEF NodeOrder
  <2>2. CASE n # to
    <3>1. Parents(n)' = Parents(n) /\ hlmac_table'[n] = hlmac_table[n]
      BY <1>4, <1>6, <2>2 DEF Parents
    <3> QED
      BY <1>1, <1>4, <3>1, NodeOrderKept
  <2> QED
    BY <2>1, <2>2
<1> QED
  BY <1>7, <1>8, <1>10, <1>11, <1>12, TreeOrderByNode DEF TreeInv

LEMMA RefuseOfferTree ==
  ASSUME MaxHlmac = 1, ShapeInv, ShapeInv', TreeInv,
         NEW o \in offers, RefuseOffer(o)
  PROVE  TreeInv'
<1>1. /\ AssignmentTypeOK /\ AssignmentTypeOK'
      /\ \A n \in Nodes : Len(hlmac_table[n]) <= 1
      /\ OffersAreCovered
      /\ \A n \in Nodes : NodeOrder(n)
  BY TreeOrderByNode DEF TreeInv, ShapeInv
<1>2. PICK to \in Nodes, ts \in 0 .. MaxRound, addr \in Address :
        to = o.to /\ ts = o.timestamp /\ addr = o.address
  BY <1>1 DEF AssignmentTypeOK, Offer
<1>3. hlmac_table' = hlmac_table
  <2>1. hlmac_table' = [hlmac_table EXCEPT ![to] = hlmactable_add(@, addr, ts)]
    BY <1>2 DEF RefuseOffer
  <2>2. ~IsAdded(hlmac_table[to], ts)
    BY <1>2 DEF RefuseOffer, Added
  <2>3. /\ \A k \in Nodes \ {to} : hlmac_table'[k] = hlmac_table[k]
        /\ ~IsAdded(hlmac_table[to], ts) => hlmac_table'[to] = hlmac_table[to]
    BY <1>1, <2>1, HeadAfterAdd
  <2> QED
    BY <1>1, <2>2, <2>3 DEF AssignmentTypeOK
<1>4. /\ timestamp' = timestamp /\ last_timestamp' = last_timestamp
      /\ payload_entry_list' = payload_entry_list
      /\ offers' \subseteq offers
      /\ \A n \in Nodes \ {to} : flag'[n] = flag[n]
      /\ flag'[to] = MarkSender(o, flag[to], -1)
  BY <1>1, <1>2 DEF RefuseOffer, AssignmentTypeOK
<1>5. HeadsAdvance /\ timestamp <= timestamp'
  <2>1. timestamp \in Int
    BY <1>1, AssignmentAssumption DEF AssignmentTypeOK
  <2> QED
    BY <1>3, <1>4, <2>1 DEF HeadsAdvance
<1>6. OffersAreCovered'
  BY <1>1, <1>4, <1>5, OffersCoverKept
<1>7. ASSUME NEW n \in Nodes PROVE NodeOrder(n)'
  <2>1. Parents(n)' \subseteq Parents(n)
    BY <1>4 DEF Parents, MarkSender
  <2> QED
    BY <1>1, <1>3, <1>5, <2>1, NodeOrderKept
<1>8. (\A n \in Nodes : NodeOrder(n))' /\ TreeOrder'
  BY <1>7, TreeOrderByNode
<1> QED
  BY <1>3, <1>4, <1>6, <1>8
  DEF TreeInv, RootEntryIsCurrent, LastTimestampIsHeads, QueuedAreCovered,
      HeadCovers, HeadEntry

LEMMA NextTree ==
  ShapeInv /\ ShapeInv' /\ TreeInv /\ [AssignmentNext]_assignmentVars => TreeInv'
<1> SUFFICES ASSUME ShapeInv, ShapeInv', TreeInv,
                    [AssignmentNext]_assignmentVars, MaxHlmac = 1
             PROVE  TreeInv'
  BY DEF TreeInv
<1>1. CASE StartRound
  BY <1>1, StartRoundTree
<1>2. ASSUME NEW n \in Nodes, SendMessage(n) PROVE TreeInv'
  BY <1>2, SendMessageTree
<1>3. ASSUME NEW o \in offers, AcceptOffer(o) PROVE TreeInv'
  BY <1>3, AcceptOfferTree
<1>4. ASSUME NEW o \in offers, RefuseOffer(o) PROVE TreeInv'
  BY <1>4, RefuseOfferTree
<1>5. ASSUME UNCHANGED <<timestamp, last_timestamp, hlmac_table, flag,
                         payload_entry_list>>,
             offers' \subseteq offers
      PROVE  TreeInv'
  BY <1>5
  DEF TreeInv, RootEntryIsCurrent, LastTimestampIsHeads, QueuedAreCovered,
      OffersAreCovered, Extends, HeadCovers, HeadEntry, TreeOrder, Parents
<1>6. ASSUME NEW o \in offers, DisregardOffer(o) \/ LoseOffer(o) PROVE TreeInv'
  BY <1>5, <1>6 DEF DisregardOffer, LoseOffer
<1>7. CASE UNCHANGED assignmentVars
  BY <1>5, <1>7 DEF assignmentVars
<1> QED
  BY <1>1, <1>2, <1>3, <1>4, <1>6, <1>7 DEF AssignmentNext

LEMMA InitTree == AssignmentInit => TreeInv
<1> SUFFICES ASSUME AssignmentInit PROVE TreeInv
  OBVIOUS
<1>1. \A n \in Nodes : hlmac_table[n] = << >> /\ Parents(n) = {}
  BY DEF AssignmentInit, Parents
<1>2. /\ Root \in Nodes /\ timestamp = -1 /\ offers = {}
      /\ \A n \in Nodes : last_timestamp[n] = 0 /\ payload_entry_list[n] = << >>
  BY AssignmentAssumption DEF AssignmentInit
<1> QED
  BY <1>1, <1>2
  DEF TreeInv, RootEntryIsCurrent, LastTimestampIsHeads, QueuedAreCovered,
      OffersAreCovered, TreeOrder

LEMMA SpecTree == AssignmentSpec => [](ShapeInv /\ TreeInv)
<1>1. AssignmentInit => ShapeInv /\ TreeInv
  BY InitShape, InitTree
<1>2. ShapeInv /\ TreeInv /\ [AssignmentNext]_assignmentVars
        => (ShapeInv /\ TreeInv)'
  BY NextShape, NextTree
<1> QED
  BY <1>1, <1>2, PTL DEF AssignmentSpec

\* However messages of different rounds overtake one another, a node with one
\* address has at most one parent, and that parent is in a later round or holds
\* the address the node's one extends.
THEOREM TreeOrderHolds == AssignmentSpec => []TreeOrder
<1>1. ShapeInv /\ TreeInv => TreeOrder
  BY DEF TreeInv, TreeOrder
<1> QED
  BY <1>1, SpecTree, PTL

\* Along parents the round grows, and within a round the address gets shorter:
\* of the nodes of a set in its latest round, one with a shortest address has
\* no parent in the set.
LEMMA OrderExcludesCycles ==
  ASSUME MaxHlmac = 1, AssignmentTypeOK, TreeOrder,
         NEW S \in SUBSET Nodes, S # {}
  PROVE  \E n \in S : Parents(n) \cap S = {}
<1>1. SUFFICES ASSUME \A n \in S : Parents(n) \cap S # {} PROVE FALSE
  OBVIOUS
<1> DEFINE Stamp(n) == HeadEntry(n).timestamp
           Length(n) == Len(HeadEntry(n).address)
<1>2. ASSUME NEW n \in S
      PROVE  Stamp(n) \in 0 .. MaxRound /\ Length(n) \in Nat
  <2>1. hlmac_table[n] # << >>
    BY <1>1, <1>2 DEF TreeOrder
  <2>2. HeadEntry(n).address \in Seq(Nat)
    BY <2>1, HeadType DEF Address
  <2> QED
    BY <2>1, <2>2, HeadType, LenProperties
<1>3. ASSUME NEW n \in S, NEW p \in Parents(n) \cap S
      PROVE  \/ Stamp(p) > Stamp(n)
             \/ Stamp(p) = Stamp(n) /\ Length(n) = Length(p) + 1
  <2>1. /\ hlmac_table[p] # << >> /\ p \in Nodes /\ n \in Nodes
        /\ \/ Stamp(p) > Stamp(n)
           \/ /\ Stamp(p) = Stamp(n)
              /\ HeadEntry(n).address
                   = hlmac_add_new_id(HeadEntry(p).address, number_id[p][n])
    BY <1>3 DEF TreeOrder
  <2>2. HeadEntry(p).address \in Address /\ number_id[p][n] \in Nat
    BY <2>1, HeadType, AssignmentAssumption
  <2> QED
    BY <2>1, <2>2, AddIdType
<1> HIDE DEF Stamp, Length
<1>4. PICK last \in S : \A n \in S : Stamp(n) <= Stamp(last)
  <2> DEFINE T == {MaxRound - Stamp(n) : n \in S}
  <2>1. T \subseteq Nat /\ T # {}
    BY <1>2, AssignmentAssumption
  <2>2. PICK x \in T : \A y \in T : x <= y
    BY <2>1, SmallestExists
  <2>3. PICK n \in S : x = MaxRound - Stamp(n)
    BY <2>2
  <2>4. ASSUME NEW m \in S PROVE Stamp(m) <= Stamp(n)
    <3>1. MaxRound - Stamp(n) <= MaxRound - Stamp(m)
      BY <2>2, <2>3, <2>4
    <3>2. Stamp(n) \in Int /\ Stamp(m) \in Int /\ MaxRound \in Int
      BY <1>2, <2>4, AssignmentAssumption
    <3> QED
      BY <3>1, <3>2
  <2> QED
    BY <2>4
<1>5. PICK n \in S : /\ Stamp(n) = Stamp(last)
                     /\ \A m \in S : Stamp(m) = Stamp(last) => Length(n) <= Length(m)
  <2> DEFINE T == {Length(n) : n \in {m \in S : Stamp(m) = Stamp(last)}}
  <2>1. T \subseteq Nat /\ T # {}
    BY <1>2
  <2>2. PICK x \in T : \A y \in T : x <= y
    BY <2>1, SmallestExists
  <2> QED
    BY <2>2
<1>6. PICK p \in Parents(n) \cap S : TRUE
  BY <1>1
<1>7. /\ Stamp(p) \in Int /\ Stamp(n) \in Int /\ Length(p) \in Int
      /\ Length(n) \in Int
  BY <1>2, <1>6, AssignmentAssumption
<1>8. Stamp(p) <= Stamp(n)
  BY <1>4, <1>5, <1>6
<1>9. Stamp(p) = Stamp(n) /\ Length(n) = Length(p) + 1
  BY <1>3, <1>6, <1>7, <1>8
<1>10. Length(n) <= Length(p)
  BY <1>5, <1>6, <1>9
<1> QED
  BY <1>7, <1>9, <1>10

\* Whom the nodes believe to be their parents never forms a circle, in a
\* network of any size and shape, whatever is lost, late or overtaken.
THEOREM NoParentCycleHolds == AssignmentSpec => []NoParentCycle
<1>1. ShapeInv /\ TreeInv => NoParentCycle
  <2>1. SUFFICES ASSUME ShapeInv, TreeInv, MaxHlmac = 1,
                        NEW S \in (SUBSET Nodes) \ {{}}
                 PROVE  \E n \in S : Parents(n) \cap S = {}
    BY Zenon DEF NoParentCycle
  <2>2. AssignmentTypeOK /\ TreeOrder
    BY <2>1 DEF ShapeInv, TreeInv, TreeOrder
  <2>3. S \in SUBSET Nodes /\ S # {}
    BY <2>1
  <2> QED
    BY <2>1, <2>2, <2>3, OrderExcludesCycles
<1> QED
  BY <1>1, SpecTree, PTL

-----------------------------------------------------------------------------
(***************************************************************************)
(* Proof that the count the statistic timer takes for "is an edge node" is *)
(* the number of neighbours nothing came from, with one address per node   *)
(* and tables that know each other.                                        *)
(*                                                                         *)
(* A SetHLMAC decrements the count without a look at the flag of its       *)
(* sender, so the argument is that there is only one in a round: a node    *)
(* queues a payload when its head moves to a later round, hence each round *)
(* at most once, and payloads leave the queue in order.                    *)
(***************************************************************************)
\* Queued payloads are of growing rounds.
QueueGrows ==
  \A m \in Nodes : \A i, j \in 1 .. Len(payload_entry_list[m]) :
    i < j => payload_entry_list[m][i].timestamp < payload_entry_list[m][j].timestamp

\* What is on its way was sent before what is queued.
OffersBeforeQueue ==
  \A o \in offers : \A i \in 1 .. Len(payload_entry_list[o.from]) :
    o.timestamp < payload_entry_list[o.from][i].timestamp

\* One offer of a sender to a receiver in a round.
OfferedOnce ==
  \A o, p \in offers :
    o.from = p.from /\ o.to = p.to /\ o.timestamp = p.timestamp => o = p

\* Only neighbours are offered anything.
OfferedToNeighbours ==
  /\ \A o \in offers : o.to \in Nbr[o.from]
  /\ \A m \in Nodes : \A i \in 1 .. Len(payload_entry_list[m]) :
       payload_entry_list[m][i].to \subseteq Nbr[m]

OnceInv == QueueGrows /\ OffersBeforeQueue /\ OfferedOnce /\ OfferedToNeighbours

Unheard(n) == {m \in Nbr[n] : flag[n][m] = 0}

\* What is on its way to n, or queued for it, in the round n is in, comes from
\* senders n has not heard; those it has heard are in that round or later.
NodeHeard(n) ==
  hlmac_table[n] # << >> =>
    /\ number_of_neighbours_flag[n] = Cardinality(Unheard(n))
    /\ \A o \in offers :
         o.to = n /\ o.timestamp = last_timestamp[n] => flag[n][o.from] = 0
    /\ \A m \in Nodes : \A i \in 1 .. Len(payload_entry_list[m]) :
         /\ n \in payload_entry_list[m][i].to
         /\ payload_entry_list[m][i].timestamp = last_timestamp[n]
         => flag[n][m] = 0
    /\ \A m \in Nodes :
         flag[n][m] # 0 =>
           hlmac_table[m] # << >> /\ HeadEntry(m).timestamp >= last_timestamp[n]

HeardInv == \A n \in Nodes \ {Root} : NodeHeard(n)

UnheardInv ==
  MaxHlmac = 1 /\ MutualNeighbours => OnceInv /\ HeardInv

-----------------------------------------------------------------------------
\* At most one payload is queued, of the round and for neighbours.
LEMMA QueueAppends ==
  ASSUME AssignmentTypeOK, NEW n \in Nodes, NEW addr \in Address,
         NEW sender, NEW ts \in 0 .. MaxRound,
         QueueSetHlmac(n, addr, sender, ts)
  PROVE  \/ payload_entry_list' = payload_entry_list
         \/ \E e \in Payload :
              /\ e.timestamp = ts /\ e.to \subseteq Nbr[n]
              /\ payload_entry_list' =
                   [payload_entry_list EXCEPT ![n] = Append(payload_entry_list[n], e)]
<1>1. PICK mac \in MacPayloads : \E R \in RecipientChoices(n, addr, sender, mac) :
        \/ UNCHANGED payload_entry_list
        \/ payload_entry_list' = [payload_entry_list EXCEPT ![n] =
             Append(payload_entry_list[n],
                    [timestamp |-> ts, prefix |-> addr, to |-> R, size |-> mac])]
  BY DEF QueueSetHlmac
<1>2. PICK R \in RecipientChoices(n, addr, sender, mac) :
        \/ UNCHANGED payload_entry_list
        \/ payload_entry_list' = [payload_entry_list EXCEPT ![n] =
             Append(payload_entry_list[n],
                    [timestamp |-> ts, prefix |-> addr, to |-> R, size |-> mac])]
  BY <1>1
<1>3. R \subseteq Nbr[n] /\ R \subseteq Nodes
  BY AssignmentAssumption DEF RecipientChoices
<1> DEFINE e == [timestamp |-> ts, prefix |-> addr, to |-> R, size |-> mac]
<1>4. e \in Payload /\ e.timestamp = ts /\ e.to = R
  BY <1>3 DEF Payload
<1> HIDE DEF e
<1>5. \/ payload_entry_list' = payload_entry_list
      \/ payload_entry_list' =
           [payload_entry_list EXCEPT ![n] = Append(payload_entry_list[n], e)]
  BY <1>2 DEF e
<1> QED
  BY <1>3, <1>4, <1>5

\* What a queue holds after a payload was appended to it.
LEMMA AppendedQueue ==
  ASSUME AssignmentTypeOK, NEW n \in Nodes, NEW e \in Payload,
         payload_entry_list' =
           [payload_entry_list EXCEPT ![n] = Append(payload_entry_list[n], e)],
         NEW m \in Nodes, NEW i \in 1 .. Len(payload_entry_list'[m])
  PROVE  \/ /\ i \in 1 .. Len(payload_entry_list[m])
            /\ payload_entry_list'[m][i] = payload_entry_list[m][i]
         \/ /\ m = n /\ payload_entry_list'[m][i] = e
            /\ i = Len(payload_entry_list[m]) + 1
<1>1. payload_entry_list \in [Nodes -> Seq(Payload)]
  BY DEF AssignmentTypeOK
<1>2. CASE m # n
  BY <1>1, <1>2
<1>3. CASE m = n
  <2>1. payload_entry_list'[m] = Append(payload_entry_list[m], e)
    BY <1>1, <1>3
  <2>2. payload_entry_list[m] \in Seq(Payload)
    BY <1>1
  <2>3. /\ Len(payload_entry_list'[m]) = Len(payload_entry_list[m]) + 1
        /\ \A k \in 1 .. Len(payload_entry_list[m]) :
             payload_entry_list'[m][k] = payload_entry_list[m][k]
        /\ payload_entry_list'[m][Len(payload_entry_list[m]) + 1] = e
        /\ Len(payload_entry_list[m]) \in Nat
    BY <2>1, <2>2, AppendProperties, LenProperties
  <2>4. i \in 1 .. Len(payload_entry_list[m]) \/ i = Len(payload_entry_list[m]) + 1
    BY <2>3
  <2> QED
    BY <1>3, <2>3, <2>4
<1> QED
  BY <1>2, <1>3

\* A payload of a later round than all that its node has queued or offered.
LEMMA QueueOnce ==
  ASSUME AssignmentTypeOK, AssignmentTypeOK', OnceInv, offers' \subseteq offers,
         NEW n \in Nodes, NEW e \in Payload, e.to \subseteq Nbr[n],
         payload_entry_list' =
           [payload_entry_list EXCEPT ![n] = Append(payload_entry_list[n], e)],
         \A i \in 1 .. Len(payload_entry_list[n]) :
           payload_entry_list[n][i].timestamp < e.timestamp,
         \A o \in offers' : o.from = n => o.timestamp < e.timestamp
  PROVE  OnceInv'
<1>1. ASSUME NEW m \in Nodes, NEW i \in 1 .. Len(payload_entry_list'[m]),
             NEW j \in 1 .. Len(payload_entry_list'[m]), i < j
      PROVE  payload_entry_list'[m][i].timestamp < payload_entry_list'[m][j].timestamp
  <2>1. \/ /\ i \in 1 .. Len(payload_entry_list[m])
           /\ payload_entry_list'[m][i] = payload_entry_list[m][i]
        \/ /\ m = n /\ payload_entry_list'[m][i] = e
           /\ i = Len(payload_entry_list[m]) + 1
    BY AppendedQueue
  <2>2. \/ /\ j \in 1 .. Len(payload_entry_list[m])
           /\ payload_entry_list'[m][j] = payload_entry_list[m][j]
        \/ /\ m = n /\ payload_entry_list'[m][j] = e
           /\ j = Len(payload_entry_list[m]) + 1
    BY AppendedQueue
  <2>3. Len(payload_entry_list[m]) \in Nat
    BY LenProperties DEF AssignmentTypeOK
  <2>4. i \in 1 .. Len(payload_entry_list[m])
    BY <1>1, <2>1, <2>2, <2>3
  <2>5. payload_entry_list'[m][i] = payload_entry_list[m][i]
    BY <2>1, <2>3, <2>4
  <2> QED
    BY <1>1, <2>2, <2>4, <2>5 DEF OnceInv, QueueGrows
<1>2. ASSUME NEW o \in offers', NEW i \in 1 .. Len(payload_entry_list'[o.from])
      PROVE  o.timestamp < payload_entry_list'[o.from][i].timestamp
  <2>1. o \in offers /\ o.from \in Nodes
    BY DEF AssignmentTypeOK, Offer
  <2>2. \/ /\ i \in 1 .. Len(payload_entry_list[o.from])
           /\ payload_entry_list'[o.from][i] = payload_entry_list[o.from][i]
        \/ o.from = n /\ payload_entry_list'[o.from][i] = e
    BY <2>1, AppendedQueue
  <2> QED
    BY <2>1, <2>2 DEF OnceInv, OffersBeforeQueue
<1>3. ASSUME NEW m \in Nodes, NEW i \in 1 .. Len(payload_entry_list'[m])
      PROVE  payload_entry_list'[m][i].to \subseteq Nbr[m]
  <2>1. \/ /\ i \in 1 .. Len(payload_entry_list[m])
           /\ payload_entry_list'[m][i] = payload_entry_list[m][i]
        \/ m = n /\ payload_entry_list'[m][i] = e
    BY AppendedQueue
  <2> QED
    BY <2>1 DEF OnceInv, OfferedToNeighbours
<1>4. QueueGrows'
  BY <1>1 DEF QueueGrows
<1>5. OffersBeforeQueue'
  BY <1>2 DEF OffersBeforeQueue
<1>6. OfferedOnce'
  BY DEF OnceInv, OfferedOnce
<1>7. OfferedToNeighbours'
  BY <1>3 DEF OnceInv, OfferedToNeighbours
<1> QED
  BY <1>4, <1>5, <1>6, <1>7 DEF OnceInv

\* Nothing is queued, and what is on its way becomes less.
LEMMA OnceKept ==
  ASSUME OnceInv, offers' \subseteq offers, UNCHANGED payload_entry_list
  PROVE  OnceInv'
BY DEF OnceInv, QueueGrows, OffersBeforeQueue, OfferedOnce, OfferedToNeighbours

\* The head of a queue becomes what is on its way.
LEMMA SentQueue ==
  ASSUME ShapeInv, NEW n \in Nodes, SendMessage(n)
  PROVE  /\ 1 \in 1 .. Len(payload_entry_list[n])
         /\ payload_entry_list[n][1] \in Payload
         /\ offers' = offers \cup Frame(n, payload_entry_list[n][1])
         /\ \A m \in Nodes : \A i \in 1 .. Len(payload_entry_list'[m]) :
              IF m = n THEN /\ i + 1 \in 1 .. Len(payload_entry_list[m])
                            /\ payload_entry_list'[m][i] = payload_entry_list[m][i + 1]
              ELSE /\ i \in 1 .. Len(payload_entry_list[m])
                   /\ payload_entry_list'[m][i] = payload_entry_list[m][i]
<1>1. /\ 1 \in 1 .. Len(payload_entry_list[n])
      /\ Head(payload_entry_list[n]) = payload_entry_list[n][1]
      /\ payload_entry_list[n][1] \in Payload
  BY SendProperties DEF ShapeInv
<1>2. /\ payload_entry_list \in [Nodes -> Seq(Payload)]
      /\ payload_entry_list' =
           [payload_entry_list EXCEPT ![n] = Tail(payload_entry_list[n])]
  BY DEF ShapeInv, AssignmentTypeOK, SendMessage
<1>3. payload_entry_list[n] \in Seq(Payload) /\ payload_entry_list[n] # << >>
  BY <1>2 DEF ShapeInv, SendMessage, TimerMatchesQueue
<1>4. /\ Len(Tail(payload_entry_list[n])) = Len(payload_entry_list[n]) - 1
      /\ Len(payload_entry_list[n]) \in Nat
      /\ \A i \in 1 .. Len(Tail(payload_entry_list[n])) :
           Tail(payload_entry_list[n])[i] = payload_entry_list[n][i + 1]
  BY <1>3, HeadTailProperties, LenProperties
<1>5. ASSUME NEW i \in 1 .. Len(payload_entry_list'[n])
      PROVE  /\ i + 1 \in 1 .. Len(payload_entry_list[n])
             /\ payload_entry_list'[n][i] = payload_entry_list[n][i + 1]
  BY <1>2, <1>4
<1>6. \A m \in Nodes \ {n} : payload_entry_list'[m] = payload_entry_list[m]
  BY <1>2
<1>7. offers' = offers \cup Frame(n, payload_entry_list[n][1])
  BY <1>1 DEF SendMessage
<1> QED
  BY <1>1, <1>5, <1>6, <1>7

LEMMA SendOnce ==
  ASSUME ShapeInv, ShapeInv', OnceInv, NEW n \in Nodes, SendMessage(n)
  PROVE  OnceInv'
<1> DEFINE sent == payload_entry_list[n][1]
<1>1. /\ 1 \in 1 .. Len(payload_entry_list[n])
      /\ sent \in Payload
      /\ offers' = offers \cup Frame(n, sent)
      /\ \A m \in Nodes : \A i \in 1 .. Len(payload_entry_list'[m]) :
           IF m = n THEN /\ i + 1 \in 1 .. Len(payload_entry_list[m])
                         /\ payload_entry_list'[m][i] = payload_entry_list[m][i + 1]
           ELSE /\ i \in 1 .. Len(payload_entry_list[m])
                /\ payload_entry_list'[m][i] = payload_entry_list[m][i]
  BY SentQueue
<1>2. /\ sent.timestamp \in 0 .. MaxRound
      /\ \A i \in 1 .. Len(payload_entry_list[n]) :
           1 < i => sent.timestamp < payload_entry_list[n][i].timestamp
      /\ sent.to \subseteq Nbr[n]
  BY <1>1 DEF OnceInv, QueueGrows, OfferedToNeighbours, Payload
<1>3. \A o \in offers : /\ o.from \in Nodes /\ o.timestamp \in 0 .. MaxRound
                        /\ o.from = n => o.timestamp < sent.timestamp
  BY <1>1 DEF OnceInv, OffersBeforeQueue, ShapeInv, AssignmentTypeOK, Offer
<1>4. \A o \in Frame(n, sent) :
        /\ o.from = n /\ o.to \in sent.to /\ o.timestamp = sent.timestamp
        /\ o = [from |-> n, to |-> o.to, timestamp |-> sent.timestamp,
                address |-> hlmac_add_new_id(sent.prefix, number_id[n][o.to])]
  BY DEF Frame
<1> HIDE DEF sent
<1>5. QueueGrows'
  <2> SUFFICES ASSUME NEW m \in Nodes,
                      NEW i \in 1 .. Len(payload_entry_list'[m]),
                      NEW j \in 1 .. Len(payload_entry_list'[m]), i < j
               PROVE  payload_entry_list'[m][i].timestamp
                        < payload_entry_list'[m][j].timestamp
    BY DEF QueueGrows
  <2>1. CASE m = n
    <3>1. /\ i + 1 \in 1 .. Len(payload_entry_list[m])
          /\ j + 1 \in 1 .. Len(payload_entry_list[m]) /\ i + 1 < j + 1
          /\ payload_entry_list'[m][i] = payload_entry_list[m][i + 1]
          /\ payload_entry_list'[m][j] = payload_entry_list[m][j + 1]
      BY <1>1, <2>1
    <3> QED
      BY <3>1 DEF OnceInv, QueueGrows
  <2>2. CASE m # n
    <3>1. /\ i \in 1 .. Len(payload_entry_list[m])
          /\ j \in 1 .. Len(payload_entry_list[m])
          /\ payload_entry_list'[m][i] = payload_entry_list[m][i]
          /\ payload_entry_list'[m][j] = payload_entry_list[m][j]
      BY <1>1, <2>2
    <3> QED
      BY <3>1 DEF OnceInv, QueueGrows
  <2> QED
    BY <2>1, <2>2
<1>6. OffersBeforeQueue'
  <2> SUFFICES ASSUME NEW o \in offers',
                      NEW i \in 1 .. Len(payload_entry_list'[o.from])
               PROVE  o.timestamp < payload_entry_list'[o.from][i].timestamp
    BY DEF OffersBeforeQueue
  <2>1. CASE o \in offers
    <3>1. o.from \in Nodes
      BY <1>3, <2>1
    <3>2. \E j \in 1 .. Len(payload_entry_list[o.from]) :
            payload_entry_list'[o.from][i] = payload_entry_list[o.from][j]
      BY <1>1, <3>1
    <3> QED
      BY <2>1, <3>2 DEF OnceInv, OffersBeforeQueue
  <2>2. CASE o \in Frame(n, sent)
    <3>1. o.from = n /\ o.timestamp = sent.timestamp
      BY <1>4, <2>2
    <3>2. /\ i + 1 \in 1 .. Len(payload_entry_list[n]) /\ 1 < i + 1
          /\ payload_entry_list'[n][i] = payload_entry_list[n][i + 1]
      BY <1>1, <3>1
    <3> QED
      BY <1>2, <3>1, <3>2
  <2> QED
    BY <1>1, <2>1, <2>2
<1>7. OfferedOnce'
  <2> SUFFICES ASSUME NEW o \in offers', NEW p \in offers',
                      o.from = p.from, o.to = p.to, o.timestamp = p.timestamp
               PROVE  o = p
    BY DEF OfferedOnce
  <2>1. CASE o \in offers /\ p \in offers
    BY <2>1 DEF OnceInv, OfferedOnce
  <2>2. CASE o \in Frame(n, sent) /\ p \in Frame(n, sent)
    BY <1>4, <2>2
  <2>3. ASSUME NEW q \in offers, NEW r \in Frame(n, sent),
               q.from = r.from, q.timestamp = r.timestamp
        PROVE  FALSE
    <3>1. q.from = n /\ q.timestamp = sent.timestamp
      BY <1>4, <2>3
    <3> QED
      BY <1>2, <1>3, <3>1
  <2> QED
    BY <1>1, <2>1, <2>2, <2>3
<1>8. OfferedToNeighbours'
  <2>1. \A o \in Frame(n, sent) : o.to \in Nbr[o.from]
    BY <1>2, <1>4
  <2>2. ASSUME NEW m \in Nodes, NEW i \in 1 .. Len(payload_entry_list'[m])
        PROVE  payload_entry_list'[m][i].to \subseteq Nbr[m]
    <3>1. \E j \in 1 .. Len(payload_entry_list[m]) :
            payload_entry_list'[m][i] = payload_entry_list[m][j]
      BY <1>1
    <3> QED
      BY <3>1 DEF OnceInv, OfferedToNeighbours
  <2> QED
    BY <1>1, <2>1, <2>2 DEF OnceInv, OfferedToNeighbours
<1> QED
  BY <1>5, <1>6, <1>7, <1>8 DEF OnceInv

-----------------------------------------------------------------------------
(***************************************************************************)
(* A node whose own state stays as it is: what comes on its way to the     *)
(* node was queued for it, and what is queued is of a later round than the *)
(* head of the sender, which the node has not heard in that round then.    *)
(***************************************************************************)
LEMMA NodeHeardKept ==
  ASSUME AssignmentTypeOK, AssignmentTypeOK', HeadsAdvance,
         NEW n \in Nodes, NodeHeard(n),
         hlmac_table'[n] = hlmac_table[n], flag'[n] = flag[n],
         number_of_neighbours_flag'[n] = number_of_neighbours_flag[n],
         last_timestamp'[n] = last_timestamp[n],
         \A o \in offers' : o.to = n =>
           \/ o \in offers
           \/ \E i \in 1 .. Len(payload_entry_list[o.from]) :
                /\ n \in payload_entry_list[o.from][i].to
                /\ payload_entry_list[o.from][i].timestamp = o.timestamp,
         \A m \in Nodes : \A i \in 1 .. Len(payload_entry_list'[m]) :
           \/ \E j \in 1 .. Len(payload_entry_list[m]) :
                payload_entry_list'[m][i] = payload_entry_list[m][j]
           \/ hlmac_table[m] = << >>
           \/ HeadEntry(m).timestamp < payload_entry_list'[m][i].timestamp
  PROVE  NodeHeard(n)'
<1> SUFFICES ASSUME hlmac_table[n] # << >> PROVE NodeHeard(n)'
  BY DEF NodeHeard
<1>1. /\ number_of_neighbours_flag[n] = Cardinality(Unheard(n))
      /\ \A o \in offers :
           o.to = n /\ o.timestamp = last_timestamp[n] => flag[n][o.from] = 0
      /\ \A m \in Nodes : \A i \in 1 .. Len(payload_entry_list[m]) :
           /\ n \in payload_entry_list[m][i].to
           /\ payload_entry_list[m][i].timestamp = last_timestamp[n]
           => flag[n][m] = 0
      /\ \A m \in Nodes :
           flag[n][m] # 0 =>
             hlmac_table[m] # << >> /\ HeadEntry(m).timestamp >= last_timestamp[n]
  BY DEF NodeHeard
<1>2. Unheard(n)' = Unheard(n)
  BY DEF Unheard
<1>3. last_timestamp[n] \in Int
  BY AssignmentAssumption DEF AssignmentTypeOK
<1>4. ASSUME NEW o \in offers', o.to = n, o.timestamp = last_timestamp[n]
      PROVE  flag[n][o.from] = 0
  <2>1. o.from \in Nodes
    BY DEF AssignmentTypeOK, Offer
  <2> QED
    BY <1>1, <1>4, <2>1
<1>5. ASSUME NEW m \in Nodes, NEW i \in 1 .. Len(payload_entry_list'[m]),
             n \in payload_entry_list'[m][i].to,
             payload_entry_list'[m][i].timestamp = last_timestamp[n]
      PROVE  flag[n][m] = 0
  <2>1. CASE \E j \in 1 .. Len(payload_entry_list[m]) :
               payload_entry_list'[m][i] = payload_entry_list[m][j]
    BY <1>1, <1>5, <2>1
  <2>2. CASE hlmac_table[m] = << >>
    BY <1>1, <2>2
  <2>3. CASE /\ hlmac_table[m] # << >>
             /\ HeadEntry(m).timestamp < payload_entry_list'[m][i].timestamp
    <3>1. HeadEntry(m).timestamp \in Int
      BY <2>3, HeadType, AssignmentAssumption
    <3> QED
      BY <1>1, <1>3, <1>5, <2>3, <3>1
  <2> QED
    BY <2>1, <2>2, <2>3
<1>6. ASSUME NEW m \in Nodes, flag[n][m] # 0
      PROVE  /\ hlmac_table'[m] # << >>
             /\ hlmac_table'[m][1].timestamp >= last_timestamp[n]
  <2>1. hlmac_table[m] # << >> /\ HeadEntry(m).timestamp >= last_timestamp[n]
    BY <1>1, <1>6
  <2>2. CASE hlmac_table'[m] = hlmac_table[m]
    BY <2>1, <2>2 DEF HeadEntry
  <2>3. CASE /\ hlmac_table'[m] # << >>
             /\ hlmac_table'[m][1].timestamp > hlmac_table[m][1].timestamp
    <3>1. hlmac_table[m][1].timestamp \in Int /\ hlmac_table'[m][1].timestamp \in Int
      <4>1. hlmac_table[m] \in Seq(Entry) /\ hlmac_table'[m] \in Seq(Entry)
        BY DEF AssignmentTypeOK
      <4>2. hlmac_table[m][1] \in Entry /\ hlmac_table'[m][1] \in Entry
        BY <2>1, <2>3, <4>1, EmptySeq, ElementOfSeq
      <4> QED
        BY <4>2, AssignmentAssumption DEF Entry
    <3> QED
      BY <1>3, <2>1, <2>3, <3>1 DEF HeadEntry
  <2> QED
    BY <2>1, <2>2, <2>3 DEF HeadsAdvance
<1> QED
  BY <1>1, <1>2, <1>4, <1>5, <1>6 DEF NodeHeard, HeadEntry

OwnStateKept(n) ==
  /\ hlmac_table'[n] = hlmac_table[n] /\ flag'[n] = flag[n]
  /\ number_of_neighbours_flag'[n] = number_of_neighbours_flag[n]
  /\ last_timestamp'[n] = last_timestamp[n]

\* A node that takes an address of a later round than its head queues it behind
\* payloads of earlier rounds, for nodes that have not heard it in that round.
LEMMA AdvanceKeeps ==
  ASSUME MaxHlmac = 1, ShapeInv, ShapeInv', TreeInv, OnceInv,
         offers' \subseteq offers, HeadsAdvance,
         NEW n \in Nodes, NEW addr \in Address, NEW sender,
         NEW ts \in 0 .. MaxRound, QueueSetHlmac(n, addr, sender, ts),
         hlmac_table[n] = << >> \/ HeadEntry(n).timestamp < ts
  PROVE  /\ OnceInv'
         /\ \A k \in Nodes : NodeHeard(k) /\ OwnStateKept(k) => NodeHeard(k)'
<1>1. /\ AssignmentTypeOK /\ AssignmentTypeOK'
      /\ payload_entry_list \in [Nodes -> Seq(Payload)]
      /\ ts \in Int
  <2>1. ts \in Int
    BY AssignmentAssumption
  <2> QED
    BY <2>1 DEF ShapeInv, AssignmentTypeOK
<1>2. hlmac_table[n] # << >> => HeadEntry(n).timestamp \in Int
  BY <1>1, HeadType, AssignmentAssumption
<1>3. ASSUME NEW i \in 1 .. Len(payload_entry_list[n])
      PROVE  payload_entry_list[n][i].timestamp < ts
  <2>1. payload_entry_list[n][i] \in Payload
    BY <1>1, ElementOfSeq
  <2>2. payload_entry_list[n][i].timestamp \in Int
    BY <2>1, AssignmentAssumption DEF Payload
  <2>3. HeadCovers(n, payload_entry_list[n][i].timestamp,
                   payload_entry_list[n][i].prefix)
    BY DEF TreeInv, QueuedAreCovered
  <2> QED
    BY <1>1, <1>2, <2>2, <2>3 DEF HeadCovers
<1>4. ASSUME NEW o \in offers, o.from = n PROVE o.timestamp < ts
  <2>1. o.timestamp \in Int
    BY <1>1, AssignmentAssumption DEF AssignmentTypeOK, Offer
  <2>2. \E prefix \in Address : HeadCovers(n, o.timestamp, prefix)
    BY <1>4 DEF TreeInv, OffersAreCovered
  <2> QED
    BY <1>1, <1>2, <2>1, <2>2 DEF HeadCovers
<1>5. CASE payload_entry_list' = payload_entry_list
  <2>1. OnceInv'
    BY <1>5, OnceKept
  <2>2. ASSUME NEW k \in Nodes, NodeHeard(k), OwnStateKept(k)
        PROVE  NodeHeard(k)'
    BY <1>1, <1>5, <2>2, NodeHeardKept DEF OwnStateKept
  <2> QED
    BY <2>1, <2>2
<1>6. ASSUME NEW e \in Payload, e.timestamp = ts, e.to \subseteq Nbr[n],
             payload_entry_list' =
               [payload_entry_list EXCEPT ![n] = Append(payload_entry_list[n], e)]
      PROVE  /\ OnceInv'
             /\ \A k \in Nodes : NodeHeard(k) /\ OwnStateKept(k) => NodeHeard(k)'
  <2>1. OnceInv'
    BY <1>1, <1>3, <1>4, <1>6, QueueOnce
  <2>2. ASSUME NEW m \in Nodes, NEW i \in 1 .. Len(payload_entry_list'[m])
        PROVE  \/ \E j \in 1 .. Len(payload_entry_list[m]) :
                     payload_entry_list'[m][i] = payload_entry_list[m][j]
               \/ hlmac_table[m] = << >>
               \/ HeadEntry(m).timestamp < payload_entry_list'[m][i].timestamp
    BY <1>1, <1>6, AppendedQueue
  <2>3. ASSUME NEW k \in Nodes, NodeHeard(k), OwnStateKept(k)
        PROVE  NodeHeard(k)'
    BY <1>1, <2>2, <2>3, NodeHeardKept DEF OwnStateKept
  <2> QED
    BY <2>1, <2>3
<1> QED
  BY <1>1, <1>5, <1>6, QueueAppends

LEMMA StartRoundHeard ==
  ASSUME MaxHlmac = 1, ShapeInv, ShapeInv', TreeInv, OnceInv, HeardInv, StartRound
  PROVE  OnceInv' /\ HeardInv'
<1> DEFINE addr == hlmac_create_root_addr(1)
<1>1. timestamp + 1 \in 0 .. MaxRound /\ Root \in Nodes /\ timestamp \in Int
  BY AssignmentAssumption DEF ShapeInv, AssignmentTypeOK, StartRound
<1>2. addr \in Address
  BY DEF hlmac_create_root_addr, Address
<1>3. hlmac_table[Root] = << >> \/ HeadEntry(Root).timestamp < timestamp + 1
  BY <1>1 DEF TreeInv, RootEntryIsCurrent
<1>4. HeadsAdvance
  BY <1>1, <1>2, HeadAfterAdd DEF ShapeInv, TreeInv, StartRound
<1>5. /\ offers' = offers
      /\ QueueSetHlmac(Root, addr, Root, timestamp + 1)
      /\ \A k \in Nodes \ {Root} : OwnStateKept(k)
  BY DEF StartRound, OwnStateKept, ShapeInv, AssignmentTypeOK
<1> HIDE DEF addr
<1> QED
  BY <1>1, <1>2, <1>3, <1>4, <1>5, AdvanceKeeps DEF HeardInv

LEMMA SendMessageHeard ==
  ASSUME ShapeInv, ShapeInv', OnceInv, HeardInv, NEW n \in Nodes, SendMessage(n)
  PROVE  OnceInv' /\ HeardInv'
<1> DEFINE sent == payload_entry_list[n][1]
<1>1. /\ 1 \in 1 .. Len(payload_entry_list[n])
      /\ offers' = offers \cup Frame(n, sent)
      /\ \A m \in Nodes : \A i \in 1 .. Len(payload_entry_list'[m]) :
           \E j \in 1 .. Len(payload_entry_list[m]) :
             payload_entry_list'[m][i] = payload_entry_list[m][j]
  BY SentQueue
<1>2. \A o \in Frame(n, sent) :
        o.from = n /\ o.to \in sent.to /\ o.timestamp = sent.timestamp
  BY DEF Frame
<1>3. \A k \in Nodes : \A o \in offers' : o.to = k =>
        \/ o \in offers
        \/ \E i \in 1 .. Len(payload_entry_list[o.from]) :
             /\ k \in payload_entry_list[o.from][i].to
             /\ payload_entry_list[o.from][i].timestamp = o.timestamp
  BY <1>1, <1>2
<1>4. HeadsAdvance /\ \A k \in Nodes : OwnStateKept(k)
  BY DEF SendMessage, HeadsAdvance, OwnStateKept
<1>5. ASSUME NEW k \in Nodes, NodeHeard(k) PROVE NodeHeard(k)'
  BY <1>1, <1>3, <1>4, <1>5, NodeHeardKept DEF OwnStateKept, ShapeInv
<1> QED
  BY <1>5, SendOnce DEF HeardInv

\* An offer is taken: what else is on its way to the node comes from others,
\* or is of another round.
LEMMA OthersOfRound ==
  ASSUME OnceInv, MutualNeighbours, AssignmentTypeOK, NEW o \in offers
  PROVE  /\ o.from \in Nbr[o.to]
         /\ \A p \in offers \ {o} :
              p.to = o.to /\ p.timestamp = o.timestamp => p.from # o.from
         /\ \A i \in 1 .. Len(payload_entry_list[o.from]) :
              payload_entry_list[o.from][i].timestamp # o.timestamp
<1>1. o.from \in Nodes /\ o.to \in Nbr[o.from] /\ o.timestamp \in Int
  BY AssignmentAssumption
  DEF OnceInv, OfferedToNeighbours, AssignmentTypeOK, Offer
<1>2. o.from \in Nbr[o.to]
  BY <1>1 DEF MutualNeighbours
<1>3. \A p \in offers \ {o} :
        p.to = o.to /\ p.timestamp = o.timestamp => p.from # o.from
  BY DEF OnceInv, OfferedOnce
<1>4. ASSUME NEW i \in 1 .. Len(payload_entry_list[o.from])
      PROVE  payload_entry_list[o.from][i].timestamp # o.timestamp
  BY <1>1 DEF OnceInv, OffersBeforeQueue
<1> QED
  BY <1>2, <1>3, <1>4

\* The part of HeadAfterAdd the next proof needs.
LEMMA HeadIfAdded ==
  ASSUME MaxHlmac = 1, AssignmentTypeOK, NEW n \in Nodes,
         Len(hlmac_table[n]) <= 1, NEW addr \in Address,
         NEW ts \in 0 .. MaxRound, IsAdded(hlmac_table[n], ts),
         hlmac_table' = [hlmac_table EXCEPT ![n] =
           hlmactable_add(hlmac_table[n], addr, ts)]
  PROVE  /\ hlmac_table'[n] # << >> /\ hlmac_table'[n][1].timestamp = ts
         /\ hlmac_table'[n][1].address = addr
<1>1. IsAdded(hlmac_table[n], ts) =>
        /\ hlmac_table'[n] # << >> /\ Len(hlmac_table'[n]) = 1
        /\ hlmac_table'[n][1].timestamp = ts
        /\ hlmac_table'[n][1].address = addr
  BY HeadAfterAdd, Zenon
<1> QED
  BY <1>1

\* With one address per node an accepted offer begins a round for the node, with
\* the sender as its one parent.
LEMMA AcceptedOffer ==
  ASSUME MaxHlmac = 1, MutualNeighbours, ShapeInv, ShapeInv', TreeInv, OnceInv,
         NEW o \in offers, AcceptOffer(o)
  PROVE  /\ o.to \in Nodes \ {Root} /\ o.from \in Nbr[o.to]
         /\ hlmac_table[o.to] = << >> \/ HeadEntry(o.to).timestamp < o.timestamp
         /\ hlmac_table'[o.to] # << >> /\ hlmac_table'[o.to][1].timestamp = o.timestamp
         /\ hlmac_table'[o.to][1].address = o.address
         /\ HeadsAdvance
         /\ NewRound(o) /\ last_timestamp'[o.to] = o.timestamp
         /\ number_of_neighbours_flag'[o.to] = number_of_neighbours(o.to) - 1
         /\ \A m \in Nodes :
              flag'[o.to][m] = IF m = o.from /\ m \in Nbr[o.to] THEN 1 ELSE 0
         /\ \A k \in Nodes \ {o.to} : OwnStateKept(k)
<1> DEFINE n == o.to
           ts == o.timestamp
<1>1. /\ AssignmentTypeOK /\ AssignmentTypeOK'
      /\ \A k \in Nodes : Len(hlmac_table[k]) <= 1
      /\ RootEntryIsCurrent /\ LastTimestampIsHeads /\ OffersAreCovered
  BY DEF ShapeInv, TreeInv
<1>2. /\ n \in Nodes /\ o.from \in Nodes /\ ts \in 0 .. MaxRound
      /\ o.address \in Address /\ ts \in Int
  <2>1. o \in Offer
    BY <1>1 DEF AssignmentTypeOK
  <2> QED
    BY <2>1, AssignmentAssumption DEF Offer
<1>3. n # Root
  BY <1>1, RootAcceptsNone DEF AcceptOffer
<1>4. /\ hlmac_table[n] = << >> \/ HeadEntry(n).timestamp < ts
      /\ hlmac_table'[n] # << >> /\ hlmac_table'[n][1].timestamp = ts
      /\ hlmac_table'[n][1].address = o.address
      /\ HeadsAdvance
      /\ \A k \in Nodes \ {n} : hlmac_table'[k] = hlmac_table[k]
  <2>1. /\ IsAdded(hlmac_table[n], ts)
        /\ hlmac_table' = [hlmac_table EXCEPT ![n] =
             hlmactable_add(hlmac_table[n], o.address, ts)]
    BY DEF AcceptOffer, Added
  <2>2. hlmac_table[n] = << >> \/ ts > HeadEntry(n).timestamp
    BY <1>1, <1>2, <2>1, HeadAfterAdd
  <2>3. hlmac_table[n] # << >> => HeadEntry(n).timestamp \in Int
    BY <1>1, <1>2, HeadType, AssignmentAssumption
  <2>4. /\ hlmac_table'[n] # << >> /\ hlmac_table'[n][1].timestamp = ts
        /\ hlmac_table'[n][1].address = o.address
    BY <1>1, <1>2, <2>1, HeadIfAdded
  <2>5. HeadsAdvance
    BY <1>1, <1>2, <2>1, HeadAfterAdd
  <2>6. \A k \in Nodes \ {n} : hlmac_table'[k] = hlmac_table[k]
    BY <1>1, <1>2, <2>1, HeadAfterAdd
  <2> QED
    BY <1>2, <2>2, <2>3, <2>4, <2>5, <2>6
<1>5. NewRound(o)
  <2>1. CASE hlmac_table[n] = << >>
    BY <1>1, <1>2, <1>3, <2>1 DEF LastTimestampIsHeads, NewRound
  <2>2. CASE HeadEntry(n).timestamp < ts /\ hlmac_table[n] # << >>
    BY <1>1, <1>2, <1>3, <2>2 DEF LastTimestampIsHeads, NewRound
  <2> QED
    BY <1>4, <2>1, <2>2
<1>6. /\ last_timestamp'[n] = ts
      /\ number_of_neighbours_flag'[n] = number_of_neighbours(n) - 1
      /\ \A m \in Nodes :
           flag'[n][m] = IF m = o.from /\ m \in Nbr[n] THEN 1 ELSE 0
      /\ \A k \in Nodes \ {n} : OwnStateKept(k)
  BY <1>1, <1>2, <1>4, <1>5
  DEF AcceptOffer, ResetFlags, MarkSender, OwnStateKept, AssignmentTypeOK
<1>7. o.from \in Nbr[n]
  BY <1>1, OthersOfRound
<1> QED
  BY <1>2, <1>3, <1>4, <1>5, <1>6, <1>7

LEMMA AcceptOfferHeard ==
  ASSUME MaxHlmac = 1, MutualNeighbours, ShapeInv, ShapeInv', TreeInv,
         OnceInv, HeardInv, NEW o \in offers, AcceptOffer(o)
  PROVE  OnceInv' /\ HeardInv'
<1> DEFINE n == o.to
           ts == o.timestamp
<1>1. AssignmentTypeOK /\ AssignmentTypeOK' /\ OffersAreCovered
  BY DEF ShapeInv, TreeInv
<1>2. /\ n \in Nodes /\ o.from \in Nodes /\ ts \in 0 .. MaxRound
      /\ o.address \in Address /\ ts \in Int
  <2>1. o \in Offer
    BY <1>1 DEF AssignmentTypeOK
  <2> QED
    BY <2>1, AssignmentAssumption DEF Offer
<1>4. /\ hlmac_table[n] = << >> \/ HeadEntry(n).timestamp < ts
      /\ hlmac_table'[n] # << >> /\ hlmac_table'[n][1].timestamp = ts
      /\ HeadsAdvance
      /\ \A k \in Nodes \ {n} : hlmac_table'[k] = hlmac_table[k]
  BY AcceptedOffer DEF OwnStateKept
<1>6. /\ offers' = offers \ {o}
      /\ QueueSetHlmac(n, o.address, o.from, ts)
      /\ last_timestamp'[n] = ts
      /\ number_of_neighbours_flag'[n] = number_of_neighbours(n) - 1
      /\ \A m \in Nodes :
           flag'[n][m] = IF m = o.from /\ m \in Nbr[n] THEN 1 ELSE 0
      /\ \A k \in Nodes \ {n} : OwnStateKept(k)
  BY AcceptedOffer DEF AcceptOffer
<1> HIDE DEF n, ts
<1>7. /\ o.from \in Nbr[n]
      /\ \A p \in offers \ {o} : p.to = n /\ p.timestamp = ts => p.from # o.from
      /\ \A i \in 1 .. Len(payload_entry_list[o.from]) :
           payload_entry_list[o.from][i].timestamp # ts
  BY <1>1, OthersOfRound DEF n, ts
<1>8. /\ OnceInv'
      /\ \A k \in Nodes : NodeHeard(k) /\ OwnStateKept(k) => NodeHeard(k)'
  BY <1>2, <1>4, <1>6, AdvanceKeeps
<1>9. NodeHeard(n)'
  <2>1. number_of_neighbours_flag'[n] = Cardinality(Unheard(n)')
    <3>1. Unheard(n)' = Nbr[n] \ {o.from}
      BY <1>2, <1>6, AssignmentAssumption DEF Unheard
    <3>2. IsFiniteSet(Nbr[n])
      BY <1>2, AssignmentAssumption, FS_Subset
    <3>3. Cardinality(Nbr[n] \ {o.from}) = Cardinality(Nbr[n]) - 1
      BY <1>7, <3>2, FS_RemoveElement
    <3> QED
      BY <1>6, <3>1, <3>3 DEF number_of_neighbours
  <2>2. ASSUME NEW p \in offers', p.to = n, p.timestamp = ts
        PROVE  flag'[n][p.from] = 0
    <3>1. p.from \in Nodes
      BY <1>1 DEF AssignmentTypeOK, Offer
    <3> QED
      BY <1>6, <1>7, <2>2, <3>1
  <2>3. ASSUME NEW m \in Nodes, NEW i \in 1 .. Len(payload_entry_list'[m]),
               n \in payload_entry_list'[m][i].to,
               payload_entry_list'[m][i].timestamp = ts
        PROVE  flag'[n][m] = 0
    <3>1. m # n
      BY <1>2, <1>8, <2>3, AssignmentAssumption DEF OnceInv, OfferedToNeighbours
    <3>2. /\ i \in 1 .. Len(payload_entry_list[m])
          /\ payload_entry_list'[m][i] = payload_entry_list[m][i]
      <4>1. CASE payload_entry_list' = payload_entry_list
        BY <4>1
      <4>2. ASSUME NEW e \in Payload,
                   payload_entry_list' = [payload_entry_list EXCEPT ![n] =
                     Append(payload_entry_list[n], e)]
            PROVE  /\ i \in 1 .. Len(payload_entry_list[m])
                   /\ payload_entry_list'[m][i] = payload_entry_list[m][i]
        BY <1>1, <1>2, <3>1, <4>2, AppendedQueue
      <4> QED
        BY <1>1, <1>2, <1>6, <4>1, <4>2, QueueAppends
    <3>3. m # o.from
      BY <1>7, <2>3, <3>2
    <3> QED
      BY <1>6, <3>3
  <2>4. ASSUME NEW m \in Nodes, flag'[n][m] # 0
        PROVE  hlmac_table'[m] # << >> /\ hlmac_table'[m][1].timestamp >= ts
    <3>1. m = o.from /\ m # n
      BY <1>2, <1>6, <1>7, <2>4, AssignmentAssumption
    <3>2. \E prefix \in Address : HeadCovers(m, ts, prefix)
      BY <1>1, <3>1 DEF OffersAreCovered, ts
    <3>3. hlmac_table[m] # << >> /\ HeadEntry(m).timestamp \in Int
      BY <1>1, <3>2, HeadType, AssignmentAssumption DEF HeadCovers
    <3>4. hlmac_table'[m] = hlmac_table[m]
      BY <1>4, <3>1
    <3> QED
      BY <1>2, <3>2, <3>3, <3>4 DEF HeadCovers, HeadEntry
  <2> QED
    BY <1>6, <2>1, <2>2, <2>3, <2>4 DEF NodeHeard, HeadEntry
<1> QED
  BY <1>6, <1>8, <1>9 DEF HeardInv

\* The table has no room: the offer is of the round of the node's head.
LEMMA RefusedOffer ==
  ASSUME MaxHlmac = 1, ShapeInv, ShapeInv', TreeInv,
         NEW o \in offers, RefuseOffer(o)
  PROVE  /\ hlmac_table[o.to] # << >> /\ ~ (o.timestamp > HeadEntry(o.to).timestamp)
         /\ hlmac_table' = hlmac_table
         /\ number_of_neighbours_flag'[o.to] = number_of_neighbours_flag[o.to] - 1
         /\ \A m \in Nodes :
              flag'[o.to][m] = IF m = o.from /\ m \in Nbr[o.to] THEN -1
                               ELSE flag[o.to][m]
         /\ \A k \in Nodes \ {o.to} : OwnStateKept(k)
         /\ o.to # Root => last_timestamp[o.to] = o.timestamp
<1> DEFINE n == o.to
           ts == o.timestamp
<1>1. /\ AssignmentTypeOK /\ AssignmentTypeOK'
      /\ \A k \in Nodes : Len(hlmac_table[k]) <= 1
      /\ LastTimestampIsHeads /\ OffersAreCovered
  BY DEF ShapeInv, TreeInv
<1>2. /\ n \in Nodes /\ o.from \in Nodes /\ ts \in 0 .. MaxRound
      /\ o.address \in Address /\ ts \in Int
  <2>1. o \in Offer
    BY <1>1 DEF AssignmentTypeOK
  <2> QED
    BY <2>1, AssignmentAssumption DEF Offer
<1>3. /\ hlmac_table[n] # << >> /\ ~ (ts > HeadEntry(n).timestamp)
      /\ hlmac_table' = hlmac_table
  <2>1. /\ ~IsAdded(hlmac_table[n], ts)
        /\ hlmac_table' = [hlmac_table EXCEPT ![n] =
             hlmactable_add(hlmac_table[n], o.address, ts)]
    BY DEF RefuseOffer, Added
  <2>2. hlmac_table[n] # << >> /\ ~ (ts > HeadEntry(n).timestamp)
    BY <1>1, <1>2, <2>1, HeadAfterAdd
  <2>3. \A k \in Nodes \ {n} : hlmac_table'[k] = hlmac_table[k]
    BY <1>1, <1>2, <2>1, HeadAfterAdd
  <2>4. hlmac_table'[n] = hlmac_table[n]
    BY <1>1, <1>2, <2>1, HeadAfterAdd
  <2>5. /\ hlmac_table \in [Nodes -> Seq(Entry)]
        /\ hlmac_table' \in [Nodes -> Seq(Entry)]
    BY <1>1 DEF AssignmentTypeOK
  <2>6. \A k \in Nodes : hlmac_table'[k] = hlmac_table[k]
    BY <2>3, <2>4
  <2>7. hlmac_table' = hlmac_table
    BY <2>5, <2>6
  <2> QED
    BY <2>2, <2>7
<1>4. /\ offers' = offers \ {o}
      /\ UNCHANGED <<last_timestamp, payload_entry_list>>
      /\ number_of_neighbours_flag'[n] = number_of_neighbours_flag[n] - 1
      /\ \A m \in Nodes :
           flag'[n][m] = IF m = o.from /\ m \in Nbr[n] THEN -1 ELSE flag[n][m]
      /\ \A k \in Nodes \ {n} : OwnStateKept(k)
  BY <1>1, <1>2, <1>3
  DEF RefuseOffer, MarkSender, OwnStateKept, AssignmentTypeOK
<1>5. n # Root => last_timestamp[n] = ts
  <2>1. SUFFICES ASSUME n # Root PROVE last_timestamp[n] = ts
    OBVIOUS
  <2>2. last_timestamp[n] = HeadEntry(n).timestamp
    BY <1>1, <1>2, <1>3, <2>1 DEF LastTimestampIsHeads
  <2>3. ts > last_timestamp[n] \/ ts = last_timestamp[n]
    BY DEF RefuseOffer, MayBeConsidered, Considered
  <2> QED
    BY <1>3, <2>2, <2>3
<1> QED
  BY <1>3, <1>4, <1>5

\* The sender of a refused offer was counted among those the node has not heard.
LEMMA RefuseOfferHeard ==
  ASSUME MaxHlmac = 1, MutualNeighbours, ShapeInv, ShapeInv', TreeInv,
         OnceInv, HeardInv, NEW o \in offers, RefuseOffer(o)
  PROVE  OnceInv' /\ HeardInv'
<1> DEFINE n == o.to
           ts == o.timestamp
<1>1. AssignmentTypeOK /\ AssignmentTypeOK' /\ OffersAreCovered
  BY DEF ShapeInv, TreeInv
<1>2. /\ n \in Nodes /\ o.from \in Nodes /\ ts \in 0 .. MaxRound
      /\ o.address \in Address /\ ts \in Int
  <2>1. o \in Offer
    BY <1>1 DEF AssignmentTypeOK
  <2> QED
    BY <2>1, AssignmentAssumption DEF Offer
<1>3. /\ hlmac_table[n] # << >> /\ ~ (ts > HeadEntry(n).timestamp)
      /\ hlmac_table' = hlmac_table
  BY RefusedOffer
<1>4. /\ offers' = offers \ {o}
      /\ UNCHANGED <<last_timestamp, payload_entry_list>>
      /\ number_of_neighbours_flag'[n] = number_of_neighbours_flag[n] - 1
      /\ \A m \in Nodes :
           flag'[n][m] = IF m = o.from /\ m \in Nbr[n] THEN -1 ELSE flag[n][m]
      /\ \A k \in Nodes \ {n} : OwnStateKept(k)
  BY RefusedOffer DEF RefuseOffer
<1>5. n # Root => last_timestamp[n] = ts
  BY RefusedOffer
<1> HIDE DEF n, ts
<1>6. /\ o.from \in Nbr[n]
      /\ \A p \in offers \ {o} : p.to = n /\ p.timestamp = ts => p.from # o.from
      /\ \A i \in 1 .. Len(payload_entry_list[o.from]) :
           payload_entry_list[o.from][i].timestamp # ts
  BY <1>1, OthersOfRound DEF n, ts
<1>7. OnceInv'
  BY <1>4, OnceKept
<1>8. ASSUME NEW k \in Nodes \ {n}, NodeHeard(k) PROVE NodeHeard(k)'
  <2>1. HeadsAdvance
    BY <1>3 DEF HeadsAdvance
  <2> QED
    BY <1>1, <1>4, <1>8, <2>1, NodeHeardKept DEF OwnStateKept
<1>9. ASSUME n # Root PROVE NodeHeard(n)'
  <2>1. /\ number_of_neighbours_flag[n] = Cardinality(Unheard(n))
        /\ \A p \in offers :
             p.to = n /\ p.timestamp = ts => flag[n][p.from] = 0
        /\ \A m \in Nodes : \A i \in 1 .. Len(payload_entry_list[m]) :
             /\ n \in payload_entry_list[m][i].to
             /\ payload_entry_list[m][i].timestamp = ts
             => flag[n][m] = 0
        /\ \A m \in Nodes :
             flag[n][m] # 0 =>
               hlmac_table[m] # << >> /\ HeadEntry(m).timestamp >= ts
    BY <1>2, <1>3, <1>5, <1>9 DEF HeardInv, NodeHeard
  <2>2. number_of_neighbours_flag'[n] = Cardinality(Unheard(n)')
    <3>1. o.from \in Unheard(n)
      BY <1>6, <2>1 DEF Unheard, n, ts
    <3>2. Unheard(n)' = Unheard(n) \ {o.from}
      BY <1>2, <1>4, AssignmentAssumption DEF Unheard
    <3>3. IsFiniteSet(Unheard(n))
      <4>1. Unheard(n) \subseteq Nodes
        BY <1>2, AssignmentAssumption DEF Unheard
      <4> QED
        BY <4>1, AssignmentAssumption, FS_Subset
    <3> QED
      BY <1>4, <2>1, <3>1, <3>2, <3>3, FS_RemoveElement
  <2>3. ASSUME NEW p \in offers', p.to = n, p.timestamp = ts
        PROVE  flag'[n][p.from] = 0
    <3>1. p.from \in Nodes
      BY <1>1 DEF AssignmentTypeOK, Offer
    <3> QED
      BY <1>4, <1>6, <2>1, <2>3, <3>1
  <2>4. ASSUME NEW m \in Nodes, NEW i \in 1 .. Len(payload_entry_list[m]),
               n \in payload_entry_list[m][i].to,
               payload_entry_list[m][i].timestamp = ts
        PROVE  flag'[n][m] = 0
    BY <1>4, <1>6, <2>1, <2>4
  <2>5. ASSUME NEW m \in Nodes, flag'[n][m] # 0
        PROVE  hlmac_table[m] # << >> /\ HeadEntry(m).timestamp >= ts
    <3>1. CASE m = o.from
      <4>1. \E prefix \in Address : HeadCovers(m, ts, prefix)
        BY <1>1, <3>1 DEF OffersAreCovered, ts
      <4>2. hlmac_table[m] # << >> /\ HeadEntry(m).timestamp \in Int
        BY <1>1, <4>1, HeadType, AssignmentAssumption DEF HeadCovers
      <4> QED
        BY <1>2, <4>1, <4>2 DEF HeadCovers
    <3>2. CASE m # o.from
      BY <1>4, <2>1, <2>5, <3>2
    <3> QED
      BY <3>1, <3>2
  <2> QED
    BY <1>3, <1>4, <1>5, <1>9, <2>2, <2>3, <2>4, <2>5 DEF NodeHeard, HeadEntry
<1> QED
  BY <1>7, <1>8, <1>9 DEF HeardInv

LEMMA NextUnheard ==
  ShapeInv /\ ShapeInv' /\ TreeInv /\ TreeInv' /\ UnheardInv
    /\ [AssignmentNext]_assignmentVars => UnheardInv'
<1> SUFFICES ASSUME ShapeInv, ShapeInv', TreeInv, TreeInv', UnheardInv,
                    [AssignmentNext]_assignmentVars,
                    MaxHlmac = 1, MutualNeighbours
             PROVE  OnceInv' /\ HeardInv'
  BY DEF UnheardInv, MutualNeighbours
<1>1. OnceInv /\ HeardInv
  BY DEF UnheardInv
<1>2. CASE StartRound
  BY <1>1, <1>2, StartRoundHeard
<1>3. ASSUME NEW n \in Nodes, SendMessage(n) PROVE OnceInv' /\ HeardInv'
  BY <1>1, <1>3, SendMessageHeard
<1>4. ASSUME NEW o \in offers, AcceptOffer(o) PROVE OnceInv' /\ HeardInv'
  BY <1>1, <1>4, AcceptOfferHeard
<1>5. ASSUME NEW o \in offers, RefuseOffer(o) PROVE OnceInv' /\ HeardInv'
  BY <1>1, <1>5, RefuseOfferHeard
<1>6. ASSUME UNCHANGED <<last_timestamp, hlmac_table, flag,
                         number_of_neighbours_flag, payload_entry_list>>,
             offers' \subseteq offers
      PROVE  OnceInv' /\ HeardInv'
  <2>1. OnceInv'
    BY <1>1, <1>6, OnceKept
  <2>2. HeadsAdvance
    BY <1>6 DEF HeadsAdvance
  <2>3. ASSUME NEW n \in Nodes, NodeHeard(n) PROVE NodeHeard(n)'
    BY <1>6, <2>2, <2>3, NodeHeardKept DEF ShapeInv
  <2> QED
    BY <1>1, <2>1, <2>3 DEF HeardInv
<1>7. ASSUME NEW o \in offers, DisregardOffer(o) \/ LoseOffer(o)
      PROVE  OnceInv' /\ HeardInv'
  BY <1>6, <1>7 DEF DisregardOffer, LoseOffer
<1>8. CASE UNCHANGED assignmentVars
  BY <1>6, <1>8 DEF assignmentVars
<1> QED
  BY <1>2, <1>3, <1>4, <1>5, <1>7, <1>8 DEF AssignmentNext

LEMMA InitUnheard == AssignmentInit => UnheardInv
<1> SUFFICES ASSUME AssignmentInit PROVE OnceInv /\ HeardInv
  BY DEF UnheardInv
<1>1. /\ offers = {}
      /\ \A n \in Nodes : hlmac_table[n] = << >> /\ payload_entry_list[n] = << >>
  BY DEF AssignmentInit
<1>2. OnceInv
  BY <1>1
  DEF OnceInv, QueueGrows, OffersBeforeQueue, OfferedOnce, OfferedToNeighbours
<1>3. HeardInv
  BY <1>1 DEF HeardInv, NodeHeard
<1> QED
  BY <1>2, <1>3

-----------------------------------------------------------------------------
\* A node with an address has a parent among its neighbours.
HasParent(n) ==
  hlmac_table[n] # << >> => \E p \in Nbr[n] : flag[n][p] = 1

ParentInv ==
  MaxHlmac = 1 /\ MutualNeighbours => \A n \in Nodes \ {Root} : HasParent(n)

\* An accepted offer marks its sender; a refused one comes from a node that has
\* not been heard, so it takes nobody's mark away.
LEMMA NextHasParent ==
  ShapeInv /\ ShapeInv' /\ TreeInv /\ UnheardInv /\ ParentInv
    /\ [AssignmentNext]_assignmentVars => ParentInv'
<1> SUFFICES ASSUME ShapeInv, ShapeInv', TreeInv, UnheardInv, ParentInv,
                    [AssignmentNext]_assignmentVars,
                    MaxHlmac = 1, MutualNeighbours, NEW n \in Nodes \ {Root}
             PROVE  HasParent(n)'
  BY DEF ParentInv, MutualNeighbours
<1>1. OnceInv /\ HeardInv /\ HasParent(n)
  BY DEF UnheardInv, ParentInv
<1>2. ASSUME hlmac_table'[n] = hlmac_table[n], flag'[n] = flag[n]
      PROVE  HasParent(n)'
  BY <1>1, <1>2 DEF HasParent
<1>3. CASE StartRound
  <2>1. hlmac_table'[n] = hlmac_table[n] /\ flag'[n] = flag[n]
    BY <1>3 DEF StartRound, ShapeInv, AssignmentTypeOK
  <2> QED
    BY <1>2, <2>1
<1>4. ASSUME NEW o \in offers, AcceptOffer(o) PROVE HasParent(n)'
  <2>1. CASE n = o.to
    <3>1. /\ o.from \in Nbr[n] /\ o.from \in Nodes
          /\ \A m \in Nodes :
               flag'[n][m] = IF m = o.from /\ m \in Nbr[n] THEN 1 ELSE 0
      BY <1>1, <1>4, <2>1, AcceptedOffer, AssignmentAssumption
    <3> QED
      BY <3>1 DEF HasParent
  <2>2. CASE n # o.to
    BY <1>1, <1>2, <1>4, <2>2, AcceptedOffer DEF OwnStateKept
  <2> QED
    BY <2>1, <2>2
<1>5. ASSUME NEW o \in offers, RefuseOffer(o) PROVE HasParent(n)'
  <2>1. CASE n = o.to
    <3>1. /\ \A m \in Nodes :
               flag'[n][m] = IF m = o.from /\ m \in Nbr[n] THEN -1 ELSE flag[n][m]
          /\ last_timestamp[n] = o.timestamp /\ hlmac_table[n] # << >>
      BY <1>5, <2>1, RefusedOffer
    <3>2. flag[n][o.from] = 0
      BY <1>1, <2>1, <3>1 DEF HeardInv, NodeHeard
    <3>3. PICK p \in Nbr[n] : flag[n][p] = 1
      BY <1>1, <3>1 DEF HasParent
    <3>4. p \in Nodes /\ p # o.from
      BY <3>2, <3>3, AssignmentAssumption
    <3>5. flag'[n][p] = 1
      BY <3>1, <3>3, <3>4
    <3> QED
      BY <3>5 DEF HasParent
  <2>2. CASE n # o.to
    BY <1>2, <1>5, <2>2, RefusedOffer DEF OwnStateKept
  <2> QED
    BY <2>1, <2>2
<1>6. ASSUME UNCHANGED <<hlmac_table, flag>> PROVE HasParent(n)'
  BY <1>2, <1>6
<1>7. ASSUME NEW o \in offers, DisregardOffer(o) \/ LoseOffer(o)
      PROVE  HasParent(n)'
  BY <1>6, <1>7 DEF DisregardOffer, LoseOffer
<1>8. ASSUME NEW m \in Nodes, SendMessage(m) PROVE HasParent(n)'
  BY <1>6, <1>8 DEF SendMessage
<1>9. CASE UNCHANGED assignmentVars
  BY <1>6, <1>9 DEF assignmentVars
<1> QED
  BY <1>3, <1>4, <1>5, <1>7, <1>8, <1>9 DEF AssignmentNext

LEMMA SpecUnheard ==
  AssignmentSpec => [](ShapeInv /\ TreeInv /\ UnheardInv /\ ParentInv)
<1>1. AssignmentInit => ShapeInv /\ TreeInv /\ UnheardInv /\ ParentInv
  <2>1. AssignmentInit => ParentInv
    BY DEF AssignmentInit, ParentInv, HasParent
  <2> QED
    BY <2>1, InitShape, InitTree, InitUnheard
<1>2. ShapeInv /\ TreeInv /\ UnheardInv /\ ParentInv /\ [AssignmentNext]_assignmentVars
        => (ShapeInv /\ TreeInv /\ UnheardInv /\ ParentInv)'
  BY NextShape, NextTree, NextUnheard, NextHasParent
<1> QED
  BY <1>1, <1>2, PTL DEF AssignmentSpec

\* Whatever is lost, late or overtaken: the count behind the edge test is the
\* number of neighbours that have not been heard in the node's round.
THEOREM CountsUnheardHolds == AssignmentSpec => []CountsUnheard
<1>1. UnheardInv => CountsUnheard
  BY DEF UnheardInv, HeardInv, NodeHeard, CountsUnheard, Unheard
<1> QED
  BY <1>1, SpecUnheard, PTL
=============================================================================
