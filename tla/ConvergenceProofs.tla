--------------------------- MODULE ConvergenceProofs ---------------------------
(***************************************************************************)
(* Proof that the root converges only when the exchange is complete, for   *)
(* every network, under ideal conditions: no losses, the timing the delays *)
(* of iotorii-csma.c intend, one address per node, tables that know each   *)
(* other and payloads with room for all neighbours.                        *)
(*                                                                         *)
(* A round spreads from the root.  Whoever is in the round has offered, or *)
(* will offer, an address to all of its neighbours but its parent, hence   *)
(* all of them are in the round when its statistic timer fires; a child    *)
(* fires after its parent, so the parent counts it before anything comes   *)
(* from it.  From then on a node awaits those of its children whose LOAD,  *)
(* or SHARE, it has not taken, and what it sends is its last word.         *)
(***************************************************************************)
EXTENDS Den2neProofs

Queue(n) == payload_entry_list[n]

\* The nodes that hold an address of the round the root is in.
InRound ==
  {n \in Nodes : hlmac_table[n] # << >> /\ HeadEntry(n).timestamp = timestamp}

-----------------------------------------------------------------------------
(***************************************************************************)
(* How a round spreads.                                                    *)
(***************************************************************************)
HeadsOfPast ==
  \A n \in Nodes : hlmac_table[n] # << >> => HeadEntry(n).timestamp <= timestamp

CurrentOnly ==
  /\ \A o \in offers : o.timestamp = timestamp
  /\ \A n \in Nodes : \A i \in 1 .. Len(Queue(n)) : Queue(n)[i].timestamp = timestamp

ListsOthers ==
  /\ \A n \in Nodes : \A i \in 1 .. Len(Queue(n)) : Queue(n)[i].to = Nbr[n] \ Parents(n)
  /\ \A o \in offers : o.to \notin Parents(o.from)

OneSender == \A o, p \in offers : o.from = p.from

\* Whoever has sent its SetHLMAC has reached its neighbours, or is about to.
Reached ==
  \A n \in InRound : Queue(n) = << >> =>
    \A m \in Nbr[n] \ Parents(n) :
      m \in InRound \/ \E o \in offers : o.from = n /\ o.to = m

\* The root sends first, so its neighbours are its children.
RootFirst ==
  /\ Queue(Root) # << >> => \A n \in InRound : n = Root
  /\ \A m \in Nbr[Root] : m \in InRound => flag[m][Root] = 1
  /\ \A m \in Nodes : flag[Root][m] = 0

ChildrenUnheard == \A m \in InRound : \A n \in Parents(m) : flag[n][m] = 0

\* An address is as long as its path from the root.
ShortAddresses ==
  \A n \in InRound : Len(HeadEntry(n).address) <= Cardinality(InRound)

RoundInv ==
  /\ HeadsOfPast /\ CurrentOnly /\ ListsOthers /\ OneSender /\ Reached
  /\ RootFirst /\ ChildrenUnheard /\ ShortAddresses

-----------------------------------------------------------------------------
LEMMA AllListed ==
  ASSUME EveryNeighbourFits, NEW n \in Nodes, NEW addr \in Address,
         Len(addr) \in 1 .. Cardinality(Nodes), NEW sender, NEW mac \in MacPayloads,
         NEW R \in RecipientChoices(n, addr, sender, mac)
  PROVE  R = Nbr[n] \ {sender}
<1> DEFINE others == Nbr[n] \ {sender}
           fit == EntriesThatFit(Len(addr), mac)
<1>1. /\ IsFiniteSet(Nbr[n]) /\ IsFiniteSet(others) /\ R \in SUBSET others
      /\ Cardinality(R) = IF Cardinality(others) < fit THEN Cardinality(others) ELSE fit
      /\ Cardinality(others) <= Cardinality(Nbr[n])
  <2>1. IsFiniteSet(Nbr[n]) /\ others \in SUBSET Nbr[n]
    BY AssignmentAssumption, FS_Subset
  <2> QED
    BY <2>1, FS_Subset DEF RecipientChoices
<1>2. Cardinality(Nbr[n]) <= fit
  BY DEF EveryNeighbourFits, number_of_neighbours
<1>3. fit \in Int
  BY AssignmentAssumption, LenProperties DEF EntriesThatFit, Address
<1>4. Cardinality(others) \in Nat /\ Cardinality(Nbr[n]) \in Nat
  BY <1>1, FS_CardinalityType
<1> HIDE DEF others, fit
<1>5. Cardinality(R) = Cardinality(others)
  BY <1>1, <1>2, <1>3, <1>4
<1>6. R = others
  BY <1>1, <1>5, FS_Subset
<1> QED
  BY <1>6 DEF others

\* The queue of n, empty so far, gets a payload for all neighbours but the
\* sender, if there are any.
QueuesForOthers(n, sender, ts) ==
  /\ \A k \in Nodes \ {n} : Queue(k)' = Queue(k)
  /\ \A i \in 1 .. Len(Queue(n)') :
       Queue(n)'[i].to = Nbr[n] \ {sender} /\ Queue(n)'[i].timestamp = ts
  /\ Queue(n)' = << >> => Nbr[n] \ {sender} = {}

LEMMA QueuedForAll ==
  ASSUME EveryNeighbourFits, AssignmentTypeOK, NEW n \in Nodes, NEW addr \in Address,
         Len(addr) \in 1 .. Cardinality(Nodes), NEW sender, NEW ts,
         QueueSetHlmac(n, addr, sender, ts), Queue(n) = << >>
  PROVE  QueuesForOthers(n, sender, ts)
<1> DEFINE e(R, mac) == [timestamp |-> ts, prefix |-> addr, to |-> R, size |-> mac]
<1>1. PICK mac \in MacPayloads : \E R \in RecipientChoices(n, addr, sender, mac) :
        \/ R = {} /\ UNCHANGED payload_entry_list
        \/ payload_entry_list' = [payload_entry_list EXCEPT ![n] =
             Append(payload_entry_list[n], e(R, mac))]
  BY DEF QueueSetHlmac
<1>2. PICK R \in RecipientChoices(n, addr, sender, mac) :
        \/ R = {} /\ UNCHANGED payload_entry_list
        \/ payload_entry_list' = [payload_entry_list EXCEPT ![n] =
             Append(payload_entry_list[n], e(R, mac))]
  BY <1>1
<1>3. R = Nbr[n] \ {sender}
  BY AllListed
<1>4. payload_entry_list \in [Nodes -> Seq(Payload)] /\ payload_entry_list[n] = << >>
  BY DEF AssignmentTypeOK, Queue
<1>5. CASE R = {} /\ UNCHANGED payload_entry_list
  BY <1>3, <1>4, <1>5 DEF Queue, QueuesForOthers
<1>6. CASE payload_entry_list' = [payload_entry_list EXCEPT ![n] =
             Append(payload_entry_list[n], e(R, mac))]
  <2> DEFINE p == e(R, mac)
  <2>1. /\ payload_entry_list'[n] = Append(<< >>, p)
        /\ \A k \in Nodes \ {n} : payload_entry_list'[k] = payload_entry_list[k]
    BY <1>4, <1>6
  <2>2. p.to = Nbr[n] \ {sender} /\ p.timestamp = ts
    BY <1>3
  <2> HIDE DEF p
  <2>3. Len(Append(<< >>, p)) = 1 /\ Append(<< >>, p)[1] = p
    OBVIOUS
  <2> QED
    BY <2>1, <2>2, <2>3 DEF Queue, QueuesForOthers
<1> QED
  BY <1>2, <1>5, <1>6

-----------------------------------------------------------------------------
\* What one address per node and tables that know each other give.
Settings == MaxHlmac = 1 /\ MutualNeighbours /\ EveryNeighbourFits

LEMMA ParentFacts ==
  ASSUME Settings, TreeKnown, NEW n \in Nodes, NEW p \in Parents(n)
  PROVE  /\ n # Root /\ p \in Nodes /\ p \in Nbr[n] /\ n \in Nbr[p] /\ p # n
         /\ Parents(n) = {p}
         /\ hlmac_table[n] # << >> /\ hlmac_table[p] # << >>
         /\ HeadEntry(n).timestamp \in Int /\ HeadEntry(p).timestamp \in Int
         /\ HeadEntry(n).timestamp <= HeadEntry(p).timestamp
<1>1. /\ MaxHlmac = 1 /\ MutualNeighbours /\ TreeInv /\ ParentInv
      /\ AssignmentTypeOK /\ TreeOrder
  BY DEF Settings, TreeKnown, TreeInv, ShapeInv
<1>2. p \in Nodes
  BY DEF Parents
<1>3. /\ n # Root /\ hlmac_table[n] # << >> /\ hlmac_table[p] # << >>
      /\ \/ HeadEntry(p).timestamp > HeadEntry(n).timestamp
         \/ HeadEntry(p).timestamp = HeadEntry(n).timestamp
  BY <1>1 DEF TreeOrder
<1>4. PICK q \in Nodes : Parents(n) = {q}
  BY <1>1, <1>3, OneParent
<1>5. PICK r \in Nbr[n] : flag[n][r] = 1
  BY <1>1, <1>3 DEF ParentInv, HasParent
<1>6. p = r /\ Parents(n) = {p}
  BY <1>4, <1>5, AssignmentAssumption DEF Parents
<1>7. p \in Nbr[n] /\ n \in Nbr[p] /\ p # n
  BY <1>1, <1>5, <1>6, AssignmentAssumption DEF MutualNeighbours
<1>8. HeadEntry(n).timestamp \in Int /\ HeadEntry(p).timestamp \in Int
  <2>1. HeadEntry(n).timestamp \in 0 .. MaxRound
    BY <1>1, <1>3, HeadType
  <2>2. HeadEntry(p).timestamp \in 0 .. MaxRound
    BY <1>1, <1>2, <1>3, HeadType
  <2> QED
    BY <2>1, <2>2
<1> QED
  BY <1>2, <1>3, <1>6, <1>7, <1>8

\* The parents of the members are members.
MembersFacts ==
  /\ \A m \in InRound : m \in Nodes
  /\ \A m \in InRound : \A p \in Parents(m) :
       p \in InRound /\ p \in Nbr[m] /\ m \in Nbr[p] /\ m # Root /\ p # m
  /\ \A m \in InRound : m # Root => \E p \in InRound : Parents(m) = {p}
  /\ InRound # {} => Root \in InRound
  /\ timestamp >= 0 => Root \in InRound

LEMMA MembersKnown ==
  ASSUME Settings, TreeKnown, HeadsOfPast
  PROVE  MembersFacts
<1>1. /\ MaxHlmac = 1 /\ MutualNeighbours /\ TreeInv /\ ParentInv
      /\ AssignmentTypeOK /\ RootEntryIsCurrent
  BY DEF Settings, TreeKnown, TreeInv, ShapeInv
<1>2. timestamp \in Int /\ Root \in Nodes
  BY <1>1, AssignmentAssumption DEF AssignmentTypeOK
<1>3. ASSUME NEW m \in InRound, NEW p \in Parents(m)
      PROVE  p \in InRound /\ p \in Nbr[m] /\ m \in Nbr[p] /\ m # Root /\ p # m
             /\ Parents(m) = {p}
  <2>1. m \in Nodes /\ HeadEntry(m).timestamp = timestamp
    BY DEF InRound
  <2>2. /\ p \in Nodes /\ hlmac_table[p] # << >> /\ HeadEntry(p).timestamp \in Int
        /\ HeadEntry(m).timestamp <= HeadEntry(p).timestamp
    BY <2>1, ParentFacts
  <2>3. HeadEntry(p).timestamp <= timestamp
    BY <2>2 DEF HeadsOfPast
  <2>4. p \in InRound
    BY <1>2, <2>1, <2>2, <2>3 DEF InRound
  <2> QED
    BY <2>1, <2>4, ParentFacts
<1>4. ASSUME NEW m \in InRound, m # Root
      PROVE  \E p \in InRound : Parents(m) = {p}
  <2>1. m \in Nodes \ {Root} /\ hlmac_table[m] # << >>
    BY <1>4 DEF InRound
  <2>2. PICK p \in Nodes : Parents(m) = {p}
    BY <1>1, <2>1, OneParent
  <2> QED
    BY <1>3, <2>2
<1>5. timestamp >= 0 => Root \in InRound
  BY <1>1, <1>2 DEF RootEntryIsCurrent, InRound
<1>6. ASSUME NEW m \in InRound PROVE timestamp >= 0
  <2>1. m \in Nodes /\ hlmac_table[m] # << >> /\ HeadEntry(m).timestamp = timestamp
    BY DEF InRound
  <2>2. HeadEntry(m).timestamp \in 0 .. MaxRound
    BY <1>1, <2>1, HeadType
  <2> QED
    BY <2>1, <2>2, AssignmentAssumption
<1> QED
  BY <1>3, <1>4, <1>5, <1>6 DEF MembersFacts, InRound

\* What is queued or on its way comes from members and never goes to the root.
TrafficFacts ==
  /\ \A o \in offers :
       /\ o.from \in InRound /\ o.to \in Nodes /\ o.to # Root /\ o.from # o.to
       /\ o.to \in Nbr[o.from] /\ o.from \in Nbr[o.to]
  /\ \A n \in Nodes : Queue(n) # << >> => n \in InRound
  /\ \A n \in Nodes : /\ Len(Queue(n)) \in {0, 1}
                      /\ Len(Queue(n)) = 0 <=> Queue(n) = << >>

LEMMA TrafficKnown ==
  ASSUME Settings, TreeKnown, RoundInv
  PROVE  TrafficFacts
<1>1. /\ MaxHlmac = 1 /\ MutualNeighbours /\ TreeInv /\ OnceInv /\ AssignmentTypeOK
      /\ OffersAreCovered /\ QueuedAreCovered
  BY DEF Settings, TreeKnown, TreeInv, ShapeInv, UnheardInv
<1>2. timestamp \in Int /\ Root \in Nodes
  BY <1>1, AssignmentAssumption DEF AssignmentTypeOK
<1>3. ASSUME NEW n \in Nodes, NEW addr, HeadCovers(n, timestamp, addr)
      PROVE  n \in InRound /\ HeadEntry(n).address = addr
  <2>1. hlmac_table[n] # << >> /\ HeadEntry(n).timestamp \in Int
    BY <1>1, <1>3, HeadType, AssignmentAssumption DEF HeadCovers
  <2>2. HeadEntry(n).timestamp <= timestamp
    BY <2>1 DEF RoundInv, HeadsOfPast
  <2> QED
    BY <1>2, <1>3, <2>1, <2>2 DEF HeadCovers, InRound
<1>4. ASSUME NEW o \in offers
      PROVE  /\ o.from \in InRound /\ o.to \in Nodes /\ o.to # Root /\ o.from # o.to
             /\ o.to \in Nbr[o.from] /\ o.from \in Nbr[o.to]
  <2>1. o.from \in Nodes /\ o.to \in Nodes
    BY <1>1 DEF AssignmentTypeOK, Offer
  <2>2. o.timestamp = timestamp
    BY DEF RoundInv, CurrentOnly
  <2>3. PICK prefix \in Address : HeadCovers(o.from, timestamp, prefix)
    BY <1>1, <2>2 DEF OffersAreCovered
  <2>4. o.from \in InRound
    BY <1>3, <2>1, <2>3
  <2>5. o.to \in Nbr[o.from] /\ o.from \in Nbr[o.to] /\ o.from # o.to
    BY <1>1, <2>1, AssignmentAssumption DEF OnceInv, OfferedToNeighbours, MutualNeighbours
  <2>6. o.to # Root
    BY <1>2, <2>1, <2>4, <2>5 DEF RoundInv, RootFirst, ListsOthers, Parents
  <2> QED
    BY <2>1, <2>4, <2>5, <2>6
<1>5. ASSUME NEW n \in Nodes
      PROVE  /\ Queue(n) # << >> => n \in InRound
             /\ Len(Queue(n)) \in {0, 1}
             /\ Len(Queue(n)) = 0 <=> Queue(n) = << >>
  <2>1. Queue(n) \in Seq(Payload)
    BY <1>1 DEF AssignmentTypeOK, Queue
  <2>2. Len(Queue(n)) \in Nat /\ (Len(Queue(n)) = 0 <=> Queue(n) = << >>)
    BY <2>1
  <2>3. ASSUME Queue(n) # << >> PROVE n \in InRound
    <3>1. 1 \in 1 .. Len(Queue(n))
      BY <2>2, <2>3
    <3>2. Queue(n)[1].timestamp = timestamp
      BY <3>1 DEF RoundInv, CurrentOnly
    <3>3. HeadCovers(n, Queue(n)[1].timestamp, Queue(n)[1].prefix)
      BY <1>1, <3>1 DEF QueuedAreCovered, Queue
    <3> QED
      BY <1>3, <3>2, <3>3
  <2>4. ASSUME Len(Queue(n)) > 1 PROVE FALSE
    <3>1. 1 \in 1 .. Len(Queue(n)) /\ 2 \in 1 .. Len(Queue(n))
      BY <2>2, <2>4
    <3>2. Queue(n)[1].timestamp < Queue(n)[2].timestamp
      BY <1>1, <3>1 DEF OnceInv, QueueGrows, Queue
    <3>3. Queue(n)[1].timestamp = timestamp /\ Queue(n)[2].timestamp = timestamp
      BY <3>1 DEF RoundInv, CurrentOnly
    <3> QED
      BY <1>2, <3>2, <3>3
  <2>5. Len(Queue(n)) \in {0, 1}
    BY <2>2, <2>4
  <2> QED
    BY <2>2, <2>3, <2>5
<1> QED
  BY <1>4, <1>5 DEF TrafficFacts

-----------------------------------------------------------------------------
(***************************************************************************)
(* What each handler does to a round.                                      *)
(***************************************************************************)
Begun ==
  /\ timestamp' = timestamp + 1
  /\ offers' = {}
  /\ InRound' = {Root}
  /\ HeadsOfPast'
  /\ Len(hlmac_table'[Root][1].address) = 1
  /\ \A m \in Nodes : flag'[Root][m] = 0
  /\ \A n \in Nodes : Queue(n) = << >>
  /\ QueuesForOthers(Root, Root, timestamp + 1)

Sent(n) ==
  /\ offers = {}
  /\ n \in InRound
  /\ UNCHANGED <<timestamp, hlmac_table, flag>>
  /\ Queue(n) # << >> /\ Queue(n)' = << >>
  /\ \A k \in Nodes \ {n} : Queue(k)' = Queue(k)
  /\ \A o \in offers' :
       o.from = n /\ o.to \in Nbr[n] \ Parents(n) /\ o.timestamp = timestamp
  /\ \A m \in Nbr[n] \ Parents(n) : \E o \in offers' : o.from = n /\ o.to = m

Taken(o) ==
  /\ timestamp' = timestamp
  /\ offers' = offers \ {o}
  /\ o.to \notin InRound /\ InRound' = InRound \cup {o.to}
  /\ hlmac_table'[o.to] # << >> /\ hlmac_table'[o.to][1].timestamp = timestamp
  /\ Len(hlmac_table'[o.to][1].address) = Len(HeadEntry(o.from).address) + 1
  /\ \A m \in Nodes : flag'[o.to][m] = IF m = o.from THEN 1 ELSE 0
  /\ \A k \in Nodes \ {o.to} : flag'[k] = flag[k] /\ hlmac_table'[k] = hlmac_table[k]
  /\ Queue(o.to) = << >>
  /\ QueuesForOthers(o.to, o.from, timestamp)

Left(o) ==
  /\ UNCHANGED <<timestamp, hlmac_table, payload_entry_list>>
  /\ offers' = offers \ {o}
  /\ o.to \in InRound
  /\ \A k, m \in Nodes :
       \/ flag'[k][m] = flag[k][m]
       \/ k = o.to /\ m = o.from /\ flag[k][m] = 0 /\ flag'[k][m] = -1

LEMMA RootBegins ==
  ASSUME Settings, Timely, TreeKnown, HeadsOfPast, BeginRound
  PROVE  Begun
<1> DEFINE addr == hlmac_create_root_addr(1)
           ts == timestamp + 1
<1>1. /\ MaxHlmac = 1 /\ EveryNeighbourFits /\ TreeInv /\ AssignmentTypeOK
      /\ RootEntryIsCurrent /\ \A n \in Nodes : Len(hlmac_table[n]) <= 1
      /\ NetworkQuiet /\ StartRound /\ Root \in Nodes /\ timestamp \in Int
  BY AssignmentAssumption
  DEF Settings, TreeKnown, TreeInv, ShapeInv, BeginRound, AssignmentTypeOK
<1>2. /\ addr \in Address /\ Len(addr) = 1 /\ ts \in 0 .. MaxRound
      /\ timestamp' = ts /\ offers' = offers
      /\ flag' = [flag EXCEPT ![Root] = [m \in Nodes |-> 0]]
      /\ hlmac_table' = [hlmac_table EXCEPT ![Root] =
           hlmactable_add(hlmac_table[Root], addr, ts)]
      /\ QueueSetHlmac(Root, addr, Root, ts)
  BY <1>1, AssignmentAssumption
  DEF hlmac_create_root_addr, Address, StartRound, AssignmentTypeOK
<1>3. offers = {} /\ \A n \in Nodes : Queue(n) = << >>
  BY <1>1 DEF NetworkQuiet, Queue
<1>4. \A m \in Nodes : flag'[Root][m] = 0
  BY <1>1, <1>2 DEF AssignmentTypeOK
<1>5. QueuesForOthers(Root, Root, ts)
  <2>1. Len(addr) \in 1 .. Cardinality(Nodes)
    <3>1. IsFiniteSet(Nodes) /\ Nodes # {}
      BY AssignmentAssumption
    <3>2. Cardinality(Nodes) \in Nat /\ Cardinality(Nodes) # 0
      BY <3>1, FS_CardinalityType, FS_EmptySet
    <3> HIDE DEF addr
    <3> QED
      BY <1>2, <3>2
  <2> HIDE DEF addr, ts
  <2> QED
    BY <1>1, <1>2, <1>3, <2>1, QueuedForAll
<1> HIDE DEF addr
<1>6. /\ \A n \in Nodes \ {Root} : hlmac_table'[n] = hlmac_table[n]
      /\ hlmac_table'[Root] # << >> /\ hlmac_table'[Root][1].timestamp = ts
      /\ hlmac_table'[Root][1].address = addr
  <2>1. hlmac_table[Root] = << >> \/ ts > HeadEntry(Root).timestamp
    BY <1>1 DEF RootEntryIsCurrent
  <2> HIDE DEF ts
  <2>2. \A n \in Nodes \ {Root} : hlmac_table'[n] = hlmac_table[n]
    BY <1>1, <1>2, HeadAfterAdd
  <2>3. IsAdded(hlmac_table[Root], ts)
    BY <1>1, <1>2, <2>1, HeadAfterAdd
  <2>4. /\ hlmac_table'[Root] # << >> /\ hlmac_table'[Root][1].timestamp = ts
        /\ hlmac_table'[Root][1].address = addr
    BY <1>1, <1>2, <2>3, HeadIfAdded
  <2> QED
    BY <2>2, <2>4
<1>7. \A n \in Nodes \ {Root} :
        hlmac_table'[n] # << >> =>
          hlmac_table'[n][1].timestamp \in Int /\ hlmac_table'[n][1].timestamp <= timestamp
  <2> SUFFICES ASSUME NEW n \in Nodes \ {Root}, hlmac_table[n] # << >>
               PROVE  hlmac_table[n][1].timestamp \in Int /\ hlmac_table[n][1].timestamp <= timestamp
    BY <1>6
  <2>1. HeadEntry(n).timestamp \in 0 .. MaxRound
    BY <1>1, HeadType
  <2> QED
    BY <2>1 DEF HeadEntry, HeadsOfPast
<1>8. HeadsOfPast'
  BY <1>1, <1>2, <1>6, <1>7 DEF HeadsOfPast, HeadEntry
<1>9. InRound' = {Root}
  BY <1>1, <1>2, <1>6, <1>7 DEF InRound, HeadEntry
<1> QED
  BY <1>2, <1>3, <1>4, <1>5, <1>6, <1>8, <1>9 DEF Begun

LEMMA SetHlmacSent ==
  ASSUME Settings, Timely, TreeKnown, RoundInv, NEW n \in Nodes, BroadcastSetHlmac(n)
  PROVE  Sent(n)
<1>1. /\ AssignmentTypeOK /\ ShapeInv /\ TrafficFacts
      /\ SendMessage(n) /\ offers = {}
  BY TrafficKnown DEF TreeKnown, ShapeInv, BroadcastSetHlmac, NoFrameInTheAir
<1>2. /\ 1 \in 1 .. Len(Queue(n))
      /\ offers' = offers \cup Frame(n, Queue(n)[1])
      /\ \A m \in Nodes : \A i \in 1 .. Len(Queue(m)') :
           IF m = n THEN i + 1 \in 1 .. Len(Queue(m))
           ELSE i \in 1 .. Len(Queue(m)) /\ Queue(m)'[i] = Queue(m)[i]
  BY <1>1, SentQueue DEF Queue
<1>3. /\ payload_entry_list \in [Nodes -> Seq(Payload)]
      /\ payload_entry_list' = [payload_entry_list EXCEPT ![n] = Tail(payload_entry_list[n])]
      /\ UNCHANGED <<timestamp, hlmac_table, flag>>
  BY <1>1 DEF SendMessage, AssignmentTypeOK
<1>4. /\ Len(Queue(n)) = 1 /\ Queue(n) # << >> /\ n \in InRound
      /\ Queue(n) \in Seq(Payload)
  BY <1>1, <1>2, <1>3 DEF TrafficFacts, Queue
<1>5. Queue(n)' = Tail(Queue(n)) /\ \A k \in Nodes \ {n} : Queue(k)' = Queue(k)
  BY <1>3 DEF Queue
<1>6. Queue(n)' = << >>
  BY <1>4, <1>5
<1>7. Queue(n)[1].to = Nbr[n] \ Parents(n) /\ Queue(n)[1].timestamp = timestamp
  BY <1>2 DEF RoundInv, ListsOthers, CurrentOnly
<1> DEFINE p == Queue(n)[1]
<1>8. offers' = {[from |-> n, to |-> m, timestamp |-> p.timestamp,
                  address |-> hlmac_add_new_id(p.prefix, number_id[n][m])] : m \in p.to}
  BY <1>1, <1>2 DEF Frame
<1>9. p.to = Nbr[n] \ Parents(n) /\ p.timestamp = timestamp
  BY <1>7
<1> HIDE DEF p
<1> DEFINE Made(m) ==
      [from |-> n, to |-> m, timestamp |-> p.timestamp,
       address |-> hlmac_add_new_id(p.prefix, number_id[n][m])]
<1>10. \A m : Made(m).from = n /\ Made(m).to = m /\ Made(m).timestamp = p.timestamp
  OBVIOUS
<1>11. offers' = {Made(m) : m \in p.to}
  BY <1>8
<1> HIDE DEF Made
<1>12. /\ \A o \in offers' :
           o.from = n /\ o.to \in Nbr[n] \ Parents(n) /\ o.timestamp = timestamp
       /\ \A m \in Nbr[n] \ Parents(n) : \E o \in offers' : o.from = n /\ o.to = m
  BY <1>9, <1>10, <1>11
<1> QED
  BY <1>1, <1>3, <1>4, <1>5, <1>6, <1>12 DEF Sent

LEMMA AddressTaken ==
  ASSUME Settings, TreeKnown, RoundInv, ShapeInv', NEW o \in offers, AcceptOffer(o)
  PROVE  Taken(o)
<1> DEFINE n == o.to
           ts == o.timestamp
<1>1. /\ MaxHlmac = 1 /\ MutualNeighbours /\ EveryNeighbourFits
      /\ ShapeInv /\ TreeInv /\ OnceInv /\ AssignmentTypeOK
      /\ HeadsOfPast /\ OffersAreCovered /\ TrafficFacts /\ MembersFacts
      /\ \A k \in Nodes : Len(hlmac_table[k]) <= 1
  BY TrafficKnown, MembersKnown
  DEF Settings, TreeKnown, TreeInv, UnheardInv, RoundInv, ShapeInv
<1>2. /\ n \in Nodes /\ o.from \in Nodes /\ ts \in 0 .. MaxRound
      /\ o.address \in Address /\ timestamp \in Int /\ ts = timestamp
      /\ o.from \in InRound /\ o.from # n /\ n \in Nbr[o.from]
  BY <1>1, AssignmentAssumption
  DEF AssignmentTypeOK, Offer, TrafficFacts, RoundInv, CurrentOnly
<1>3. /\ hlmac_table[n] = << >> \/ HeadEntry(n).timestamp < ts
      /\ hlmac_table'[n] # << >> /\ hlmac_table'[n][1].timestamp = ts
      /\ hlmac_table'[n][1].address = o.address
      /\ \A m \in Nodes :
           flag'[n][m] = IF m = o.from /\ m \in Nbr[n] THEN 1 ELSE 0
      /\ o.from \in Nbr[n]
      /\ \A k \in Nodes \ {n} : OwnStateKept(k)
  BY <1>1, AcceptedOffer
<1>4. \A k \in Nodes \ {n} : flag'[k] = flag[k] /\ hlmac_table'[k] = hlmac_table[k]
  BY <1>3 DEF OwnStateKept
<1>5. \A m \in Nodes : flag'[n][m] = IF m = o.from THEN 1 ELSE 0
  BY <1>3
<1>6. /\ timestamp' = timestamp /\ offers' = offers \ {o}
      /\ QueueSetHlmac(n, o.address, o.from, ts)
  BY DEF AcceptOffer
<1>7. n \notin InRound
  <2>1. CASE hlmac_table[n] = << >>
    BY <2>1 DEF InRound
  <2>2. CASE HeadEntry(n).timestamp < ts /\ hlmac_table[n] # << >>
    <3>1. HeadEntry(n).timestamp \in 0 .. MaxRound
      BY <1>1, <1>2, <2>2, HeadType
    <3> QED
      BY <1>2, <2>2, <3>1 DEF InRound
  <2> QED
    BY <1>3, <2>1, <2>2
<1>8. InRound' = InRound \cup {n}
  BY <1>2, <1>3, <1>4, <1>6 DEF InRound, HeadEntry
<1>9. Len(o.address) = Len(HeadEntry(o.from).address) + 1 /\ Len(o.address) \in Nat
  <2>1. PICK prefix \in Address : Extends(o, prefix) /\ HeadCovers(o.from, ts, prefix)
    BY <1>1 DEF OffersAreCovered
  <2>2. HeadEntry(o.from).timestamp = ts
    BY <1>2 DEF InRound
  <2>3. HeadEntry(o.from).address = prefix
    BY <1>2, <2>1, <2>2 DEF HeadCovers
  <2>4. number_id[o.from][n] \in Nat
    BY <1>2, AssignmentAssumption
  <2> QED
    BY <2>1, <2>3, <2>4, AddIdType DEF Extends, Address
<1>10. Len(o.address) \in 1 .. Cardinality(Nodes)
  <2>1. Len(HeadEntry(o.from).address) <= Cardinality(InRound)
    BY <1>2 DEF RoundInv, ShortAddresses
  <2>2. /\ IsFiniteSet(Nodes) /\ IsFiniteSet(InRound) /\ IsFiniteSet(InRound \cup {n})
        /\ Cardinality(InRound \cup {n}) = Cardinality(InRound) + 1
        /\ Cardinality(InRound \cup {n}) <= Cardinality(Nodes)
        /\ Cardinality(InRound) \in Nat /\ Cardinality(Nodes) \in Nat
    <3>1. IsFiniteSet(Nodes) /\ InRound \subseteq Nodes /\ InRound \cup {n} \subseteq Nodes
      BY <1>2, AssignmentAssumption DEF InRound
    <3>2. IsFiniteSet(InRound) /\ IsFiniteSet(InRound \cup {n})
      BY <3>1, FS_Subset
    <3> QED
      BY <1>7, <3>1, <3>2, FS_Subset, FS_CardinalityType, FS_AddElement
  <2>3. Len(HeadEntry(o.from).address) \in Nat
    <3>1. hlmac_table[o.from] # << >>
      BY <1>2 DEF InRound
    <3>2. HeadEntry(o.from).address \in Address
      BY <1>1, <1>2, <3>1, HeadType
    <3> QED
      BY <3>2 DEF Address
  <2> QED
    BY <1>9, <2>1, <2>2, <2>3
<1>11. Queue(n) = << >>
  BY <1>1, <1>2, <1>7 DEF TrafficFacts
<1>12. QueuesForOthers(n, o.from, timestamp)
  BY <1>1, <1>2, <1>6, <1>10, <1>11, QueuedForAll
<1> QED
  BY <1>2, <1>3, <1>4, <1>5, <1>6, <1>7, <1>8, <1>9, <1>11, <1>12 DEF Taken

\* An empty table has no loop to offer, so only a member disregards an offer of
\* the round.
LEMMA LeftByMember ==
  ASSUME Settings, TreeKnown, RoundInv, NEW o \in offers, MayBeDisregarded(o)
  PROVE  o.to \in InRound
<1> DEFINE n == o.to
           ts == o.timestamp
<1>1. /\ MaxHlmac = 1 /\ AssignmentTypeOK /\ TrafficFacts /\ LastTimestampIsHeads
  BY TrafficKnown DEF Settings, TreeKnown, TreeInv, ShapeInv
<1>2. /\ n \in Nodes /\ n # Root /\ ts \in 0 .. MaxRound /\ ts = timestamp
      /\ ts \in Int /\ o.address \in Address
  BY <1>1, AssignmentAssumption
  DEF AssignmentTypeOK, Offer, TrafficFacts, RoundInv, CurrentOnly
<1>3. PICK loop \in HasLoopOutcomes(n, o.address) : ~Considered(o, loop)
  BY DEF MayBeDisregarded
<1>4. CASE hlmac_table[n] = << >>
  <2>1. loop = hlmactable_has_loop(<< >>, o.address)
    BY <1>3, <1>4 DEF HasLoopOutcomes
  <2>2. MatchingLengths(<< >>, o.address) = {}
    BY DEF MatchingLengths
  <2>3. ~loop
    BY <2>1, <2>2
    DEF hlmactable_has_loop, hlmactable_get_longest_matchhed_prefix,
        hlmac_is_unspecified_addr
  <2>4. last_timestamp[n] = 0
    BY <1>1, <1>2, <1>4 DEF LastTimestampIsHeads
  <2>5. ts > last_timestamp[n] \/ ts = last_timestamp[n]
    BY <1>2, <2>4
  <2> QED
    BY <1>3, <2>3, <2>5 DEF Considered
<1>5. CASE hlmac_table[n] # << >>
  <2>1. last_timestamp[n] = HeadEntry(n).timestamp
    BY <1>1, <1>2, <1>5 DEF LastTimestampIsHeads
  <2>2. ~ (ts > HeadEntry(n).timestamp)
    BY <1>3, <2>1 DEF Considered
  <2>3. HeadEntry(n).timestamp \in 0 .. MaxRound
    BY <1>1, <1>2, <1>5, HeadType
  <2>4. HeadEntry(n).timestamp <= timestamp
    BY <1>2, <1>5 DEF RoundInv, HeadsOfPast
  <2>5. HeadEntry(n).timestamp = timestamp
    BY <1>2, <2>2, <2>3, <2>4
  <2> QED
    BY <1>2, <1>5, <2>5 DEF InRound
<1> QED
  BY <1>4, <1>5

LEMMA OfferLeft ==
  ASSUME Settings, TreeKnown, RoundInv, ShapeInv', NEW o \in offers,
         RefuseOffer(o) \/ DisregardOffer(o)
  PROVE  Left(o)
<1> DEFINE n == o.to
           ts == o.timestamp
<1>1. /\ MaxHlmac = 1 /\ ShapeInv /\ TreeInv /\ HeardInv /\ AssignmentTypeOK
      /\ TrafficFacts
  BY TrafficKnown DEF Settings, TreeKnown, TreeInv, UnheardInv, ShapeInv
<1>2. /\ n \in Nodes /\ n # Root /\ ts \in 0 .. MaxRound /\ ts = timestamp
      /\ ts \in Int /\ o.from \in Nbr[n]
  BY <1>1, AssignmentAssumption
  DEF AssignmentTypeOK, Offer, TrafficFacts, RoundInv, CurrentOnly
<1>3. CASE DisregardOffer(o)
  BY <1>3, LeftByMember DEF DisregardOffer, Left
<1>4. CASE RefuseOffer(o)
  <2>1. /\ hlmac_table[n] # << >> /\ ~ (ts > HeadEntry(n).timestamp)
        /\ hlmac_table' = hlmac_table
        /\ \A m \in Nodes :
             flag'[n][m] = IF m = o.from /\ m \in Nbr[n] THEN -1 ELSE flag[n][m]
        /\ \A k \in Nodes \ {n} : OwnStateKept(k)
        /\ last_timestamp[n] = ts
    BY <1>1, <1>2, <1>4, RefusedOffer
  <2>2. n \in InRound
    <3>1. HeadEntry(n).timestamp \in 0 .. MaxRound
      BY <1>1, <1>2, <2>1, HeadType
    <3>2. HeadEntry(n).timestamp <= timestamp
      BY <1>2, <2>1 DEF RoundInv, HeadsOfPast
    <3>3. HeadEntry(n).timestamp = timestamp
      BY <1>2, <2>1, <3>1, <3>2
    <3> QED
      BY <1>2, <2>1, <3>3 DEF InRound
  <2>3. flag[n][o.from] = 0
    <3>1. NodeHeard(n)
      BY <1>1, <1>2 DEF HeardInv
    <3> QED
      BY <2>1, <3>1 DEF NodeHeard
  <2>4. \A k, m \in Nodes :
          \/ flag'[k][m] = flag[k][m]
          \/ k = n /\ m = o.from /\ flag[k][m] = 0 /\ flag'[k][m] = -1
    BY <2>1, <2>3 DEF OwnStateKept
  <2>5. /\ UNCHANGED <<timestamp, payload_entry_list>>
        /\ offers' = offers \ {o}
    BY <1>4 DEF RefuseOffer
  <2> QED
    BY <2>1, <2>2, <2>4, <2>5 DEF Left
<1> QED
  BY <1>3, <1>4

-----------------------------------------------------------------------------
(***************************************************************************)
(* The spread invariants are kept.                                         *)
(***************************************************************************)
LEMMA BegunRound == ASSUME Begun PROVE RoundInv'
<1>1. /\ timestamp' = timestamp + 1 /\ offers' = {} /\ InRound' = {Root}
      /\ HeadsOfPast' /\ Len(hlmac_table'[Root][1].address) = 1
      /\ \A m \in Nodes : flag'[Root][m] = 0
      /\ \A n \in Nodes \ {Root} : Queue(n)' = << >>
      /\ \A i \in 1 .. Len(Queue(Root)') :
           /\ Queue(Root)'[i].to = Nbr[Root] \ {Root}
           /\ Queue(Root)'[i].timestamp = timestamp + 1
      /\ Queue(Root)' = << >> => Nbr[Root] \ {Root} = {}
      /\ Root \in Nodes /\ Root \notin Nbr[Root]
  BY AssignmentAssumption DEF Begun, QueuesForOthers
<1>2. Parents(Root)' = {}
  BY <1>1 DEF Parents
<1>3. \A n \in Nodes \ {Root} : 1 .. Len(Queue(n)') = {}
  BY <1>1
<1>4. CurrentOnly'
  <2>1. \A n \in Nodes : \A i \in 1 .. Len(Queue(n)') : Queue(n)'[i].timestamp = timestamp'
    BY <1>1, <1>3
  <2> QED
    BY <1>1, <2>1 DEF CurrentOnly
<1>5. ListsOthers'
  <2>1. Nbr[Root] \ {Root} = Nbr[Root] \ Parents(Root)'
    BY <1>1, <1>2
  <2>2. \A n \in Nodes : \A i \in 1 .. Len(Queue(n)') :
          Queue(n)'[i].to = Nbr[n] \ Parents(n)'
    BY <1>1, <1>3, <2>1
  <2> QED
    BY <1>1, <2>2 DEF ListsOthers
<1>6. OneSender'
  BY <1>1 DEF OneSender
<1>7. Reached'
  BY <1>1 DEF Reached
<1>8. RootFirst'
  BY <1>1 DEF RootFirst
<1>9. ChildrenUnheard'
  BY <1>1, <1>2 DEF ChildrenUnheard
<1>10. ShortAddresses'
  <2>1. Cardinality(InRound') = 1
    BY <1>1, FS_Singleton
  <2>2. Len(HeadEntry(Root).address)' = 1
    BY <1>1 DEF HeadEntry
  <2>3. Len(HeadEntry(Root).address)' <= Cardinality(InRound')
    BY <2>1, <2>2
  <2> QED
    BY <1>1, <2>3 DEF ShortAddresses
<1> QED
  BY <1>1, <1>4, <1>5, <1>6, <1>7, <1>8, <1>9, <1>10 DEF RoundInv

LEMMA SentRound ==
  ASSUME RoundInv, MembersFacts, NEW n \in Nodes, Sent(n)
  PROVE  RoundInv'
<1>1. /\ offers = {} /\ n \in InRound /\ timestamp' = timestamp
      /\ hlmac_table' = hlmac_table /\ flag' = flag
      /\ Queue(n) # << >> /\ Queue(n)' = << >>
      /\ \A k \in Nodes \ {n} : Queue(k)' = Queue(k)
      /\ \A o \in offers' :
           o.from = n /\ o.to \in Nbr[n] \ Parents(n) /\ o.timestamp = timestamp
      /\ \A m \in Nbr[n] \ Parents(n) : \E o \in offers' : o.from = n /\ o.to = m
  BY DEF Sent
<1>2. InRound' = InRound /\ \A k \in Nodes : Parents(k)' = Parents(k)
  BY <1>1 DEF InRound, HeadEntry, Parents
<1>3. \A k \in Nodes : \A i \in 1 .. Len(Queue(k)') :
        i \in 1 .. Len(Queue(k)) /\ Queue(k)'[i] = Queue(k)[i]
  <2>1. 1 .. Len(Queue(n)') = {}
    BY <1>1
  <2> QED
    BY <1>1, <2>1
<1>4. HeadsOfPast'
  BY <1>1 DEF RoundInv, HeadsOfPast, HeadEntry
<1>5. CurrentOnly'
  BY <1>1, <1>3 DEF RoundInv, CurrentOnly
<1>6. ListsOthers'
  <2>1. \A k \in Nodes : \A i \in 1 .. Len(Queue(k)') :
          Queue(k)'[i].to = Nbr[k] \ Parents(k)'
    BY <1>2, <1>3 DEF RoundInv, ListsOthers
  <2>2. \A o \in offers' : o.to \notin Parents(o.from)'
    BY <1>1, <1>2, AssignmentAssumption DEF MembersFacts
  <2> QED
    BY <2>1, <2>2 DEF ListsOthers
<1>7. OneSender'
  BY <1>1 DEF OneSender
<1>8. Reached'
  <2> SUFFICES ASSUME NEW k \in InRound, Queue(k)' = << >>, NEW m \in Nbr[k] \ Parents(k)
               PROVE  m \in InRound \/ \E o \in offers' : o.from = k /\ o.to = m
    <3>1. \A k \in InRound : Parents(k)' = Parents(k)
      BY <1>2 DEF MembersFacts
    <3> QED
      BY <1>2, <3>1 DEF Reached
  <2>1. CASE k = n
    BY <1>1, <2>1
  <2>2. CASE k # n
    <3>1. Queue(k) = << >>
      BY <1>1, <2>2 DEF MembersFacts
    <3> QED
      BY <1>1, <3>1 DEF RoundInv, Reached
  <2> QED
    BY <2>1, <2>2
<1>9. RootFirst'
  <2>1. Queue(Root)' # << >> => Queue(Root) # << >>
    BY <1>1, AssignmentAssumption
  <2> QED
    BY <1>1, <1>2, <2>1 DEF RoundInv, RootFirst
<1>10. ChildrenUnheard'
  <2>1. \A m \in InRound : Parents(m)' = Parents(m)
    BY <1>2 DEF MembersFacts
  <2> QED
    BY <1>1, <1>2, <2>1 DEF RoundInv, ChildrenUnheard
<1>11. ShortAddresses'
  <2>1. \A m \in InRound : Len(HeadEntry(m).address)' = Len(HeadEntry(m).address)
    BY <1>1 DEF HeadEntry
  <2>2. Cardinality(InRound') = Cardinality(InRound)
    BY <1>2
  <2> QED
    BY <1>2, <2>1, <2>2 DEF RoundInv, ShortAddresses
<1> QED
  BY <1>4, <1>5, <1>6, <1>7, <1>8, <1>9, <1>10, <1>11 DEF RoundInv

LEMMA LeftKeeps ==
  ASSUME NEW o \in offers, Left(o)
  PROVE  /\ InRound' = InRound
         /\ \A k \in Nodes : Parents(k)' = Parents(k) /\ Queue(k)' = Queue(k)
         /\ \A k, m \in Nodes : flag'[k][m] = 1 <=> flag[k][m] = 1
         /\ \A k, m \in Nodes : flag'[k][m] = 0 => flag[k][m] = 0
<1>1. \A k, m \in Nodes : flag'[k][m] = 1 <=> flag[k][m] = 1
  BY DEF Left
<1>2. \A k, m \in Nodes : flag'[k][m] = 0 => flag[k][m] = 0
  BY DEF Left
<1> QED
  BY <1>1, <1>2 DEF Left, InRound, HeadEntry, Parents, Queue

LEMMA LeftRound ==
  ASSUME RoundInv, MembersFacts, TrafficFacts, NEW o \in offers, Left(o)
  PROVE  RoundInv'
<1>1. /\ timestamp' = timestamp /\ hlmac_table' = hlmac_table
      /\ offers' = offers \ {o} /\ o.to \in InRound
      /\ \A k, m \in Nodes :
           \/ flag'[k][m] = flag[k][m]
           \/ k = o.to /\ m = o.from /\ flag[k][m] = 0 /\ flag'[k][m] = -1
  BY DEF Left
<1>2. /\ InRound' = InRound
      /\ \A k \in Nodes : Parents(k)' = Parents(k) /\ Queue(k)' = Queue(k)
      /\ \A k, m \in Nodes : flag'[k][m] = 1 <=> flag[k][m] = 1
  BY LeftKeeps
<1>3. HeadsOfPast'
  BY <1>1 DEF RoundInv, HeadsOfPast, HeadEntry
<1>4. CurrentOnly'
  BY <1>1, <1>2 DEF RoundInv, CurrentOnly
<1>5. ListsOthers'
  <2>1. \A p \in offers : p.from \in Nodes
    BY DEF TrafficFacts, MembersFacts
  <2> QED
    BY <1>1, <1>2, <2>1 DEF RoundInv, ListsOthers
<1>6. OneSender'
  BY <1>1 DEF RoundInv, OneSender
<1>7. Reached'
  <2> SUFFICES ASSUME NEW k \in InRound, Queue(k) = << >>, NEW m \in Nbr[k] \ Parents(k)
               PROVE  m \in InRound \/ \E p \in offers' : p.from = k /\ p.to = m
    <3>1. \A k \in InRound : Parents(k)' = Parents(k) /\ Queue(k)' = Queue(k)
      BY <1>2 DEF MembersFacts
    <3> QED
      BY <1>2, <3>1 DEF Reached
  <2>1. m \in InRound \/ \E p \in offers : p.from = k /\ p.to = m
    BY DEF RoundInv, Reached
  <2> QED
    BY <1>1, <2>1
<1>8. RootFirst'
  <2>1. o.to # Root /\ Root \in Nodes /\ \A m \in Nbr[Root] : m \in Nodes
    BY AssignmentAssumption DEF TrafficFacts
  <2>2. \A m \in Nodes : flag'[Root][m] = 0
    BY <1>1, <2>1 DEF RoundInv, RootFirst
  <2> QED
    BY <1>2, <2>1, <2>2 DEF RoundInv, RootFirst
<1>9. ChildrenUnheard'
  <2> SUFFICES ASSUME NEW m \in InRound, NEW n \in Parents(m) PROVE flag'[n][m] = 0
    <3>1. \A m \in InRound : Parents(m)' = Parents(m)
      BY <1>2 DEF MembersFacts
    <3> QED
      BY <1>2, <3>1 DEF ChildrenUnheard
  <2>1. flag[n][m] = 0 /\ n \in Nodes /\ m \in Nodes
    BY DEF RoundInv, ChildrenUnheard, MembersFacts
  <2>2. ~ (n = o.to /\ m = o.from)
    BY DEF RoundInv, ListsOthers
  <2> QED
    BY <1>1, <2>1, <2>2
<1>10. ShortAddresses'
  <2>1. \A m \in InRound : Len(HeadEntry(m).address)' = Len(HeadEntry(m).address)
    BY <1>1 DEF HeadEntry
  <2>2. Cardinality(InRound') = Cardinality(InRound)
    BY <1>2
  <2> QED
    BY <1>2, <2>1, <2>2 DEF RoundInv, ShortAddresses
<1> QED
  BY <1>3, <1>4, <1>5, <1>6, <1>7, <1>8, <1>9, <1>10 DEF RoundInv

LEMMA TakenKeeps ==
  ASSUME NEW o \in offers, o.from \in Nodes, o.to \in Nodes, Taken(o)
  PROVE  /\ InRound' = InRound \cup {o.to} /\ o.to \notin InRound
         /\ \A k \in Nodes \ {o.to} :
              /\ Parents(k)' = Parents(k) /\ Queue(k)' = Queue(k) /\ flag'[k] = flag[k]
         /\ Parents(o.to)' = {o.from}
         /\ Queue(o.to) = << >>
         /\ \A i \in 1 .. Len(Queue(o.to)') :
              /\ Queue(o.to)'[i].to = Nbr[o.to] \ {o.from}
              /\ Queue(o.to)'[i].timestamp = timestamp
         /\ Queue(o.to)' = << >> => Nbr[o.to] \ {o.from} = {}
<1>1. \A k \in Nodes \ {o.to} :
        Parents(k)' = Parents(k) /\ Queue(k)' = Queue(k) /\ flag'[k] = flag[k]
  BY DEF Taken, QueuesForOthers, Parents
<1>2. Parents(o.to)' = {o.from}
  BY DEF Taken, Parents
<1> QED
  BY <1>1, <1>2 DEF Taken, QueuesForOthers

LEMMA TakenRound ==
  ASSUME Settings, TreeKnown, RoundInv, MembersFacts, TrafficFacts,
         NEW o \in offers, Taken(o)
  PROVE  RoundInv'
<1> DEFINE n == o.to
<1>1. /\ timestamp' = timestamp /\ offers' = offers \ {o}
      /\ hlmac_table'[n] # << >> /\ hlmac_table'[n][1].timestamp = timestamp
      /\ Len(hlmac_table'[n][1].address) = Len(HeadEntry(o.from).address) + 1
      /\ \A m \in Nodes : flag'[n][m] = IF m = o.from THEN 1 ELSE 0
      /\ \A k \in Nodes \ {n} : flag'[k] = flag[k] /\ hlmac_table'[k] = hlmac_table[k]
  BY DEF Taken
<1>2. /\ o.from \in InRound /\ o.from \in Nodes /\ n \in Nodes /\ n # Root
      /\ o.from # n /\ n \in Nbr[o.from] /\ o.from \in Nbr[n]
      /\ Root \in Nodes /\ timestamp \in Int
      /\ \A p \in offers : p.from = o.from
  <2>1. /\ o.from \in InRound /\ n \in Nodes /\ n # Root /\ o.from # n
        /\ n \in Nbr[o.from] /\ o.from \in Nbr[n]
    BY DEF TrafficFacts
  <2>2. o.from \in Nodes
    BY <2>1 DEF MembersFacts
  <2>3. \A p \in offers : p.from = o.from
    BY DEF RoundInv, OneSender
  <2>4. timestamp \in -1 .. MaxRound /\ MaxRound \in Nat
    BY AssignmentAssumption DEF TreeKnown, ShapeInv, AssignmentTypeOK
  <2>5. timestamp \in Int
    BY <2>4
  <2> QED
    BY <2>1, <2>2, <2>3, <2>5, AssignmentAssumption
<1>3. /\ InRound' = InRound \cup {n} /\ n \notin InRound
      /\ \A k \in Nodes \ {n} :
           Parents(k)' = Parents(k) /\ Queue(k)' = Queue(k) /\ flag'[k] = flag[k]
      /\ Parents(n)' = {o.from}
      /\ Queue(n) = << >>
      /\ \A i \in 1 .. Len(Queue(n)') :
           /\ Queue(n)'[i].to = Nbr[n] \ {o.from}
           /\ Queue(n)'[i].timestamp = timestamp
      /\ Queue(n)' = << >> => Nbr[n] \ {o.from} = {}
  BY <1>2, TakenKeeps
<1>4. \A m \in InRound : m \in Nodes \ {n}
  BY <1>3 DEF MembersFacts
<1>5. HeadsOfPast'
  <2>1. HeadEntry(n).timestamp' <= timestamp'
    BY <1>1, <1>2 DEF HeadEntry
  <2>2. \A k \in Nodes \ {n} :
          hlmac_table'[k] # << >> => HeadEntry(k).timestamp' <= timestamp'
    BY <1>1 DEF RoundInv, HeadsOfPast, HeadEntry
  <2> QED
    BY <2>1, <2>2 DEF HeadsOfPast
<1>6. CurrentOnly'
  <2>1. \A k \in Nodes : \A i \in 1 .. Len(Queue(k)') : Queue(k)'[i].timestamp = timestamp
    BY <1>3 DEF RoundInv, CurrentOnly
  <2> QED
    BY <1>1, <2>1 DEF RoundInv, CurrentOnly
<1>7. ListsOthers'
  <2>1. \A k \in Nodes : \A i \in 1 .. Len(Queue(k)') :
          Queue(k)'[i].to = Nbr[k] \ Parents(k)'
    BY <1>3 DEF RoundInv, ListsOthers
  <2>2. \A p \in offers' : p.to \notin Parents(p.from)'
    BY <1>1, <1>2, <1>3 DEF RoundInv, ListsOthers
  <2> QED
    BY <2>1, <2>2 DEF ListsOthers
<1>8. OneSender'
  BY <1>1 DEF RoundInv, OneSender
<1>9. Reached'
  <2> SUFFICES ASSUME NEW k \in InRound', Queue(k)' = << >>, NEW m \in Nbr[k] \ Parents(k)'
               PROVE  m \in InRound' \/ \E p \in offers' : p.from = k /\ p.to = m
    BY DEF Reached
  <2>1. CASE k = n
    BY <1>3, <2>1
  <2>2. CASE k # n
    <3>1. k \in InRound /\ k \in Nodes \ {n}
      BY <1>3, <1>4, <2>2
    <3>2. Queue(k) = << >> /\ m \in Nbr[k] \ Parents(k)
      BY <1>3, <3>1
    <3>3. m \in InRound \/ \E p \in offers : p.from = k /\ p.to = m
      BY <3>1, <3>2 DEF RoundInv, Reached
    <3> QED
      BY <1>1, <1>3, <3>3
  <2> QED
    BY <2>1, <2>2
<1>10. RootFirst'
  <2>1. Queue(Root) = << >> /\ Queue(Root)' = << >>
    <3>1. ASSUME Queue(Root) # << >> PROVE FALSE
      <4>1. o.from = Root
        BY <1>2, <3>1 DEF RoundInv, RootFirst
      <4>2. 1 \in 1 .. Len(Queue(Root))
        BY <1>2, <3>1 DEF TrafficFacts
      <4>3. o.timestamp < Queue(Root)[1].timestamp
        BY <4>1, <4>2
        DEF Settings, TreeKnown, UnheardInv, OnceInv, OffersBeforeQueue, Queue
      <4>4. o.timestamp = timestamp /\ Queue(Root)[1].timestamp = timestamp
        BY <1>2, <4>2 DEF RoundInv, CurrentOnly
      <4> QED
        BY <1>2, <4>3, <4>4
    <3> QED
      BY <1>2, <1>3, <3>1
  <2>2. \A m \in Nodes : flag'[Root][m] = 0
    BY <1>2, <1>3 DEF RoundInv, RootFirst
  <2>3. n \in Nbr[Root] => o.from = Root
    <3> SUFFICES ASSUME n \in Nbr[Root] PROVE o.from = Root
      OBVIOUS
    <3>1. Root \in InRound
      BY <1>2 DEF MembersFacts
    <3>2. n \notin Parents(Root)
      BY DEF RoundInv, RootFirst, Parents
    <3>3. \E p \in offers : p.from = Root /\ p.to = n
      BY <1>3, <2>1, <3>1, <3>2 DEF RoundInv, Reached
    <3> QED
      BY <1>2, <3>3
  <2>4. \A m \in Nbr[Root] : m \in InRound' => flag'[m][Root] = 1
    BY <1>1, <1>2, <1>3, <1>4, <2>3 DEF RoundInv, RootFirst
  <2> QED
    BY <2>1, <2>2, <2>4 DEF RootFirst
<1>11. flag[o.from][n] = 0
  <2>1. CASE o.from = Root
    BY <1>2, <2>1 DEF RoundInv, RootFirst
  <2>2. CASE o.from # Root
    <3>1. /\ MaxHlmac = 1 /\ MutualNeighbours /\ HeardInv /\ LastTimestampIsHeads
          /\ AssignmentTypeOK
      BY DEF Settings, TreeKnown, UnheardInv, TreeInv, ShapeInv
    <3>2. /\ hlmac_table[o.from] # << >> /\ last_timestamp[o.from] = timestamp
      BY <1>2, <2>2, <3>1 DEF LastTimestampIsHeads, InRound
    <3>3. flag[o.from][n] # 0 =>
            hlmac_table[n] # << >> /\ HeadEntry(n).timestamp >= timestamp
      BY <1>2, <2>2, <3>1, <3>2 DEF HeardInv, NodeHeard
    <3>4. ASSUME flag[o.from][n] # 0 PROVE FALSE
      <4>1. HeadEntry(n).timestamp \in 0 .. MaxRound
        BY <1>2, <3>1, <3>3, <3>4, HeadType
      <4>2. HeadEntry(n).timestamp <= timestamp
        BY <1>2, <3>3, <3>4 DEF RoundInv, HeadsOfPast
      <4>3. HeadEntry(n).timestamp = timestamp
        BY <1>2, <3>3, <3>4, <4>1, <4>2
      <4> QED
        BY <1>2, <1>3, <3>3, <3>4, <4>3 DEF InRound
    <3> QED
      BY <3>4
  <2> QED
    BY <2>1, <2>2
<1>12. ChildrenUnheard'
  <2> SUFFICES ASSUME NEW m \in InRound', NEW p \in Parents(m)' PROVE flag'[p][m] = 0
    BY DEF ChildrenUnheard
  <2>1. CASE m = n
    BY <1>2, <1>3, <1>11, <2>1
  <2>2. CASE m # n
    <3>1. m \in InRound /\ m \in Nodes \ {n} /\ p \in Parents(m)
      BY <1>3, <1>4, <2>2
    <3>2. p \in InRound /\ p \in Nodes \ {n}
      BY <1>4, <3>1 DEF MembersFacts
    <3> QED
      BY <1>3, <3>1, <3>2 DEF RoundInv, ChildrenUnheard
  <2> QED
    BY <2>1, <2>2
<1>13. ShortAddresses'
  <2>1. /\ Cardinality(InRound') = Cardinality(InRound) + 1
        /\ Cardinality(InRound) \in Nat
    <3>1. IsFiniteSet(Nodes) /\ InRound \subseteq Nodes
      BY AssignmentAssumption DEF InRound
    <3>2. IsFiniteSet(InRound)
      BY <3>1, FS_Subset
    <3> QED
      BY <1>3, <3>2, FS_AddElement, FS_CardinalityType
  <2>2. \A m \in InRound :
          Len(HeadEntry(m).address) \in Nat /\ Len(HeadEntry(m).address) <= Cardinality(InRound)
    <3>1. \A m \in InRound : Len(HeadEntry(m).address) <= Cardinality(InRound)
      BY DEF RoundInv, ShortAddresses
    <3>2. AssignmentTypeOK
      BY DEF TreeKnown, ShapeInv
    <3>3. \A m \in InRound : HeadEntry(m).address \in Address
      BY <3>2, HeadType DEF InRound
    <3> QED
      BY <3>1, <3>3 DEF Address
  <2>3. \A m \in InRound : HeadEntry(m)' = HeadEntry(m)
    BY <1>1, <1>4 DEF HeadEntry
  <2>4. Len(HeadEntry(n).address)' = Len(HeadEntry(o.from).address) + 1
    BY <1>1 DEF HeadEntry
  <2> SUFFICES ASSUME NEW m \in InRound'
               PROVE  Len(HeadEntry(m).address)' <= Cardinality(InRound')
    BY DEF ShortAddresses
  <2>5. CASE m = n
    BY <1>2, <2>1, <2>2, <2>4, <2>5
  <2>6. CASE m \in InRound
    BY <2>1, <2>2, <2>3, <2>6
  <2> QED
    BY <1>3, <2>5, <2>6
<1> QED
  BY <1>5, <1>6, <1>7, <1>8, <1>9, <1>10, <1>12, <1>13 DEF RoundInv
-----------------------------------------------------------------------------
LEMMA InitRound == ASSUME Init PROVE RoundInv
<1>1. /\ InRound = {} /\ offers = {}
      /\ \A n \in Nodes : hlmac_table[n] = << >> /\ Queue(n) = << >>
      /\ \A n, m \in Nodes : flag[n][m] = 0
      /\ Root \in Nodes
  BY AssignmentAssumption DEF Init, AssignmentInit, InRound, Queue
<1>2. ASSUME NEW n \in Nodes PROVE 1 .. Len(Queue(n)) = {}
  <2>1. Queue(n) = << >>
    BY <1>1
  <2> QED
    BY <2>1
<1>3. HeadsOfPast /\ OneSender
  BY <1>1 DEF HeadsOfPast, OneSender
<1>4. CurrentOnly /\ ListsOthers
  BY <1>1, <1>2 DEF CurrentOnly, ListsOthers
<1>5. Reached /\ ChildrenUnheard /\ ShortAddresses
  BY <1>1 DEF Reached, ChildrenUnheard, ShortAddresses
<1>6. RootFirst
  BY <1>1 DEF RootFirst
<1> QED
  BY <1>3, <1>4, <1>5, <1>6 DEF RoundInv

LEMMA SameRound ==
  ASSUME RoundInv, UNCHANGED assignmentVars
  PROVE  RoundInv'
<1>1. /\ timestamp' = timestamp /\ hlmac_table' = hlmac_table /\ flag' = flag
      /\ payload_entry_list' = payload_entry_list /\ offers' = offers
  BY DEF assignmentVars
<1>2. /\ InRound' = InRound
      /\ \A n : Queue(n)' = Queue(n) /\ Parents(n)' = Parents(n)
                /\ HeadEntry(n)' = HeadEntry(n)
  BY <1>1 DEF InRound, HeadEntry, Queue, Parents
<1>3. HeadsOfPast' /\ CurrentOnly' /\ OneSender'
  BY <1>1, <1>2 DEF RoundInv, HeadsOfPast, CurrentOnly, OneSender
<1>4. ListsOthers'
  BY <1>1, <1>2 DEF RoundInv, ListsOthers
<1>5. Reached'
  BY <1>1, <1>2 DEF RoundInv, Reached
<1>6. RootFirst' /\ ChildrenUnheard' /\ ShortAddresses'
  BY <1>1, <1>2 DEF RoundInv, RootFirst, ChildrenUnheard, ShortAddresses
<1> QED
  BY <1>3, <1>4, <1>5, <1>6 DEF RoundInv

LEMMA NextRound ==
  ASSUME Ideal, TreeKnown, TreeKnown', RoundInv, [Next]_vars
  PROVE  RoundInv'
<1>1. Settings /\ Timely /\ ~Lossy /\ ShapeInv'
  BY DEF Ideal, Settings, TreeKnown
<1>2. MembersFacts /\ TrafficFacts
  BY <1>1, MembersKnown, TrafficKnown DEF RoundInv
<1>3. CASE BeginRound
  <2>1. HeadsOfPast
    BY DEF RoundInv
  <2> QED
    BY <1>1, <1>3, <2>1, RootBegins, BegunRound
<1>4. ASSUME NEW n \in Nodes, BroadcastSetHlmac(n) PROVE RoundInv'
  <2>1. Sent(n)
    BY <1>1, <1>4, SetHlmacSent
  <2> QED
    BY <1>2, <2>1, SentRound
<1>5. ASSUME NEW o \in offers, TakeAddress(o) PROVE RoundInv'
  <2>1. AcceptOffer(o)
    BY <1>5 DEF TakeAddress
  <2>2. Taken(o)
    BY <1>1, <2>1, AddressTaken
  <2> QED
    BY <1>1, <1>2, <2>2, TakenRound
<1>6. ASSUME NEW o \in offers, LeaveAddress(o) PROVE RoundInv'
  <2>1. RefuseOffer(o) \/ DisregardOffer(o)
    BY <1>6 DEF LeaveAddress
  <2>2. Left(o)
    BY <1>1, <2>1, OfferLeft
  <2> QED
    BY <1>2, <2>2, LeftRound
<1>7. ASSUME NEW o \in offers, LoseFrame(o) PROVE FALSE
  BY <1>1, <1>7 DEF LoseFrame
<1>8. ASSUME NEW n \in Nodes, HandleStatisticTimer(n) PROVE UNCHANGED assignmentVars
  BY <1>8 DEF HandleStatisticTimer
<1>9. ASSUME NEW s \in Nodes, NEW n \in Nodes,
             HandleMessage(s, n) \/ LoseMessage(s, n) \/ RepeatMessage(s, n)
      PROVE  UNCHANGED assignmentVars
  BY <1>9 DEF HandleMessage, ReceiveLoad, ReceiveShare, LoseMessage, RepeatMessage
<1>10. CASE UNCHANGED vars
  BY <1>10, SameRound DEF vars
<1> QED
  BY <1>3, <1>4, <1>5, <1>6, <1>7, <1>8, <1>9, <1>10, SameRound DEF Next, HandleOffer

-----------------------------------------------------------------------------
(***************************************************************************)
(* What the nodes whose statistic timer has fired know and have sent.      *)
(***************************************************************************)
Exchanging == {n \in InRound : ~statistic_timer[n]}

Kinds(q) == {q[i].kind : i \in 1 .. Len(q)}
OneOfEach(q) == \A i, j \in 1 .. Len(q) : q[i].kind = q[j].kind => i = j

\* The children of n that have not sent, or whose message is on its way.
Awaited(n, kind, sent, u) ==
  {s \in Children(n) :
     ~ (n \in Parents(s) /\ sent[s] /\ kind \notin Kinds(u[s][n]))}

TimersInRound == \A n \in Nodes : statistic_timer[n] => n \in InRound

ParentsFirst == \A n \in Exchanging : \A p \in Parents(n) : p \in Exchanging

\* All neighbours have their address, and what they had to say has been heard.
SettledNode(n) ==
  /\ Queue(n) = << >>
  /\ \A o \in offers : o.from # n /\ o.to # n
  /\ \A m \in Nbr[n] :
       /\ m \in InRound
       /\ \A i \in 1 .. Len(Queue(m)) : n \notin Queue(m)[i].to

Settled == \A n \in Exchanging : SettledNode(n)

UnsentBefore ==
  \A n \in InRound :
    n # Root /\ statistic_timer[n] => ~sent_load[n] /\ ~sent_share[n]

EdgeChildless == \A n \in Exchanging : edge[n] => Children(n) = {}

MessagesOf(s, n) ==
  /\ unicast[s][n] # << >> => s \in Exchanging /\ n \in Parents(s)
  /\ OneOfEach(unicast[s][n])
  /\ "LOAD" \in Kinds(unicast[s][n]) => sent_load[s]
  /\ "SHARE" \in Kinds(unicast[s][n]) => sent_share[s]

MessagesInv == \A s, n \in Nodes : MessagesOf(s, n)

CountsAwaited(kind, counts, sent, u) ==
  \A n \in Exchanging :
    /\ counts[n] = Cardinality(Awaited(n, kind, sent, u))
    /\ n # Root /\ sent[n] => counts[n] = 0

CountInv ==
  /\ CountsAwaited("LOAD", n_hijos_load, sent_load, unicast)
  /\ CountsAwaited("SHARE", n_hijos_share, sent_share, unicast)

Detected ==
  has_converged =>
    Root \in Exchanging /\ n_hijos_load[Root] = 0 /\ n_hijos_share[Root] = 0

LeftWith100 == \A n \in Exchanging : n # Root /\ sent_share[n] => load[n] = 100

ExchangeInv ==
  /\ TimersInRound /\ ParentsFirst /\ Settled /\ UnsentBefore /\ EdgeChildless
  /\ MessagesInv /\ CountInv /\ Detected /\ LeftWith100
-----------------------------------------------------------------------------
-----------------------------------------------------------------------------
\* A queue holds one message of a kind at most.
LEMMA KindsPopped ==
  ASSUME NEW q \in Seq(Message), q # << >>, OneOfEach(q)
  PROVE  /\ OneOfEach(Tail(q)) /\ Head(q).kind \in Kinds(q)
         /\ Kinds(Tail(q)) = Kinds(q) \ {Head(q).kind}
<1>1. /\ Len(q) \in Nat /\ Len(q) # 0 /\ Head(q) = q[1]
      /\ Len(Tail(q)) = Len(q) - 1
      /\ \A i \in 1 .. Len(Tail(q)) : Tail(q)[i] = q[i + 1]
  OBVIOUS
<1>2. 1 \in 1 .. Len(q) /\ \A i \in 1 .. Len(Tail(q)) : i + 1 \in 1 .. Len(q)
  BY <1>1
<1>3. OneOfEach(Tail(q))
  <2> SUFFICES ASSUME NEW i \in 1 .. Len(Tail(q)), NEW j \in 1 .. Len(Tail(q)),
                      Tail(q)[i].kind = Tail(q)[j].kind
               PROVE  i = j
    BY DEF OneOfEach
  <2>1. i + 1 \in 1 .. Len(q) /\ j + 1 \in 1 .. Len(q) /\ q[i + 1].kind = q[j + 1].kind
    BY <1>1, <1>2
  <2>2. i + 1 = j + 1
    BY <2>1 DEF OneOfEach
  <2> QED
    BY <1>1, <2>2
<1>4. ASSUME NEW k \in Kinds(Tail(q)) PROVE k \in Kinds(q) \ {Head(q).kind}
  <2>1. PICK i \in 1 .. Len(Tail(q)) : Tail(q)[i].kind = k
    BY DEF Kinds
  <2>2. i + 1 \in 1 .. Len(q) /\ q[i + 1].kind = k /\ i + 1 # 1
    BY <1>1, <1>2, <2>1
  <2>3. q[1].kind # k
    BY <1>2, <2>2 DEF OneOfEach
  <2> QED
    BY <1>1, <2>2, <2>3 DEF Kinds
<1>5. ASSUME NEW k \in Kinds(q), k # Head(q).kind PROVE k \in Kinds(Tail(q))
  <2>1. PICK i \in 1 .. Len(q) : q[i].kind = k
    BY DEF Kinds
  <2>2. i - 1 \in 1 .. Len(Tail(q)) /\ i - 1 + 1 = i
    BY <1>1, <1>5, <2>1
  <2>3. Tail(q)[i - 1].kind = k
    BY <1>1, <2>1, <2>2
  <2> QED
    BY <2>2, <2>3 DEF Kinds
<1>6. Head(q).kind \in Kinds(q)
  BY <1>1, <1>2 DEF Kinds
<1> QED
  BY <1>3, <1>4, <1>5, <1>6

LEMMA KindsEmpty == Kinds(<< >>) = {} /\ OneOfEach(<< >>)
<1>1. 1 .. Len(<< >>) = {}
  OBVIOUS
<1> QED
  BY <1>1 DEF Kinds, OneOfEach

LEMMA KindsOfQueue ==
  ASSUME NEW q \in Seq(Message)
  PROVE  q # << >> <=> Kinds(q) # {}
<1>1. CASE q = << >>
  BY <1>1, KindsEmpty
<1>2. CASE q # << >>
  <2>1. 1 \in 1 .. Len(q)
    BY <1>2
  <2> QED
    BY <1>2, <2>1 DEF Kinds
<1> QED
  BY <1>1, <1>2

LEMMA KindsAppended ==
  ASSUME NEW q \in Seq(Message), OneOfEach(q), NEW msg \in Message,
         msg.kind \notin Kinds(q)
  PROVE  /\ OneOfEach(q \o <<msg>>)
         /\ Kinds(q \o <<msg>>) = Kinds(q) \cup {msg.kind}
<1> DEFINE r == q \o <<msg>>
<1>1. /\ Len(q) \in Nat /\ Len(r) = Len(q) + 1 /\ r[Len(q) + 1] = msg
      /\ \A i \in 1 .. Len(q) : r[i] = q[i]
  OBVIOUS
<1> HIDE DEF r
<1>2. \A i \in 1 .. Len(q) : q[i].kind # msg.kind
  BY DEF Kinds
<1>3. \A i \in 1 .. Len(r) : i \in 1 .. Len(q) \/ i = Len(q) + 1
  BY <1>1
<1>4. OneOfEach(r)
  <2> SUFFICES ASSUME NEW i \in 1 .. Len(r), NEW j \in 1 .. Len(r), r[i].kind = r[j].kind
               PROVE  i = j
    BY DEF OneOfEach
  <2>1. CASE i \in 1 .. Len(q) /\ j \in 1 .. Len(q)
    BY <1>1, <2>1 DEF OneOfEach
  <2>2. CASE i \in 1 .. Len(q) /\ j = Len(q) + 1
    BY <1>1, <1>2, <2>2
  <2>3. CASE i = Len(q) + 1 /\ j \in 1 .. Len(q)
    BY <1>1, <1>2, <2>3
  <2> QED
    BY <1>3, <2>1, <2>2, <2>3
<1>5. ASSUME NEW k \in Kinds(r) PROVE k \in Kinds(q) \cup {msg.kind}
  <2>1. PICK i \in 1 .. Len(r) : r[i].kind = k
    BY DEF Kinds
  <2> QED
    BY <1>1, <1>3, <2>1 DEF Kinds
<1>6. ASSUME NEW k \in Kinds(q) \cup {msg.kind} PROVE k \in Kinds(r)
  <2>1. CASE k \in Kinds(q)
    <3>1. PICK i \in 1 .. Len(q) : q[i].kind = k
      BY <2>1 DEF Kinds
    <3>2. i \in 1 .. Len(r) /\ r[i].kind = k
      BY <1>1, <3>1
    <3> QED
      BY <3>2 DEF Kinds
  <2>2. CASE k = msg.kind
    <3>1. Len(q) + 1 \in 1 .. Len(r) /\ r[Len(q) + 1].kind = k
      BY <1>1, <2>2
    <3> QED
      BY <3>1 DEF Kinds
  <2> QED
    BY <2>1, <2>2
<1> QED
  BY <1>4, <1>5, <1>6 DEF r

LEMMA KindsOfBoth ==
  ASSUME NEW held \in Int
  PROVE  /\ OneOfEach(<<Load, Share(held)>>)
         /\ Kinds(<<Load, Share(held)>>) = {"LOAD", "SHARE"}
<1> DEFINE r == <<Load, Share(held)>>
<1>1. Len(r) = 2 /\ r[1].kind = "LOAD" /\ r[2].kind = "SHARE"
  BY DEF Load, Share
<1> HIDE DEF r
<1>2. \A i \in 1 .. Len(r) : i = 1 \/ i = 2
  BY <1>1
<1>3. OneOfEach(r)
  BY <1>1, <1>2 DEF OneOfEach
<1>4. 1 \in 1 .. Len(r) /\ 2 \in 1 .. Len(r)
  BY <1>1
<1>5. Kinds(r) = {"LOAD", "SHARE"}
  BY <1>1, <1>2, <1>4 DEF Kinds
<1> QED
  BY <1>3, <1>5 DEF r
-----------------------------------------------------------------------------
-----------------------------------------------------------------------------
\* The message at the head of the queue from s to n is taken, and n sends one
\* to its parents, or not.
PassedOn(s, n, sends, msg) ==
  \A k, m \in Nodes :
    unicast'[k][m] = IF sends /\ k = n /\ m \in Parents(n) THEN unicast[n][m] \o <<msg>>
                     ELSE IF k = s /\ m = n THEN Tail(unicast[s][n])
                     ELSE unicast[k][m]

\* The same of the kinds on their way.
KindPassedOn(kind, s, n, sends, u, v) ==
  /\ Kinds(v[s][n]) = Kinds(u[s][n]) \ {kind}
  /\ \A m \in Nodes :
       Kinds(v[n][m]) = IF sends /\ m \in Parents(n) THEN Kinds(u[n][m]) \cup {kind}
                        ELSE Kinds(u[n][m])
  /\ \A k \in Nodes \ {n} : \A m \in Nodes :
       ~ (k = s /\ m = n) => Kinds(v[k][m]) = Kinds(u[k][m])

LEMMA QueuesPassedOn ==
  ASSUME LoadShape, NEW s \in Nodes, NEW n \in Nodes, s # n, NEW sends \in BOOLEAN,
         NEW msg \in Message,
         \/ sends /\ unicast' = [Popped(s, n) EXCEPT ![n] = SentToParents(n, <<msg>>)]
         \/ ~sends /\ unicast' = Popped(s, n)
  PROVE  PassedOn(s, n, sends, msg)
<1> DEFINE u == Popped(s, n)
<1>1. unicast \in [Nodes -> [Nodes -> Seq(Message)]]
  BY DEF LoadShape
<1>2. \A k, m \in Nodes :
        u[k][m] = IF k = s /\ m = n THEN Tail(unicast[s][n]) ELSE unicast[k][m]
  BY <1>1 DEF Popped
<1>3. DOMAIN u = Nodes
  BY <1>1 DEF Popped
<1>4. \A m \in Nodes :
        SentToParents(n, <<msg>>)[m] =
          IF m \in Parents(n) THEN unicast[n][m] \o <<msg>> ELSE unicast[n][m]
  BY DEF SentToParents
<1> HIDE DEF u
<1>5. CASE sends /\ unicast' = [u EXCEPT ![n] = SentToParents(n, <<msg>>)]
  <2>1. /\ unicast'[n] = SentToParents(n, <<msg>>)
        /\ \A k \in Nodes \ {n} : unicast'[k] = u[k]
    BY <1>3, <1>5
  <2> SUFFICES ASSUME NEW k \in Nodes, NEW m \in Nodes
               PROVE  unicast'[k][m] =
                        IF k = n /\ m \in Parents(n) THEN unicast[n][m] \o <<msg>>
                        ELSE IF k = s /\ m = n THEN Tail(unicast[s][n])
                        ELSE unicast[k][m]
    BY <1>5 DEF PassedOn
  <2>2. CASE k = n
    BY <1>4, <2>1, <2>2
  <2>3. CASE k # n
    BY <1>2, <2>1, <2>3
  <2> QED
    BY <2>2, <2>3
<1>6. CASE ~sends /\ unicast' = u
  BY <1>2, <1>6 DEF PassedOn
<1> QED
  BY <1>5, <1>6 DEF u

LEMMA KindsPassedOn ==
  ASSUME LoadShape, NEW s \in Nodes, NEW n \in Nodes, s # n, NEW sends,
         NEW msg \in Message, PassedOn(s, n, sends, msg),
         unicast[s][n] # << >>, Head(unicast[s][n]).kind = msg.kind,
         \A k, m \in Nodes : OneOfEach(unicast[k][m]),
         sends => \A m \in Nodes : msg.kind \notin Kinds(unicast[n][m])
  PROVE  /\ KindPassedOn(msg.kind, s, n, sends, unicast, unicast')
         /\ \A k, m \in Nodes : OneOfEach(unicast'[k][m])
<1>1. \A k, m \in Nodes : unicast[k][m] \in Seq(Message)
  BY DEF LoadShape
<1>2. /\ unicast'[s][n] = Tail(unicast[s][n])
      /\ OneOfEach(unicast'[s][n])
      /\ Kinds(unicast'[s][n]) = Kinds(unicast[s][n]) \ {msg.kind}
  <2>1. unicast'[s][n] = Tail(unicast[s][n])
    BY DEF PassedOn
  <2> QED
    BY <1>1, <2>1, KindsPopped
<1>3. ASSUME NEW m \in Nodes
      PROVE  /\ OneOfEach(unicast'[n][m])
             /\ Kinds(unicast'[n][m]) =
                  IF sends /\ m \in Parents(n) THEN Kinds(unicast[n][m]) \cup {msg.kind}
                  ELSE Kinds(unicast[n][m])
  <2>1. CASE sends /\ m \in Parents(n)
    <3>1. unicast'[n][m] = unicast[n][m] \o <<msg>>
      BY <2>1 DEF PassedOn
    <3>2. msg.kind \notin Kinds(unicast[n][m])
      BY <2>1
    <3> QED
      BY <1>1, <2>1, <3>1, <3>2, KindsAppended
  <2>2. CASE ~ (sends /\ m \in Parents(n))
    <3>1. unicast'[n][m] = unicast[n][m]
      BY <2>2 DEF PassedOn
    <3> QED
      BY <2>2, <3>1
  <2> QED
    BY <2>1, <2>2
<1>4. ASSUME NEW k \in Nodes \ {n}, NEW m \in Nodes, ~ (k = s /\ m = n)
      PROVE  unicast'[k][m] = unicast[k][m]
  BY <1>4 DEF PassedOn
<1>5. \A k, m \in Nodes : OneOfEach(unicast'[k][m])
  BY <1>2, <1>3, <1>4
<1> QED
  BY <1>2, <1>3, <1>4, <1>5 DEF KindPassedOn

\* The flag of n, and of nobody else, is set when it sends.
FlagsAfter(n, sends, sent, next) ==
  /\ sends => ~sent[n]
  /\ next[n] <=> sent[n] \/ sends
  /\ \A k \in Nodes \ {n} : next[k] <=> sent[k]

\* n awaits s no more, and nobody else awaits more or less.
AwaitsOneLess(kind, s, n, sent, next, u, v) ==
  /\ s \in Awaited(n, kind, sent, u)
  /\ Awaited(n, kind, next, v) = Awaited(n, kind, sent, u) \ {s}
  /\ \A k \in Nodes \ {n} : Awaited(k, kind, next, v) = Awaited(k, kind, sent, u)

\* Whoever takes a message of a child awaits one child less; who has sent one in
\* return is awaited as before, until its message arrives.
LEMMA AwaitedAfter ==
  ASSUME NEW kind, NEW sent, NEW next, NEW u, NEW v, NEW sends,
         NEW s \in Nodes, NEW n \in Nodes, s # n,
         KindPassedOn(kind, s, n, sends, u, v),
         s \in Children(n), n \in Parents(s), sent[s], kind \in Kinds(u[s][n]),
         FlagsAfter(n, sends, sent, next)
  PROVE  AwaitsOneLess(kind, s, n, sent, next, u, v)
<1>0. /\ sends => ~sent[n]
      /\ next[n] <=> sent[n] \/ sends
      /\ \A k \in Nodes \ {n} : next[k] <=> sent[k]
  BY DEF FlagsAfter
<1>1. s \in Awaited(n, kind, sent, u)
  BY DEF Awaited
<1>2. \A k \in Nodes : Children(k) \subseteq Nodes /\ k \notin Children(k)
  BY AssignmentAssumption DEF Children
<1>3. next[s] /\ kind \notin Kinds(v[s][n])
  BY <1>0 DEF KindPassedOn
<1>4. \A c \in Children(n) \ {s} :
        (next[c] <=> sent[c]) /\ Kinds(v[c][n]) = Kinds(u[c][n])
  BY <1>0, <1>2 DEF KindPassedOn
<1>5. Awaited(n, kind, next, v) = Awaited(n, kind, sent, u) \ {s}
  BY <1>3, <1>4 DEF Awaited
<1>6. ASSUME NEW k \in Nodes \ {n}
      PROVE  Awaited(k, kind, next, v) = Awaited(k, kind, sent, u)
  <2>1. \A c \in Children(k) \ {n} :
          (next[c] <=> sent[c]) /\ Kinds(v[c][k]) = Kinds(u[c][k])
    BY <1>0, <1>2 DEF KindPassedOn
  <2>2. k \in Parents(n) /\ next[n] /\ kind \notin Kinds(v[n][k])
          <=> k \in Parents(n) /\ sent[n] /\ kind \notin Kinds(u[n][k])
    BY <1>0 DEF KindPassedOn
  <2> QED
    BY <2>1, <2>2 DEF Awaited
<1> QED
  BY <1>1, <1>5, <1>6 DEF AwaitsOneLess

\* Nor does it change who is awaited for the other kind.
LEMMA AwaitedOfOther ==
  ASSUME NEW kind, NEW other, other # kind, NEW sent, NEW u, NEW v, NEW sends,
         NEW s \in Nodes, NEW n \in Nodes, s # n,
         KindPassedOn(kind, s, n, sends, u, v)
  PROVE  \A k \in Nodes : Awaited(k, other, sent, v) = Awaited(k, other, sent, u)
<1>1. \A k, m \in Nodes : other \in Kinds(v[k][m]) <=> other \in Kinds(u[k][m])
  BY DEF KindPassedOn
<1>2. \A k \in Nodes : Children(k) \subseteq Nodes
  BY AssignmentAssumption DEF Children
<1> QED
  BY <1>1, <1>2 DEF Awaited
-----------------------------------------------------------------------------
LEMMA AwaitedCount ==
  ASSUME NEW n \in Nodes, NEW kind, NEW sent, NEW u
  PROVE  /\ IsFiniteSet(Awaited(n, kind, sent, u))
         /\ Cardinality(Awaited(n, kind, sent, u)) \in Nat
<1>1. Awaited(n, kind, sent, u) \subseteq Nodes
  BY AssignmentAssumption DEF Awaited, Children
<1> QED
  BY <1>1, AssignmentAssumption, FS_Subset, FS_CardinalityType

CountedOnce(n, counts, next_counts, sent, next) ==
  /\ next_counts[n] = counts[n] - 1
  /\ n # Root /\ next[n] => next_counts[n] = 0
  /\ \A k \in Nodes \ {n} : next_counts[k] = counts[k] /\ (next[k] <=> sent[k])

LEMMA CountsAfter ==
  ASSUME NEW kind, NEW counts, NEW next_counts, NEW sent, NEW next, NEW u, NEW v,
         NEW s, NEW n \in Exchanging,
         CountsAwaited(kind, counts, sent, u),
         AwaitsOneLess(kind, s, n, sent, next, u, v)
  PROVE  /\ counts[n] \in Nat /\ counts[n] # 0
         /\ n # Root => ~sent[n]
         /\ CountedOnce(n, counts, next_counts, sent, next)
            => CountsAwaited(kind, next_counts, next, v)
<1>0. /\ s \in Awaited(n, kind, sent, u)
      /\ Awaited(n, kind, next, v) = Awaited(n, kind, sent, u) \ {s}
      /\ \A k \in Nodes \ {n} : Awaited(k, kind, next, v) = Awaited(k, kind, sent, u)
  BY DEF AwaitsOneLess
<1>1. \A k \in Exchanging : k \in Nodes
  BY DEF Exchanging, InRound
<1> DEFINE W == Awaited(n, kind, sent, u)
<1>2. IsFiniteSet(W) /\ Cardinality(W) \in Nat
  BY <1>1, AwaitedCount
<1>3. Cardinality(W \ {s}) = Cardinality(W) - 1 /\ Cardinality(W) # 0
  BY <1>0, <1>2, FS_RemoveElement, FS_EmptySet
<1>4. counts[n] = Cardinality(W) /\ (n # Root /\ sent[n] => counts[n] = 0)
  BY DEF CountsAwaited
<1>5. Cardinality(Awaited(n, kind, next, v)) = counts[n] - 1
  BY <1>0, <1>3, <1>4
<1>6. ASSUME CountedOnce(n, counts, next_counts, sent, next)
      PROVE  CountsAwaited(kind, next_counts, next, v)
  <2> SUFFICES ASSUME NEW k \in Exchanging
               PROVE  /\ next_counts[k] = Cardinality(Awaited(k, kind, next, v))
                      /\ k # Root /\ next[k] => next_counts[k] = 0
    BY DEF CountsAwaited
  <2>1. CASE k = n
    BY <1>5, <1>6, <2>1 DEF CountedOnce
  <2>2. CASE k # n
    BY <1>0, <1>1, <1>6, <2>2 DEF CountsAwaited, CountedOnce
  <2> QED
    BY <2>1, <2>2
<1> QED
  BY <1>2, <1>3, <1>4, <1>6

\* A message that is not taken changes nothing in who is awaited.
LEMMA CountsOfOther ==
  ASSUME NEW kind, NEW counts, NEW sent, NEW u, NEW v,
         CountsAwaited(kind, counts, sent, u),
         \A k \in Nodes : Awaited(k, kind, sent, v) = Awaited(k, kind, sent, u)
  PROVE  CountsAwaited(kind, counts, sent, v)
BY DEF CountsAwaited, Exchanging, InRound

LEMMA RoundStays ==
  ASSUME UNCHANGED assignmentVars, UNCHANGED statistic_timer
  PROVE  /\ InRound' = InRound /\ Exchanging' = Exchanging
         /\ \A n : /\ Parents(n)' = Parents(n) /\ Children(n)' = Children(n)
                   /\ Queue(n)' = Queue(n)
         /\ TimersInRound /\ ParentsFirst /\ Settled
              => (TimersInRound /\ ParentsFirst /\ Settled)'
<1>1. /\ timestamp' = timestamp /\ hlmac_table' = hlmac_table /\ flag' = flag
      /\ payload_entry_list' = payload_entry_list /\ offers' = offers
      /\ statistic_timer' = statistic_timer
  BY DEF assignmentVars
<1>2. InRound' = InRound
  BY <1>1 DEF InRound, HeadEntry
<1>3. Exchanging' = Exchanging
  BY <1>1, <1>2 DEF Exchanging
<1>4. \A n : /\ Parents(n)' = Parents(n) /\ Children(n)' = Children(n)
             /\ Queue(n)' = Queue(n)
  BY <1>1 DEF Parents, Children, Queue
<1>5. TimersInRound => TimersInRound'
  BY <1>1, <1>2 DEF TimersInRound
<1>6. ParentsFirst => ParentsFirst'
  BY <1>3, <1>4 DEF ParentsFirst
<1>7. Settled => Settled'
  BY <1>1, <1>2, <1>3, <1>4 DEF Settled, SettledNode
<1> QED
  BY <1>2, <1>3, <1>4, <1>5, <1>6, <1>7

LEMMA CountsStay ==
  ASSUME UNCHANGED assignmentVars, UNCHANGED statistic_timer,
         CountsAwaited("LOAD", n_hijos_load', sent_load', unicast'),
         CountsAwaited("SHARE", n_hijos_share', sent_share', unicast')
  PROVE  CountInv'
<1>1. /\ Exchanging' = Exchanging
      /\ \A n : Parents(n)' = Parents(n) /\ Children(n)' = Children(n)
  BY RoundStays
<1>2. \A n : /\ Awaited(n, "LOAD", sent_load, unicast)'
                 = Awaited(n, "LOAD", sent_load', unicast')
            /\ Awaited(n, "SHARE", sent_share, unicast)'
                 = Awaited(n, "SHARE", sent_share', unicast')
  BY <1>1 DEF Awaited
<1> QED
  BY <1>1, <1>2 DEF CountInv, CountsAwaited

\* A message comes from a child that has sent it in this round.
LEMMA MessageFrom ==
  ASSUME MembersFacts, RoundInv, ParentsFirst, EdgeChildless, MessagesInv, LoadShape,
         NEW s \in Nodes, NEW n \in Nodes, unicast[s][n] # << >>
  PROVE  /\ s \in Exchanging /\ n \in Exchanging /\ s # n /\ s # Root
         /\ n \in Parents(s) /\ s \in Nbr[n] /\ s \in Children(n) /\ ~edge[n]
         /\ Head(unicast[s][n]) \in Message
         /\ Head(unicast[s][n]).kind \in Kinds(unicast[s][n])
<1>1. s \in Exchanging /\ n \in Parents(s) /\ OneOfEach(unicast[s][n])
  BY DEF MessagesInv, MessagesOf
<1>2. n \in Exchanging
  BY <1>1 DEF ParentsFirst
<1>3. s \in InRound
  BY <1>1 DEF Exchanging
<1>4. s # n /\ s # Root /\ s \in Nbr[n]
  BY <1>1, <1>3 DEF MembersFacts
<1>5. s \in Children(n)
  BY <1>1, <1>3, <1>4 DEF RoundInv, ChildrenUnheard, Children
<1>6. ~edge[n]
  BY <1>2, <1>5 DEF EdgeChildless
<1>7. unicast[s][n] \in Seq(Message)
  BY DEF LoadShape
<1>8. Head(unicast[s][n]) \in Message
  BY <1>7
<1> QED
  BY <1>1, <1>2, <1>4, <1>5, <1>6, <1>7, <1>8, KindsPopped
-----------------------------------------------------------------------------
\* Only n has put a message, of the given kind, into a queue, or nobody has.
QueuesMoved(kind, other, n, sends) ==
  /\ \A k, m \in Nodes : unicast'[k][m] # << >> => k \in Exchanging /\ m \in Parents(k)
  /\ \A k, m \in Nodes : other \in Kinds(unicast'[k][m]) => other \in Kinds(unicast[k][m])
  /\ \A k, m \in Nodes :
       kind \in Kinds(unicast'[k][m]) =>
         kind \in Kinds(unicast[k][m]) \/ (k = n /\ sends)

LEMMA MessagesAfter ==
  ASSUME LoadShape, LoadShape', MessagesInv, NEW kind, NEW other, other # kind,
         NEW s \in Nodes, NEW n \in Exchanging, NEW sends,
         KindPassedOn(kind, s, n, sends, unicast, unicast')
  PROVE  QueuesMoved(kind, other, n, sends)
<1>1. \A k, m \in Nodes : /\ unicast[k][m] \in Seq(Message)
                          /\ unicast'[k][m] \in Seq(Message)
  BY DEF LoadShape
<1>2. n \in Nodes
  BY DEF Exchanging, InRound
<1>3. \A k, m \in Nodes :
        Kinds(unicast'[k][m]) # {} =>
          Kinds(unicast[k][m]) # {} \/ (k = n /\ m \in Parents(n))
  BY <1>2 DEF KindPassedOn
<1>4. \A k, m \in Nodes : unicast[k][m] # << >> => k \in Exchanging /\ m \in Parents(k)
  BY DEF MessagesInv, MessagesOf
<1>5. ASSUME NEW k \in Nodes, NEW m \in Nodes, unicast'[k][m] # << >>
      PROVE  k \in Exchanging /\ m \in Parents(k)
  <2>1. Kinds(unicast'[k][m]) # {}
    BY <1>1, <1>5, KindsOfQueue
  <2>2. CASE Kinds(unicast[k][m]) # {}
    <3>1. unicast[k][m] # << >>
      BY <1>1, <2>2, KindsOfQueue
    <3> QED
      BY <1>4, <3>1
  <2> QED
    BY <1>3, <2>1, <2>2
<1>7. \A k, m \in Nodes : other \in Kinds(unicast'[k][m]) => other \in Kinds(unicast[k][m])
  BY <1>2 DEF KindPassedOn
<1>6. \A k, m \in Nodes :
        kind \in Kinds(unicast'[k][m]) =>
          kind \in Kinds(unicast[k][m]) \/ (k = n /\ sends)
  BY <1>2 DEF KindPassedOn
<1> QED
  BY <1>5, <1>6, <1>7 DEF QueuesMoved

LEMMA LoadReceived ==
  ASSUME MembersFacts, RoundInv, ExchangeShape, ExchangeShape', ExchangeInv,
         NEW s \in Nodes, NEW n \in Nodes, ReceiveLoad(s, n)
  PROVE  ExchangeInv'
<1> DEFINE left  == n_hijos_load[n] - (IF Counts(s, n, n_hijos_load) THEN 1 ELSE 0)
           sends == /\ n # Root /\ s \in Nbr[n]
                    /\ ~edge[n] /\ ~sent_load[n] /\ left = 0
<1>0. /\ ExchangeInv /\ LoadShape /\ LoadShape' /\ CountShape /\ FlagShape
      /\ TimersInRound /\ ParentsFirst /\ Settled /\ UnsentBefore /\ EdgeChildless
      /\ MessagesInv /\ Detected /\ LeftWith100
      /\ CountsAwaited("LOAD", n_hijos_load, sent_load, unicast)
      /\ CountsAwaited("SHARE", n_hijos_share, sent_share, unicast)
  BY DEF ExchangeInv, CountInv, ExchangeShape
<1>1. /\ unicast[s][n] # << >> /\ Head(unicast[s][n]).kind = "LOAD"
      /\ n_hijos_load' = [n_hijos_load EXCEPT ![n] = left]
      /\ sent_load' = [sent_load EXCEPT ![n] = sent_load[n] \/ sends]
      /\ unicast' = [Popped(s, n) EXCEPT ![n] =
           IF sends THEN SentToParents(n, <<Load>>) ELSE Popped(s, n)[n]]
      /\ UNCHANGED <<assignmentVars, load, edge, sent_share, n_hijos_share,
                     statistic_timer, in_out, ledger>>
  BY DEF ReceiveLoad
<1>2. /\ s \in Exchanging /\ n \in Exchanging /\ s # n /\ s # Root
      /\ n \in Parents(s) /\ s \in Nbr[n] /\ s \in Children(n) /\ ~edge[n]
      /\ "LOAD" \in Kinds(unicast[s][n])
  BY <1>0, <1>1, MessageFrom
<1>3. /\ UNCHANGED assignmentVars /\ UNCHANGED statistic_timer
      /\ UNCHANGED <<load, edge, sent_share, n_hijos_share>>
  BY <1>1
<1>4. /\ InRound' = InRound /\ Exchanging' = Exchanging
      /\ \A k : Parents(k)' = Parents(k) /\ Children(k)' = Children(k)
      /\ (TimersInRound /\ ParentsFirst /\ Settled)'
  BY <1>0, <1>3, RoundStays
<1>5. sends \in BOOLEAN
  OBVIOUS
<1>6. /\ sends => ~sent_load[n]
      /\ sends => n # Root /\ left = 0
      /\ n # Root /\ ~sent_load[n] /\ left = 0 => sends
  BY <1>2
<1>7. /\ sent_load'[n] <=> sent_load[n] \/ sends
      /\ \A k \in Nodes \ {n} :
           /\ sent_load'[k] <=> sent_load[k]
           /\ n_hijos_load'[k] = n_hijos_load[k]
      /\ n_hijos_load'[n] = left
  BY <1>0, <1>1 DEF FlagShape, CountShape
<1>8. PassedOn(s, n, sends, Load)
  <2>1. Load \in Message
    BY MessagesMade
  <2>2. Popped(s, n) \in [Nodes -> [Nodes -> Seq(Message)]]
    BY <1>0, <1>1, HeadTyped
  <2> HIDE DEF sends
  <2>3. CASE sends
    <3>1. unicast' = [Popped(s, n) EXCEPT ![n] = SentToParents(n, <<Load>>)]
      BY <1>1, <2>3
    <3> QED
      BY <1>0, <1>2, <1>5, <2>1, <2>3, <3>1, QueuesPassedOn
  <2>4. CASE ~sends
    <3>1. unicast' = [Popped(s, n) EXCEPT ![n] = Popped(s, n)[n]]
      BY <1>1, <2>4
    <3>2. unicast' = Popped(s, n)
      BY <2>2, <3>1
    <3> QED
      BY <1>0, <1>2, <1>5, <2>1, <2>4, <3>2, QueuesPassedOn
  <2> QED
    BY <2>3, <2>4
<1>9. /\ \A k, m \in Nodes : OneOfEach(unicast[k][m])
      /\ \A m \in Nodes : "LOAD" \in Kinds(unicast[n][m]) => sent_load[n]
      /\ sent_load[s]
  BY <1>0, <1>2 DEF MessagesInv, MessagesOf
<1> HIDE DEF sends, left
<1>10. /\ KindPassedOn("LOAD", s, n, sends, unicast, unicast')
       /\ \A k, m \in Nodes : OneOfEach(unicast'[k][m])
  <2>1. Load \in Message /\ Load.kind = "LOAD"
    BY MessagesMade DEF Load
  <2>2. sends => \A m \in Nodes : Load.kind \notin Kinds(unicast[n][m])
    BY <1>6, <1>9, <2>1
  <2>3. Head(unicast[s][n]).kind = Load.kind
    BY <1>1, <2>1
  <2>4. /\ KindPassedOn(Load.kind, s, n, sends, unicast, unicast')
        /\ \A k, m \in Nodes : OneOfEach(unicast'[k][m])
    BY <1>0, <1>1, <1>2, <1>8, <1>9, <2>1, <2>2, <2>3, KindsPassedOn
  <2> QED
    BY <2>1, <2>4
<1>11. AwaitsOneLess("LOAD", s, n, sent_load, sent_load', unicast, unicast')
  <2>1. FlagsAfter(n, sends, sent_load, sent_load')
    BY <1>6, <1>7 DEF FlagsAfter
  <2> QED
    BY <1>2, <1>9, <1>10, <2>1, AwaitedAfter
<1>12. /\ n_hijos_load[n] \in Nat /\ n_hijos_load[n] # 0
       /\ n # Root => ~sent_load[n]
       /\ CountedOnce(n, n_hijos_load, n_hijos_load', sent_load, sent_load')
          => CountsAwaited("LOAD", n_hijos_load', sent_load', unicast')
  BY <1>0, <1>2, <1>11, CountsAfter
<1>13. left = n_hijos_load[n] - 1
  BY <1>2, <1>12 DEF left, Counts
<1>14. CountsAwaited("LOAD", n_hijos_load', sent_load', unicast')
  BY <1>6, <1>7, <1>12, <1>13 DEF CountedOnce
<1>15. CountsAwaited("SHARE", n_hijos_share', sent_share', unicast')
  <2>1. \A k \in Nodes :
          Awaited(k, "SHARE", sent_share, unicast') = Awaited(k, "SHARE", sent_share, unicast)
    BY <1>2, <1>10, AwaitedOfOther
  <2>2. CountsAwaited("SHARE", n_hijos_share, sent_share, unicast')
    BY <1>0, <2>1, CountsOfOther
  <2>3. n_hijos_share' = n_hijos_share /\ sent_share' = sent_share
    BY <1>3
  <2> QED
    BY <2>2, <2>3
<1>16. CountInv'
  BY <1>3, <1>14, <1>15, CountsStay
<1>17. MessagesInv'
  <2>1. "SHARE" # "LOAD"
    OBVIOUS
  <2>2. QueuesMoved("LOAD", "SHARE", n, sends)
    BY <1>0, <1>2, <1>10, <2>1, MessagesAfter
  <2> SUFFICES ASSUME NEW k \in Nodes, NEW m \in Nodes PROVE MessagesOf(k, m)'
    BY DEF MessagesInv
  <2>3. MessagesOf(k, m)
    BY <1>0 DEF MessagesInv
  <2>4. "LOAD" \in Kinds(unicast'[k][m]) => sent_load'[k]
    BY <1>7, <2>2, <2>3 DEF MessagesOf, QueuesMoved
  <2>5. "SHARE" \in Kinds(unicast'[k][m]) => sent_share'[k]
    BY <1>3, <2>2, <2>3 DEF MessagesOf, QueuesMoved
  <2> QED
    BY <1>4, <1>10, <2>2, <2>4, <2>5 DEF MessagesOf, QueuesMoved
<1>18. UnsentBefore'
  <2> SUFFICES ASSUME NEW k \in InRound, k # Root, statistic_timer[k]
               PROVE  ~sent_load'[k] /\ ~sent_share'[k]
    BY <1>3, <1>4 DEF UnsentBefore
  <2>1. k # n /\ k \in Nodes
    BY <1>2 DEF Exchanging, InRound
  <2> QED
    BY <1>0, <1>3, <1>7, <2>1 DEF UnsentBefore
<1>19. EdgeChildless' /\ LeftWith100'
  BY <1>0, <1>3, <1>4 DEF EdgeChildless, LeftWith100
<1>20. Detected'
  <2>1. has_converged' = (has_converged \/
          (n = Root /\ n_hijos_load'[n] = 0 /\ n_hijos_share'[n] = 0))
    BY <1>2 DEF ReceiveLoad, CheckConvergence
  <2>2. has_converged => n # Root
    BY <1>0, <1>12 DEF Detected
  <2>3. Root \in Nodes
    BY AssignmentAssumption
  <2> SUFFICES ASSUME has_converged'
               PROVE  Root \in Exchanging /\ n_hijos_load'[Root] = 0 /\ n_hijos_share'[Root] = 0
    BY <1>4 DEF Detected
  <2>4. CASE has_converged
    <3>1. n # Root /\ n_hijos_load'[Root] = n_hijos_load[Root]
      BY <1>7, <2>2, <2>3, <2>4
    <3> QED
      BY <1>0, <1>3, <2>4, <3>1 DEF Detected
  <2>5. CASE ~has_converged
    BY <1>2, <2>1, <2>5
  <2> QED
    BY <2>4, <2>5
<1> QED
  BY <1>4, <1>16, <1>17, <1>18, <1>19, <1>20 DEF ExchangeInv
-----------------------------------------------------------------------------
LEMMA ShareReceived ==
  ASSUME MembersFacts, RoundInv, ExchangeShape, ExchangeShape', ExchangeInv,
         NEW s \in Nodes, NEW n \in Nodes, ReceiveShare(s, n)
  PROVE  ExchangeInv'
<1> DEFINE extra == Head(unicast[s][n]).extra
           held  == load[n] + extra
           sends == n # Root /\ n_hijos_share[n] = 1 /\ ~sent_share[n]
           msg   == Share(held)
<1>0. /\ ExchangeInv /\ LoadShape /\ LoadShape' /\ CountShape /\ FlagShape
      /\ TimersInRound /\ ParentsFirst /\ Settled /\ UnsentBefore /\ EdgeChildless
      /\ MessagesInv /\ Detected /\ LeftWith100
      /\ CountsAwaited("LOAD", n_hijos_load, sent_load, unicast)
      /\ CountsAwaited("SHARE", n_hijos_share, sent_share, unicast)
  BY DEF ExchangeInv, CountInv, ExchangeShape
<1>1. /\ unicast[s][n] # << >> /\ Head(unicast[s][n]).kind = "SHARE"
      /\ ShareCounts(s, n, extra) \/ ShareIgnored(s, n, extra)
      /\ UNCHANGED assignmentVars /\ UNCHANGED statistic_timer
      /\ UNCHANGED <<edge, sent_load>>
  BY DEF ReceiveShare
<1>2. /\ s \in Exchanging /\ n \in Exchanging /\ s # n /\ s # Root
      /\ n \in Parents(s) /\ s \in Nbr[n] /\ s \in Children(n) /\ ~edge[n]
      /\ "SHARE" \in Kinds(unicast[s][n])
  BY <1>0, <1>1, MessageFrom
<1>3. n_hijos_share[n] # 0
  <2>1. s \in Awaited(n, "SHARE", sent_share, unicast)
    BY <1>2 DEF Awaited
  <2>2. Cardinality(Awaited(n, "SHARE", sent_share, unicast)) # 0
    BY <2>1, AwaitedCount, FS_EmptySet
  <2> QED
    BY <1>0, <1>2, <2>2 DEF CountsAwaited
<1>4. ShareCounts(s, n, extra)
  BY <1>1, <1>2, <1>3 DEF ShareIgnored, Counts
<1>5. /\ n_hijos_share' = [n_hijos_share EXCEPT ![n] = n_hijos_share[n] - 1]
      /\ sent_share' = [sent_share EXCEPT ![n] = sent_share[n] \/ sends]
      /\ \/ /\ sends
            /\ load' = [load EXCEPT ![n] = 100]
            /\ unicast' = [Popped(s, n) EXCEPT ![n] = SentToParents(n, <<msg>>)]
         \/ /\ ~sends
            /\ load' = [load EXCEPT ![n] = held]
            /\ unicast' = Popped(s, n)
      /\ UNCHANGED n_hijos_load
      /\ CheckConvergence(n)
  BY <1>4 DEF ShareCounts
<1>6. /\ InRound' = InRound /\ Exchanging' = Exchanging
      /\ \A k : Parents(k)' = Parents(k) /\ Children(k)' = Children(k)
      /\ (TimersInRound /\ ParentsFirst /\ Settled)'
  BY <1>0, <1>1, RoundStays
<1>7. /\ sends \in BOOLEAN
      /\ sends => ~sent_share[n]
      /\ sends => n # Root /\ n_hijos_share[n] - 1 = 0
  OBVIOUS
<1>8. msg \in Message /\ msg.kind = "SHARE"
  <2>1. load[n] \in Int /\ extra \in Int
    BY <1>0, <1>1, HeadTyped DEF LoadShape
  <2> HIDE DEF extra
  <2>2. held \in Int
    BY <2>1
  <2> HIDE DEF held
  <2> QED
    BY <2>2, MessagesMade DEF Share
<1> HIDE DEF sends, msg, held, extra
<1>9. /\ sent_share'[n] <=> sent_share[n] \/ sends
      /\ \A k \in Nodes \ {n} :
           /\ sent_share'[k] <=> sent_share[k]
           /\ n_hijos_share'[k] = n_hijos_share[k]
           /\ load'[k] = load[k]
      /\ n_hijos_share'[n] = n_hijos_share[n] - 1
      /\ sends => load'[n] = 100
  <2>1. /\ load \in [Nodes -> Int] /\ n_hijos_share \in [Nodes -> Nat]
        /\ sent_share \in [Nodes -> BOOLEAN]
    BY <1>0 DEF LoadShape, CountShape, FlagShape
  <2>2. sent_share'[n] <=> sent_share[n] \/ sends
    BY <1>5, <2>1
  <2>3. \A k \in Nodes \ {n} : sent_share'[k] <=> sent_share[k]
    BY <1>5, <2>1
  <2> QED
    BY <1>5, <2>1, <2>2, <2>3
<1>10. PassedOn(s, n, sends, msg)
  BY <1>0, <1>2, <1>5, <1>7, <1>8, QueuesPassedOn
<1>11. /\ \A k, m \in Nodes : OneOfEach(unicast[k][m])
       /\ \A m \in Nodes : "SHARE" \in Kinds(unicast[n][m]) => sent_share[n]
       /\ sent_share[s]
  BY <1>0, <1>2 DEF MessagesInv, MessagesOf
<1>12. /\ KindPassedOn("SHARE", s, n, sends, unicast, unicast')
       /\ \A k, m \in Nodes : OneOfEach(unicast'[k][m])
  <2>1. sends => \A m \in Nodes : msg.kind \notin Kinds(unicast[n][m])
    BY <1>7, <1>8, <1>11
  <2>2. Head(unicast[s][n]).kind = msg.kind
    BY <1>1, <1>8
  <2>3. /\ KindPassedOn(msg.kind, s, n, sends, unicast, unicast')
        /\ \A k, m \in Nodes : OneOfEach(unicast'[k][m])
    BY <1>0, <1>1, <1>2, <1>8, <1>10, <1>11, <2>1, <2>2, KindsPassedOn
  <2> QED
    BY <1>8, <2>3
<1>13. AwaitsOneLess("SHARE", s, n, sent_share, sent_share', unicast, unicast')
  <2>1. FlagsAfter(n, sends, sent_share, sent_share')
    BY <1>7, <1>9 DEF FlagsAfter
  <2> QED
    BY <1>2, <1>11, <1>12, <2>1, AwaitedAfter
<1>14. /\ n_hijos_share[n] \in Nat
       /\ n # Root => ~sent_share[n]
       /\ CountedOnce(n, n_hijos_share, n_hijos_share', sent_share, sent_share')
          => CountsAwaited("SHARE", n_hijos_share', sent_share', unicast')
  BY <1>0, <1>2, <1>13, CountsAfter
<1>15. CountsAwaited("SHARE", n_hijos_share', sent_share', unicast')
  BY <1>7, <1>9, <1>14 DEF CountedOnce
<1>16. CountsAwaited("LOAD", n_hijos_load', sent_load', unicast')
  <2>1. \A k \in Nodes :
          Awaited(k, "LOAD", sent_load, unicast') = Awaited(k, "LOAD", sent_load, unicast)
    BY <1>2, <1>12, AwaitedOfOther
  <2>2. CountsAwaited("LOAD", n_hijos_load, sent_load, unicast')
    BY <1>0, <2>1, CountsOfOther
  <2>3. n_hijos_load' = n_hijos_load /\ sent_load' = sent_load
    BY <1>1, <1>5
  <2> QED
    BY <2>2, <2>3
<1>17. CountInv'
  BY <1>1, <1>15, <1>16, CountsStay
<1>18. MessagesInv'
  <2>1. "LOAD" # "SHARE"
    OBVIOUS
  <2>2. QueuesMoved("SHARE", "LOAD", n, sends)
    BY <1>0, <1>2, <1>12, <2>1, MessagesAfter
  <2> SUFFICES ASSUME NEW k \in Nodes, NEW m \in Nodes PROVE MessagesOf(k, m)'
    BY DEF MessagesInv
  <2>3. MessagesOf(k, m)
    BY <1>0 DEF MessagesInv
  <2>4. "SHARE" \in Kinds(unicast'[k][m]) => sent_share'[k]
    BY <1>9, <2>2, <2>3 DEF MessagesOf, QueuesMoved
  <2>5. "LOAD" \in Kinds(unicast'[k][m]) => sent_load'[k]
    BY <1>1, <2>2, <2>3 DEF MessagesOf, QueuesMoved
  <2> QED
    BY <1>6, <1>12, <2>2, <2>4, <2>5 DEF MessagesOf, QueuesMoved
<1>19. UnsentBefore'
  <2> SUFFICES ASSUME NEW k \in InRound, k # Root, statistic_timer[k]
               PROVE  ~sent_load'[k] /\ ~sent_share'[k]
    BY <1>1, <1>6 DEF UnsentBefore
  <2>1. k # n /\ k \in Nodes
    BY <1>2 DEF Exchanging, InRound
  <2> QED
    BY <1>0, <1>1, <1>9, <2>1 DEF UnsentBefore
<1>20. EdgeChildless'
  BY <1>0, <1>1, <1>6 DEF EdgeChildless
<1>21. LeftWith100'
  <2> SUFFICES ASSUME NEW k \in Exchanging, k # Root, sent_share'[k]
               PROVE  load'[k] = 100
    BY <1>6 DEF LeftWith100
  <2>1. k \in Nodes
    BY DEF Exchanging, InRound
  <2>2. CASE k = n
    BY <1>9, <1>14, <2>2
  <2>3. CASE k # n
    BY <1>0, <1>9, <2>1, <2>3 DEF LeftWith100
  <2> QED
    BY <2>2, <2>3
<1>22. Detected'
  <2>1. has_converged' = (has_converged \/
          (n = Root /\ n_hijos_load'[n] = 0 /\ n_hijos_share'[n] = 0))
    BY <1>5 DEF CheckConvergence
  <2>2. has_converged => n # Root
    BY <1>0, <1>3 DEF Detected
  <2>3. Root \in Nodes
    BY AssignmentAssumption
  <2> SUFFICES ASSUME has_converged'
               PROVE  Root \in Exchanging /\ n_hijos_load'[Root] = 0 /\ n_hijos_share'[Root] = 0
    BY <1>6 DEF Detected
  <2>4. CASE has_converged
    <3>1. n # Root /\ n_hijos_share'[Root] = n_hijos_share[Root]
      BY <1>9, <2>2, <2>3, <2>4
    <3> QED
      BY <1>0, <1>5, <2>4, <3>1 DEF Detected
  <2>5. CASE ~has_converged
    BY <1>2, <2>1, <2>5
  <2> QED
    BY <2>4, <2>5
<1> QED
  BY <1>6, <1>17, <1>18, <1>19, <1>20, <1>21, <1>22 DEF ExchangeInv
-----------------------------------------------------------------------------
-----------------------------------------------------------------------------
\* The quiet around a node whose statistic timer fires is for good.
LEMMA FiredSettled ==
  ASSUME Timely, TreeKnown, MembersFacts, RoundInv, ExchangeInv,
         NEW n \in Nodes, HandleStatisticTimer(n)
  PROVE  /\ n \in InRound /\ n \notin Exchanging
         /\ SettledNode(n)
         /\ \A p \in Parents(n) : p \in Exchanging
         /\ \A k \in Exchanging : n \notin Parents(k)
<1>1. /\ statistic_timer[n] /\ SurroundingsQuiet(n)
      /\ TimersInRound /\ ParentsFirst /\ Reached /\ ListsOthers
  BY DEF HandleStatisticTimer, ExchangeInv, RoundInv
<1>2. n \in InRound /\ n \notin Exchanging
  BY <1>1 DEF TimersInRound, Exchanging
<1>3. Queue(n) = << >> /\ \A o \in offers : o.from # n /\ o.to # n
  BY <1>1 DEF SurroundingsQuiet, Queue
<1>4. ASSUME NEW m \in Nbr[n] PROVE m \in InRound
  <2>1. CASE m \in Parents(n)
    BY <1>2, <2>1 DEF MembersFacts
  <2>2. CASE m \notin Parents(n)
    BY <1>1, <1>2, <1>3, <2>2 DEF Reached
  <2> QED
    BY <2>1, <2>2
<1>5. ASSUME NEW m \in Nbr[n], NEW i \in 1 .. Len(Queue(m))
      PROVE  n \notin Queue(m)[i].to
  <2>1. m \in Nodes
    BY AssignmentAssumption
  <2>2. Queue(m) \in Seq(Payload)
    BY <2>1 DEF TreeKnown, ShapeInv, AssignmentTypeOK, Queue
  <2>3. i \in DOMAIN Queue(m)
    BY <2>2
  <2> QED
    BY <1>1, <2>3 DEF SurroundingsQuiet, Queue
<1>6. \A p \in Parents(n) : p \in Exchanging
  BY <1>1, <1>2 DEF SurroundingsQuiet, MembersFacts, Exchanging
<1>7. \A k \in Exchanging : n \notin Parents(k)
  BY <1>1, <1>2 DEF ParentsFirst
<1> QED
  BY <1>2, <1>3, <1>4, <1>5, <1>6, <1>7 DEF SettledNode

\* What a node sends when its statistic timer fires, if anything.
FirstWords(n, isEdge) ==
  \A k, m \in Nodes :
    unicast'[k][m] = IF isEdge /\ k = n /\ m \in Parents(n)
                     THEN <<Load, Share(load[n])>> ELSE unicast[k][m]

LEMMA TimerSends ==
  ASSUME LoadShape, NEW n \in Nodes, HandleStatisticTimer(n), NEW isEdge,
         isEdge = (n # Root /\ number_of_neighbours_flag[n] = 0),
         \A m \in Nodes : unicast[n][m] = << >>
  PROVE  FirstWords(n, isEdge)
<1> DEFINE msgs == <<Load, Share(load[n])>>
<1>1. unicast \in [Nodes -> [Nodes -> Seq(Message)]]
  BY DEF LoadShape
<1>2. msgs \in Seq(Message)
  <2>1. load[n] \in Int
    BY DEF LoadShape
  <2> QED
    BY <2>1, MessagesMade
<1>3. << >> \o msgs = msgs
  BY <1>2
<1>4. \/ isEdge /\ unicast' = [unicast EXCEPT ![n] = SentToParents(n, msgs)]
      \/ ~isEdge /\ unicast' = unicast
  BY DEF HandleStatisticTimer
<1> HIDE DEF msgs
<1>5. \A m \in Nodes :
        SentToParents(n, msgs)[m] = IF m \in Parents(n) THEN msgs ELSE unicast[n][m]
  BY <1>3 DEF SentToParents
<1>6. CASE isEdge /\ unicast' = [unicast EXCEPT ![n] = SentToParents(n, msgs)]
  <2>1. /\ unicast'[n] = SentToParents(n, msgs)
        /\ \A k \in Nodes \ {n} : unicast'[k] = unicast[k]
    BY <1>1, <1>6
  <2> QED
    BY <1>5, <1>6, <2>1 DEF FirstWords, msgs
<1>7. CASE ~isEdge /\ unicast' = unicast
  BY <1>7 DEF FirstWords
<1> QED
  BY <1>4, <1>6, <1>7

FirstFlags(n, isEdge, sent, next) ==
  /\ n # Root => ~sent[n]
  /\ next[n] <=> sent[n] \/ isEdge
  /\ \A k \in Nodes \ {n} : next[k] <=> sent[k]
  /\ \A s \in Children(n) : n \in Parents(s) => ~sent[s]

AwaitsAllChildren(n, kind, sent, next) ==
  /\ Awaited(n, kind, next, unicast') = Children(n)
  /\ \A k \in Nodes \ {n} :
       Awaited(k, kind, next, unicast') = Awaited(k, kind, sent, unicast)

\* All children of a node are awaited when its timer fires, and its parents
\* await it as before.
LEMMA AwaitedAtFirst ==
  ASSUME NEW kind \in {"LOAD", "SHARE"}, NEW sent, NEW next, NEW isEdge,
         NEW n \in Nodes, LoadShape, FirstWords(n, isEdge),
         FirstFlags(n, isEdge, sent, next), Parents(Root) = {}
  PROVE  AwaitsAllChildren(n, kind, sent, next)
<1>0. /\ n # Root => ~sent[n]
      /\ next[n] <=> sent[n] \/ isEdge
      /\ \A k \in Nodes \ {n} : next[k] <=> sent[k]
      /\ \A s \in Children(n) : n \in Parents(s) => ~sent[s]
  BY DEF FirstFlags
<1>1. \A k \in Nodes : Children(k) \subseteq Nodes /\ k \notin Children(k)
  BY AssignmentAssumption DEF Children
<1>2. Awaited(n, kind, next, unicast') = Children(n)
  BY <1>0, <1>1 DEF Awaited
<1>3. ASSUME NEW k \in Nodes \ {n}
      PROVE  Awaited(k, kind, next, unicast') = Awaited(k, kind, sent, unicast)
  <2>1. \A c \in Children(k) \ {n} :
          (next[c] <=> sent[c]) /\ unicast'[c][k] = unicast[c][k]
    BY <1>0, <1>1 DEF FirstWords
  <2>2. n \in Children(k) =>
          (k \in Parents(n) /\ next[n] /\ kind \notin Kinds(unicast'[n][k])
            <=> k \in Parents(n) /\ sent[n] /\ kind \notin Kinds(unicast[n][k]))
    <3> SUFFICES ASSUME n \in Children(k), k \in Parents(n)
                 PROVE  next[n] /\ kind \notin Kinds(unicast'[n][k])
                          <=> sent[n] /\ kind \notin Kinds(unicast[n][k])
      OBVIOUS
    <3>1. ~sent[n] /\ (next[n] <=> isEdge)
      BY <1>0
    <3>2. CASE isEdge
      <4>1. unicast'[n][k] = <<Load, Share(load[n])>>
        BY <3>2 DEF FirstWords
      <4>2. load[n] \in Int
        BY DEF LoadShape
      <4>3. kind \in Kinds(unicast'[n][k])
        BY <4>1, <4>2, KindsOfBoth
      <4> QED
        BY <3>1, <4>3
    <3>3. CASE ~isEdge
      BY <3>1, <3>3
    <3> QED
      BY <3>2, <3>3
  <2> QED
    BY <2>1, <2>2 DEF Awaited
<1> QED
  BY <1>2, <1>3 DEF AwaitsAllChildren
-----------------------------------------------------------------------------
LEMMA TimerFired ==
  ASSUME Settings, Timely, TreeKnown, MembersFacts, RoundInv, ExchangeShape,
         ExchangeShape', ExchangeInv, NEW n \in Nodes, HandleStatisticTimer(n)
  PROVE  ExchangeInv'
<1> DEFINE isEdge == n # Root /\ number_of_neighbours_flag[n] = 0
           hijos == Cardinality(Children(n))
<1>0. /\ LoadShape /\ CountShape /\ FlagShape
      /\ TimersInRound /\ ParentsFirst /\ Settled /\ UnsentBefore /\ EdgeChildless
      /\ MessagesInv /\ Detected /\ LeftWith100
      /\ CountsAwaited("LOAD", n_hijos_load, sent_load, unicast)
      /\ CountsAwaited("SHARE", n_hijos_share, sent_share, unicast)
  BY DEF ExchangeInv, CountInv, ExchangeShape
<1>1. /\ statistic_timer[n]
      /\ statistic_timer' = [statistic_timer EXCEPT ![n] = FALSE]
      /\ edge' = [edge EXCEPT ![n] = isEdge]
      /\ n_hijos_load' = [n_hijos_load EXCEPT ![n] = hijos]
      /\ n_hijos_share' = [n_hijos_share EXCEPT ![n] = hijos]
      /\ sent_load' = [sent_load EXCEPT ![n] = sent_load[n] \/ isEdge]
      /\ sent_share' = [sent_share EXCEPT ![n] = sent_share[n] \/ isEdge]
      /\ \/ isEdge /\ load' = [load EXCEPT ![n] = 100]
         \/ ~isEdge /\ load' = load
      /\ UNCHANGED assignmentVars /\ UNCHANGED has_converged
  BY DEF HandleStatisticTimer
<1>2. /\ n \in InRound /\ n \notin Exchanging
      /\ SettledNode(n)
      /\ \A p \in Parents(n) : p \in Exchanging
      /\ \A k \in Exchanging : n \notin Parents(k)
  BY FiredSettled
<1>3. isEdge => Children(n) = {}
  <2> SUFFICES ASSUME isEdge PROVE Children(n) = {}
    OBVIOUS
  <2>1. NodeHeard(n)
    BY DEF Settings, TreeKnown, UnheardInv, HeardInv
  <2>2. hlmac_table[n] # << >>
    BY <1>2 DEF InRound
  <2>3. Unheard(n) = Children(n)
    BY DEF Unheard, Children
  <2>4. Cardinality(Children(n)) = 0
    BY <2>1, <2>2, <2>3 DEF NodeHeard
  <2>5. IsFiniteSet(Children(n))
    BY AssignmentAssumption, FS_Subset DEF Children
  <2> QED
    BY <2>4, <2>5, FS_EmptySet
<1>4. n # Root => ~sent_load[n] /\ ~sent_share[n]
  BY <1>0, <1>1, <1>2 DEF UnsentBefore
<1>5. ASSUME NEW s \in Children(n), n \in Parents(s)
      PROVE  ~sent_load[s] /\ ~sent_share[s]
  <2>1. s \in InRound /\ s \notin Exchanging
    BY <1>2, <1>5 DEF SettledNode, Children
  <2>2. s # Root /\ statistic_timer[s]
    BY <1>5, <2>1 DEF MembersFacts, Exchanging
  <2> QED
    BY <1>0, <2>1, <2>2 DEF UnsentBefore
<1>6. \A m \in Nodes : unicast[n][m] = << >>
  BY <1>0, <1>2 DEF MessagesInv, MessagesOf
<1>7. Parents(Root) = {}
  BY <1>2 DEF MembersFacts
<1>8. /\ InRound' = InRound /\ number_of_neighbours_flag' = number_of_neighbours_flag
      /\ offers' = offers
      /\ \A k : /\ Parents(k)' = Parents(k) /\ Children(k)' = Children(k)
                /\ Queue(k)' = Queue(k)
  <2>1. /\ timestamp' = timestamp /\ hlmac_table' = hlmac_table /\ flag' = flag
        /\ payload_entry_list' = payload_entry_list /\ offers' = offers
        /\ number_of_neighbours_flag' = number_of_neighbours_flag
    BY <1>1 DEF assignmentVars
  <2> QED
    BY <2>1 DEF InRound, HeadEntry, Parents, Children, Queue
<1>9. FirstWords(n, isEdge)
  BY <1>0, <1>6, TimerSends
<1> HIDE DEF isEdge, hijos
<1>10. /\ edge'[n] = isEdge /\ ~statistic_timer'[n]
       /\ n_hijos_load'[n] = hijos /\ n_hijos_share'[n] = hijos
       /\ sent_load'[n] <=> sent_load[n] \/ isEdge
       /\ sent_share'[n] <=> sent_share[n] \/ isEdge
       /\ isEdge => load'[n] = 100
  <2>1. /\ load \in [Nodes -> Int] /\ n_hijos_share \in [Nodes -> Nat]
        /\ n_hijos_load \in [Nodes -> Nat]
        /\ sent_share \in [Nodes -> BOOLEAN] /\ sent_load \in [Nodes -> BOOLEAN]
        /\ edge \in [Nodes -> BOOLEAN] /\ statistic_timer \in [Nodes -> BOOLEAN]
    BY <1>0 DEF LoadShape, CountShape, FlagShape
  <2>2. /\ sent_load'[n] <=> sent_load[n] \/ isEdge
        /\ sent_share'[n] <=> sent_share[n] \/ isEdge
    BY <1>1, <2>1
  <2> QED
    BY <1>1, <2>1, <2>2
<1>11. \A k \in Nodes \ {n} :
         /\ statistic_timer'[k] = statistic_timer[k] /\ edge'[k] = edge[k]
         /\ n_hijos_load'[k] = n_hijos_load[k] /\ n_hijos_share'[k] = n_hijos_share[k]
         /\ sent_load'[k] = sent_load[k] /\ sent_share'[k] = sent_share[k]
         /\ load'[k] = load[k]
  <2>1. /\ load \in [Nodes -> Int] /\ n_hijos_share \in [Nodes -> Nat]
        /\ n_hijos_load \in [Nodes -> Nat]
        /\ sent_share \in [Nodes -> BOOLEAN] /\ sent_load \in [Nodes -> BOOLEAN]
        /\ edge \in [Nodes -> BOOLEAN] /\ statistic_timer \in [Nodes -> BOOLEAN]
    BY <1>0 DEF LoadShape, CountShape, FlagShape
  <2> QED
    BY <1>1, <2>1
<1>12. Exchanging' = Exchanging \cup {n} /\ Exchanging' \subseteq Nodes
  BY <1>2, <1>8, <1>10, <1>11 DEF Exchanging, InRound
<1>13. TimersInRound'
  BY <1>0, <1>8, <1>10, <1>11 DEF TimersInRound
<1>14. ParentsFirst'
  BY <1>0, <1>2, <1>8, <1>12 DEF ParentsFirst
<1>15. Settled'
  BY <1>0, <1>2, <1>8, <1>12 DEF Settled, SettledNode
<1>16. UnsentBefore'
  <2> SUFFICES ASSUME NEW k \in InRound, k # Root, statistic_timer'[k]
               PROVE  ~sent_load'[k] /\ ~sent_share'[k]
    BY <1>8 DEF UnsentBefore
  <2>1. k \in Nodes \ {n}
    BY <1>10 DEF InRound
  <2>2. statistic_timer[k]
    BY <1>11, <2>1
  <2>3. ~sent_load[k] /\ ~sent_share[k]
    BY <1>0, <2>2 DEF UnsentBefore
  <2> QED
    BY <1>11, <2>1, <2>3
<1>17. EdgeChildless'
  <2> SUFFICES ASSUME NEW k \in Exchanging', edge'[k] PROVE Children(k) = {}
    BY <1>8 DEF EdgeChildless
  <2>1. CASE k = n
    BY <1>3, <1>10, <2>1
  <2>2. CASE k # n
    BY <1>0, <1>11, <1>12, <2>2 DEF EdgeChildless
  <2> QED
    BY <2>1, <2>2
<1>18. MessagesInv'
  <2> SUFFICES ASSUME NEW k \in Nodes, NEW m \in Nodes PROVE MessagesOf(k, m)'
    BY DEF MessagesInv
  <2>1. MessagesOf(k, m)
    BY <1>0 DEF MessagesInv
  <2>2. CASE isEdge /\ k = n /\ m \in Parents(n)
    <3>1. unicast'[k][m] = <<Load, Share(load[n])>> /\ load[n] \in Int
      BY <1>0, <1>9, <2>2 DEF FirstWords, LoadShape
    <3>2. OneOfEach(unicast'[k][m])
      BY <3>1, KindsOfBoth
    <3> QED
      BY <1>8, <1>10, <1>12, <2>2, <3>2 DEF MessagesOf
  <2>3. CASE ~ (isEdge /\ k = n /\ m \in Parents(n))
    <3>1. unicast'[k][m] = unicast[k][m]
      BY <1>9, <2>3 DEF FirstWords
    <3>2. (sent_load[k] => sent_load'[k]) /\ (sent_share[k] => sent_share'[k])
      BY <1>10, <1>11
    <3> QED
      BY <1>8, <1>12, <2>1, <3>1, <3>2 DEF MessagesOf
  <2> QED
    BY <2>2, <2>3
<1>19. LeftWith100'
  <2> SUFFICES ASSUME NEW k \in Exchanging', k # Root, sent_share'[k]
               PROVE  load'[k] = 100
    BY DEF LeftWith100
  <2>1. CASE k = n
    BY <1>4, <1>10, <2>1
  <2>2. CASE k # n
    BY <1>0, <1>11, <1>12, <2>2 DEF LeftWith100
  <2> QED
    BY <2>1, <2>2
<1>20. ASSUME NEW kind \in {"LOAD", "SHARE"}, NEW sent, NEW next, NEW counts, NEW nextc,
              CountsAwaited(kind, counts, sent, unicast),
              FirstFlags(n, isEdge, sent, next),
              nextc[n] = hijos, \A k \in Nodes \ {n} : nextc[k] = counts[k]
       PROVE  /\ \A k \in Exchanging' :
                   /\ nextc[k] = Cardinality(Awaited(k, kind, next, unicast'))
                   /\ k # Root /\ next[k] => nextc[k] = 0
  <2>1. /\ Awaited(n, kind, next, unicast') = Children(n)
        /\ \A k \in Nodes \ {n} :
             Awaited(k, kind, next, unicast') = Awaited(k, kind, sent, unicast)
    BY <1>0, <1>7, <1>9, <1>20, AwaitedAtFirst DEF AwaitsAllChildren
  <2>2. n # Root /\ next[n] => hijos = 0
    <3>1. isEdge => hijos = 0
      BY <1>3, FS_EmptySet DEF hijos
    <3> QED
      BY <1>20, <3>1 DEF FirstFlags
  <2> SUFFICES ASSUME NEW k \in Exchanging'
               PROVE  /\ nextc[k] = Cardinality(Awaited(k, kind, next, unicast'))
                      /\ k # Root /\ next[k] => nextc[k] = 0
    OBVIOUS
  <2>3. CASE k = n
    BY <1>20, <2>1, <2>2, <2>3 DEF hijos
  <2>4. CASE k # n
    BY <1>12, <1>20, <2>1, <2>4 DEF CountsAwaited, FirstFlags
  <2> QED
    BY <2>3, <2>4
<1>21. CountInv'
  <2>1. \A k \in Exchanging' :
          /\ n_hijos_load'[k] = Cardinality(Awaited(k, "LOAD", sent_load', unicast'))
          /\ k # Root /\ sent_load'[k] => n_hijos_load'[k] = 0
    <3>1. FirstFlags(n, isEdge, sent_load, sent_load')
      BY <1>4, <1>5, <1>10, <1>11 DEF FirstFlags
    <3> QED
      BY <1>0, <1>10, <1>11, <1>20, <3>1
  <2>2. \A k \in Exchanging' :
          /\ n_hijos_share'[k] = Cardinality(Awaited(k, "SHARE", sent_share', unicast'))
          /\ k # Root /\ sent_share'[k] => n_hijos_share'[k] = 0
    <3>1. FirstFlags(n, isEdge, sent_share, sent_share')
      BY <1>4, <1>5, <1>10, <1>11 DEF FirstFlags
    <3> QED
      BY <1>0, <1>10, <1>11, <1>20, <3>1
  <2>3. \A k : /\ Awaited(k, "LOAD", sent_load, unicast)'
                    = Awaited(k, "LOAD", sent_load', unicast')
               /\ Awaited(k, "SHARE", sent_share, unicast)'
                    = Awaited(k, "SHARE", sent_share', unicast')
    BY <1>8 DEF Awaited
  <2> QED
    BY <2>1, <2>2, <2>3 DEF CountInv, CountsAwaited
<1>22. Detected'
  <2>1. has_converged => n # Root
    BY <1>0, <1>2 DEF Detected
  <2> QED
    BY <1>0, <1>1, <1>11, <1>12, <2>1, AssignmentAssumption DEF Detected
<1> QED
  BY <1>13, <1>14, <1>15, <1>16, <1>17, <1>18, <1>19, <1>21, <1>22 DEF ExchangeInv
-----------------------------------------------------------------------------
-----------------------------------------------------------------------------
LEMMA BegunExchange ==
  ASSUME Timely, ExchangeShape, BeginRound, Begun
  PROVE  ExchangeInv'
<1>1. /\ \A n \in Nodes : ~statistic_timer[n]
      /\ \A n, m \in Nodes : unicast[n][m] = << >>
      /\ statistic_timer' = [statistic_timer EXCEPT ![Root] = TRUE]
      /\ has_converged' = FALSE /\ unicast' = unicast
      /\ statistic_timer \in [Nodes -> BOOLEAN]
      /\ InRound' = {Root} /\ Root \in Nodes
  BY AssignmentAssumption
  DEF BeginRound, NetworkQuiet, Begun, ExchangeShape, FlagShape
<1>2. statistic_timer'[Root] /\ \A n \in Nodes \ {Root} : ~statistic_timer'[n]
  BY <1>1
<1>3. Exchanging' = {}
  BY <1>1, <1>2 DEF Exchanging
<1>4. TimersInRound'
  BY <1>1, <1>2 DEF TimersInRound
<1>5. UnsentBefore'
  BY <1>1 DEF UnsentBefore
<1>6. MessagesInv'
  BY <1>1, KindsEmpty DEF MessagesInv, MessagesOf
<1>7. ParentsFirst' /\ Settled' /\ EdgeChildless' /\ LeftWith100'
  BY <1>3 DEF ParentsFirst, Settled, EdgeChildless, LeftWith100
<1>8. CountInv'
  BY <1>3 DEF CountInv, CountsAwaited
<1>9. Detected'
  BY <1>1 DEF Detected
<1> QED
  BY <1>4, <1>5, <1>6, <1>7, <1>8, <1>9 DEF ExchangeInv

\* What a step leaves alone when it neither touches the flags of a node whose
\* timer has fired nor the exchange.
KeepsExchanging ==
  /\ Exchanging' = Exchanging
  /\ \A n \in Exchanging : /\ Parents(n)' = Parents(n) /\ Children(n)' = Children(n)
                           /\ \A s \in Children(n) : Parents(s)' = Parents(s)
  /\ unicast' = unicast /\ n_hijos_load' = n_hijos_load /\ n_hijos_share' = n_hijos_share
  /\ edge' = edge /\ has_converged' = has_converged
  /\ \A n \in InRound : /\ sent_load'[n] = sent_load[n] /\ sent_share'[n] = sent_share[n]
                        /\ load'[n] = load[n]

LEMMA ExchangingKept ==
  ASSUME ExchangeInv, KeepsExchanging, TimersInRound', Settled', UnsentBefore'
  PROVE  ExchangeInv'
<1>1. /\ ParentsFirst /\ Settled /\ EdgeChildless /\ MessagesInv /\ Detected
      /\ LeftWith100
      /\ CountsAwaited("LOAD", n_hijos_load, sent_load, unicast)
      /\ CountsAwaited("SHARE", n_hijos_share, sent_share, unicast)
  BY DEF ExchangeInv, CountInv
<1>2. /\ Exchanging' = Exchanging
      /\ \A n \in Exchanging : /\ Parents(n)' = Parents(n) /\ Children(n)' = Children(n)
                               /\ \A s \in Children(n) : Parents(s)' = Parents(s)
      /\ unicast' = unicast /\ n_hijos_load' = n_hijos_load /\ n_hijos_share' = n_hijos_share
      /\ edge' = edge /\ has_converged' = has_converged
      /\ \A n \in InRound : /\ sent_load'[n] = sent_load[n] /\ sent_share'[n] = sent_share[n]
                            /\ load'[n] = load[n]
  BY DEF KeepsExchanging
<1>3. \A n \in Exchanging :
        n \in InRound /\ \A s \in Children(n) : s \in InRound
  BY <1>1 DEF Settled, SettledNode, Children, Exchanging
<1>4. ParentsFirst'
  BY <1>1, <1>2 DEF ParentsFirst
<1>5. EdgeChildless'
  BY <1>1, <1>2 DEF EdgeChildless
<1>6. MessagesInv'
  <2> SUFFICES ASSUME NEW s \in Nodes, NEW n \in Nodes PROVE MessagesOf(s, n)'
    BY DEF MessagesInv
  <2>1. MessagesOf(s, n)
    BY <1>1 DEF MessagesInv
  <2>2. CASE unicast[s][n] = << >>
    BY <1>2, <2>2, KindsEmpty DEF MessagesOf
  <2>3. CASE unicast[s][n] # << >>
    <3>1. s \in Exchanging
      BY <2>1, <2>3 DEF MessagesOf
    <3> QED
      BY <1>2, <1>3, <2>1, <3>1 DEF MessagesOf
  <2> QED
    BY <2>2, <2>3
<1>7. \A n \in Exchanging :
        /\ Awaited(n, "LOAD", sent_load, unicast)' = Awaited(n, "LOAD", sent_load, unicast)
        /\ Awaited(n, "SHARE", sent_share, unicast)' = Awaited(n, "SHARE", sent_share, unicast)
  BY <1>2, <1>3 DEF Awaited
<1>8. CountInv'
  BY <1>1, <1>2, <1>3, <1>7 DEF CountInv, CountsAwaited
<1>9. Detected'
  BY <1>1, <1>2 DEF Detected
<1>10. LeftWith100'
  BY <1>1, <1>2, <1>3 DEF LeftWith100
<1> QED
  BY <1>4, <1>5, <1>6, <1>8, <1>9, <1>10 DEF ExchangeInv

LEMMA SentExchange ==
  ASSUME Settings, TrafficFacts, RoundInv, ExchangeInv,
         NEW n \in Nodes, Sent(n), UNCHANGED loadVars
  PROVE  ExchangeInv'
<1>1. /\ TimersInRound /\ Settled /\ UnsentBefore
      /\ statistic_timer' = statistic_timer /\ unicast' = unicast
      /\ n_hijos_load' = n_hijos_load /\ n_hijos_share' = n_hijos_share
      /\ edge' = edge /\ has_converged' = has_converged
      /\ sent_load' = sent_load /\ sent_share' = sent_share /\ load' = load
  BY DEF ExchangeInv, loadVars
<1>2. /\ offers = {} /\ n \in InRound /\ timestamp' = timestamp
      /\ hlmac_table' = hlmac_table /\ flag' = flag
      /\ Queue(n) # << >> /\ Queue(n)' = << >>
      /\ \A k \in Nodes \ {n} : Queue(k)' = Queue(k)
      /\ \A o \in offers' : o.from = n /\ o.to \in Nbr[n] \ Parents(n)
  BY DEF Sent
<1>3. /\ InRound' = InRound /\ Exchanging' = Exchanging
      /\ \A k : Parents(k)' = Parents(k) /\ Children(k)' = Children(k)
  BY <1>1, <1>2 DEF InRound, HeadEntry, Exchanging, Parents, Children
<1>4. KeepsExchanging
  BY <1>1, <1>3 DEF KeepsExchanging
<1>5. TimersInRound' /\ UnsentBefore'
  BY <1>1, <1>3 DEF TimersInRound, UnsentBefore
<1>6. Settled'
  <2> SUFFICES ASSUME NEW k \in Exchanging PROVE SettledNode(k)'
    BY <1>3 DEF Settled
  <2>1. SettledNode(k)
    BY <1>1 DEF Settled
  <2>2. k # n /\ k \in Nodes
    BY <1>2, <2>1 DEF SettledNode, Exchanging, InRound
  <2>3. Queue(k)' = << >>
    BY <1>2, <2>1, <2>2 DEF SettledNode
  <2>4. ASSUME NEW o \in offers', o.to = k PROVE FALSE
    <3>1. k \in Nbr[n] \ Parents(n) /\ n \in Nbr[k]
      BY <1>2, <2>4 DEF Settings, MutualNeighbours
    <3>2. PICK i \in 1 .. Len(Queue(n)) : TRUE
      BY <1>2 DEF TrafficFacts
    <3>3. Queue(n)[i].to = Nbr[n] \ Parents(n)
      BY DEF RoundInv, ListsOthers
    <3> QED
      BY <2>1, <3>1, <3>2, <3>3 DEF SettledNode
  <2>5. \A o \in offers' : o.from # k /\ o.to # k
    BY <1>2, <2>2, <2>4
  <2>6. \A m \in Nbr[k] : \A i \in 1 .. Len(Queue(m)') : k \notin Queue(m)'[i].to
    <3>1. 1 .. Len(Queue(n)') = {}
      BY <1>2
    <3>2. \A m \in Nbr[k] : m \in Nodes
      BY <2>2, AssignmentAssumption
    <3> QED
      BY <1>2, <2>1, <3>1, <3>2 DEF SettledNode
  <2> QED
    BY <1>3, <2>1, <2>3, <2>5, <2>6 DEF SettledNode
<1> QED
  BY <1>4, <1>5, <1>6, ExchangingKept
-----------------------------------------------------------------------------
LEMMA TakenIsNew ==
  ASSUME Settings, TreeKnown, TrafficFacts, RoundInv, NEW o \in offers,
         o.to \notin InRound
  PROVE  NewRound(o)
<1> DEFINE n == o.to
<1>1. /\ MaxHlmac = 1 /\ AssignmentTypeOK /\ LastTimestampIsHeads /\ n \in Nodes
      /\ n # Root /\ o.timestamp = timestamp /\ o.timestamp \in 0 .. MaxRound
  BY DEF Settings, TreeKnown, ShapeInv, TreeInv, TrafficFacts, RoundInv, CurrentOnly,
         AssignmentTypeOK, Offer
<1>2. CASE hlmac_table[n] = << >>
  BY <1>1, <1>2 DEF LastTimestampIsHeads, NewRound
<1>3. CASE hlmac_table[n] # << >>
  <2>1. last_timestamp[n] = HeadEntry(n).timestamp
    BY <1>1, <1>3 DEF LastTimestampIsHeads
  <2>2. HeadEntry(n).timestamp \in 0 .. MaxRound
    BY <1>1, <1>3, HeadType
  <2>3. HeadEntry(n).timestamp <= timestamp /\ HeadEntry(n).timestamp # timestamp
    BY <1>1, <1>3 DEF RoundInv, HeadsOfPast, InRound
  <2>4. MaxRound \in Nat
    BY AssignmentAssumption
  <2> QED
    BY <1>1, <2>1, <2>2, <2>3, <2>4 DEF NewRound
<1> QED
  BY <1>2, <1>3

LEMMA TakenExchange ==
  ASSUME Settings, TreeKnown, TrafficFacts, MembersFacts, RoundInv, ExchangeShape,
         ExchangeInv, NEW o \in offers, TakeAddress(o), Taken(o)
  PROVE  ExchangeInv'
<1> DEFINE n == o.to
<1>1. /\ n \in Nodes /\ n # Root /\ n \notin InRound /\ o.from \in Nodes
      /\ TimersInRound /\ Settled /\ UnsentBefore
  BY DEF TrafficFacts, Taken, ExchangeInv, MembersFacts
<1>2. NewRound(o)
  BY <1>1, TakenIsNew
<1>3. /\ statistic_timer' = [statistic_timer EXCEPT ![n] = TRUE]
      /\ sent_load' = [sent_load EXCEPT ![n] = sent_load[n] /\ ~NewRound(o)]
      /\ sent_share' = [sent_share EXCEPT ![n] = sent_share[n] /\ ~NewRound(o)]
      /\ DrawLoad(n, NewRound(o)) /\ CheckConvergence(n)
      /\ UNCHANGED <<edge, n_hijos_load, n_hijos_share, in_out, unicast>>
  BY DEF TakeAddress
<1>4. /\ statistic_timer \in [Nodes -> BOOLEAN] /\ sent_load \in [Nodes -> BOOLEAN]
      /\ sent_share \in [Nodes -> BOOLEAN] /\ load \in [Nodes -> Int]
      /\ has_converged \in BOOLEAN
  BY DEF ExchangeShape, LoadShape, FlagShape
<1>5. /\ statistic_timer'[n] /\ ~sent_load'[n] /\ ~sent_share'[n]
      /\ \A k \in Nodes \ {n} : /\ statistic_timer'[k] = statistic_timer[k]
                                /\ sent_load'[k] = sent_load[k]
                                /\ sent_share'[k] = sent_share[k]
  BY <1>1, <1>2, <1>3, <1>4
<1>6. \A k \in Nodes \ {n} : load'[k] = load[k]
  BY <1>2, <1>3, <1>4 DEF DrawLoad
<1>7. has_converged' = has_converged
  BY <1>1, <1>3, <1>4 DEF CheckConvergence
<1>8. /\ InRound' = InRound \cup {n}
      /\ offers' = offers \ {o}
      /\ \A k \in Nodes \ {n} :
           Parents(k)' = Parents(k) /\ Queue(k)' = Queue(k) /\ flag'[k] = flag[k]
  <2>1. offers' = offers \ {o}
    BY DEF Taken
  <2> QED
    BY <1>1, <2>1, TakenKeeps
<1>9. Exchanging' = Exchanging
  BY <1>1, <1>5, <1>8 DEF Exchanging, InRound
<1>10. \A k \in Exchanging :
         /\ k \in Nodes \ {n} /\ SettledNode(k)
         /\ \A m \in Nbr[k] : m \in Nodes \ {n}
  BY <1>1 DEF Settled, SettledNode, Exchanging, InRound
<1>11. \A k \in Exchanging : Children(k)' = Children(k)
  BY <1>8, <1>10 DEF Children
<1>12. \A k \in Exchanging : \A s \in Children(k) : Parents(s)' = Parents(s)
  BY <1>8, <1>10 DEF Children
<1>13. \A k \in InRound : k \in Nodes \ {n}
  BY <1>1 DEF InRound
<1>14. KeepsExchanging
  BY <1>3, <1>5, <1>6, <1>7, <1>8, <1>9, <1>10, <1>11, <1>12, <1>13 DEF KeepsExchanging
<1>15. TimersInRound'
  BY <1>1, <1>5, <1>8 DEF TimersInRound
<1>16. UnsentBefore'
  <2> SUFFICES ASSUME NEW k \in InRound', k # Root, statistic_timer'[k]
               PROVE  ~sent_load'[k] /\ ~sent_share'[k]
    BY DEF UnsentBefore
  <2>1. CASE k = n
    BY <1>5, <2>1
  <2>2. CASE k # n
    BY <1>1, <1>5, <1>8, <1>13, <2>2 DEF UnsentBefore
  <2> QED
    BY <2>1, <2>2
<1>17. Settled'
  <2> SUFFICES ASSUME NEW k \in Exchanging PROVE SettledNode(k)'
    BY <1>9 DEF Settled
  <2>1. Queue(k)' = << >> /\ \A p \in offers' : p.from # k /\ p.to # k
    BY <1>8, <1>10 DEF SettledNode
  <2>2. \A m \in Nbr[k] : /\ m \in InRound'
                          /\ \A i \in 1 .. Len(Queue(m)') : k \notin Queue(m)'[i].to
    BY <1>8, <1>10 DEF SettledNode
  <2> QED
    BY <2>1, <2>2 DEF SettledNode
<1> QED
  BY <1>14, <1>15, <1>16, <1>17, ExchangingKept

LEMMA LeftExchange ==
  ASSUME Settings, TrafficFacts, MembersFacts, RoundInv, ExchangeShape,
         ExchangeInv, NEW o \in offers, LeaveAddress(o), Left(o)
  PROVE  ExchangeInv'
<1> DEFINE n == o.to
<1>1. /\ n \in Nodes /\ n # Root /\ o.from \in Nodes
      /\ TimersInRound /\ Settled /\ UnsentBefore
      /\ has_converged \in BOOLEAN
  BY DEF TrafficFacts, ExchangeInv, MembersFacts, ExchangeShape, FlagShape
<1>2. /\ statistic_timer' = statistic_timer /\ unicast' = unicast
      /\ n_hijos_load' = n_hijos_load /\ n_hijos_share' = n_hijos_share
      /\ edge' = edge /\ CheckConvergence(n)
      /\ sent_load' = sent_load /\ sent_share' = sent_share /\ load' = load
  BY DEF LeaveAddress
<1>3. has_converged' = has_converged
  BY <1>1, <1>2 DEF CheckConvergence
<1>4. /\ InRound' = InRound
      /\ \A k \in Nodes : Parents(k)' = Parents(k) /\ Queue(k)' = Queue(k)
  BY LeftKeeps
<1>5. /\ offers' = offers \ {o}
      /\ \A k, m \in Nodes : flag'[k][m] = flag[k][m] \/ k = n
  BY DEF Left
<1>6. Exchanging' = Exchanging
  BY <1>2, <1>4 DEF Exchanging
<1>7. \A k \in Exchanging : k # n /\ k \in Nodes /\ SettledNode(k)
  BY <1>1 DEF Settled, SettledNode, Exchanging, InRound
<1>8. \A k \in Exchanging : \A m \in Nbr[k] : m \in Nodes
  BY <1>7, AssignmentAssumption
<1>9. \A k \in Exchanging : Children(k)' = Children(k)
  BY <1>5, <1>7, <1>8 DEF Children
<1>10. KeepsExchanging
  BY <1>2, <1>3, <1>4, <1>6, <1>7, <1>8, <1>9 DEF KeepsExchanging, Children
<1>11. TimersInRound' /\ UnsentBefore'
  BY <1>1, <1>2, <1>4 DEF TimersInRound, UnsentBefore
<1>12. Settled'
  BY <1>4, <1>5, <1>6, <1>7, <1>8 DEF Settled, SettledNode
<1> QED
  BY <1>10, <1>11, <1>12, ExchangingKept

LEMMA NextExchangeInv ==
  ASSUME Ideal, TreeKnown, TreeKnown', RoundInv, ExchangeShape, ExchangeShape',
         ExchangeInv, [Next]_vars
  PROVE  ExchangeInv'
<1>1. Settings /\ Timely /\ ~Lossy /\ ShapeInv'
  BY DEF Ideal, Settings, TreeKnown
<1>2. MembersFacts /\ TrafficFacts /\ HeadsOfPast
  BY <1>1, MembersKnown, TrafficKnown DEF RoundInv
<1>3. CASE BeginRound
  <2>1. Begun
    BY <1>1, <1>2, <1>3, RootBegins
  <2> QED
    BY <1>1, <1>3, <2>1, BegunExchange
<1>4. ASSUME NEW n \in Nodes, BroadcastSetHlmac(n) PROVE ExchangeInv'
  <2>1. Sent(n)
    BY <1>1, <1>4, SetHlmacSent
  <2>2. UNCHANGED loadVars
    BY <1>4 DEF BroadcastSetHlmac
  <2> QED
    BY <1>1, <1>2, <2>1, <2>2, SentExchange
<1>5. ASSUME NEW o \in offers, TakeAddress(o) PROVE ExchangeInv'
  <2>1. AcceptOffer(o)
    BY <1>5 DEF TakeAddress
  <2>2. Taken(o)
    BY <1>1, <2>1, AddressTaken
  <2> QED
    BY <1>1, <1>2, <1>5, <2>2, TakenExchange
<1>6. ASSUME NEW o \in offers, LeaveAddress(o) PROVE ExchangeInv'
  <2>1. RefuseOffer(o) \/ DisregardOffer(o)
    BY <1>6 DEF LeaveAddress
  <2>2. Left(o)
    BY <1>1, <2>1, OfferLeft
  <2> QED
    BY <1>1, <1>2, <1>6, <2>2, LeftExchange
<1>7. ASSUME NEW o \in offers, LoseFrame(o) PROVE FALSE
  BY <1>1, <1>7 DEF LoseFrame
<1>8. ASSUME NEW n \in Nodes, HandleStatisticTimer(n) PROVE ExchangeInv'
  BY <1>1, <1>2, <1>8, TimerFired
<1>9. ASSUME NEW s \in Nodes, NEW n \in Nodes, ReceiveLoad(s, n) \/ ReceiveShare(s, n)
      PROVE  ExchangeInv'
  BY <1>2, <1>9, LoadReceived, ShareReceived
<1>10. ASSUME NEW s \in Nodes, NEW n \in Nodes, LoseMessage(s, n) \/ RepeatMessage(s, n)
       PROVE  FALSE
  BY <1>1, <1>10 DEF LoseMessage, RepeatMessage
<1>11. CASE UNCHANGED vars
  <2>1. /\ UNCHANGED assignmentVars /\ UNCHANGED statistic_timer
        /\ statistic_timer' = statistic_timer /\ unicast' = unicast
        /\ n_hijos_load' = n_hijos_load /\ n_hijos_share' = n_hijos_share
        /\ edge' = edge /\ has_converged' = has_converged
        /\ sent_load' = sent_load /\ sent_share' = sent_share /\ load' = load
    BY <1>11 DEF vars, loadVars
  <2>2. /\ InRound' = InRound /\ Exchanging' = Exchanging
        /\ \A n : Parents(n)' = Parents(n) /\ Children(n)' = Children(n)
        /\ (TimersInRound /\ ParentsFirst /\ Settled)'
    BY <2>1, RoundStays DEF ExchangeInv
  <2>3. KeepsExchanging
    BY <2>1, <2>2 DEF KeepsExchanging
  <2>4. UnsentBefore'
    BY <2>1, <2>2 DEF ExchangeInv, UnsentBefore
  <2> QED
    BY <2>2, <2>3, <2>4, ExchangingKept
<1> QED
  BY <1>3, <1>4, <1>5, <1>6, <1>7, <1>8, <1>9, <1>10, <1>11 DEF Next, HandleOffer, HandleMessage

LEMMA InitExchangeInv == ASSUME Init PROVE ExchangeInv
<1>1. /\ InRound = {} /\ has_converged = FALSE
      /\ \A n \in Nodes : ~statistic_timer[n]
      /\ \A n, m \in Nodes : unicast[n][m] = << >>
  BY DEF Init, AssignmentInit, InRound
<1>2. Exchanging = {}
  BY <1>1 DEF Exchanging
<1>3. MessagesInv
  BY <1>1, KindsEmpty DEF MessagesInv, MessagesOf
<1>4. TimersInRound /\ UnsentBefore /\ Detected
  BY <1>1 DEF TimersInRound, UnsentBefore, Detected
<1>5. ParentsFirst /\ Settled /\ EdgeChildless /\ LeftWith100 /\ CountInv
  BY <1>2 DEF ParentsFirst, Settled, EdgeChildless, LeftWith100, CountInv, CountsAwaited
<1> QED
  BY <1>3, <1>4, <1>5 DEF ExchangeInv
-----------------------------------------------------------------------------
-----------------------------------------------------------------------------
(***************************************************************************)
(* What it means that the root awaits nobody.                              *)
(***************************************************************************)
ConvergenceFacts ==
  /\ Ideal /\ TreeKnown /\ RoundInv /\ ExchangeShape /\ ExchangeInv /\ NoParentCycle

AwaitsNobody(n) ==
  /\ Awaited(n, "LOAD", sent_load, unicast) = {}
  /\ Awaited(n, "SHARE", sent_share, unicast) = {}

\* Nothing is left for n to do in this round.
Done(n) ==
  /\ n \in Exchanging /\ AwaitsNobody(n)
  /\ n # Root => sent_load[n] /\ sent_share[n]

LEMMA ZeroAwaitsNobody ==
  ASSUME CountInv, NEW n \in Nodes, n \in Exchanging,
         n_hijos_load[n] = 0, n_hijos_share[n] = 0
  PROVE  AwaitsNobody(n)
<1>1. /\ Cardinality(Awaited(n, "LOAD", sent_load, unicast)) = 0
      /\ Cardinality(Awaited(n, "SHARE", sent_share, unicast)) = 0
  BY DEF CountInv, CountsAwaited
<1>2. /\ IsFiniteSet(Awaited(n, "LOAD", sent_load, unicast))
      /\ IsFiniteSet(Awaited(n, "SHARE", sent_share, unicast))
  BY AwaitedCount
<1> QED
  BY <1>1, <1>2, FS_EmptySet DEF AwaitsNobody

\* A child of a node that awaits nobody has sent everything.
LEMMA ChildIsDone ==
  ASSUME ConvergenceFacts, MembersFacts,
         NEW n \in InRound, NEW p \in Parents(n), Done(p)
  PROVE  Done(n)
<1>1. /\ n \in Nodes /\ p \in InRound /\ p \in Nodes /\ n \in Nbr[p] /\ n # Root
  BY DEF MembersFacts
<1>2. n \in Children(p)
  BY <1>1 DEF ConvergenceFacts, RoundInv, ChildrenUnheard, Children
<1>3. sent_load[n] /\ sent_share[n]
  BY <1>2 DEF Done, AwaitsNobody, Awaited
<1>4. n \in Exchanging
  BY <1>1, <1>3 DEF ConvergenceFacts, ExchangeInv, UnsentBefore, Exchanging
<1>5. n_hijos_load[n] = 0 /\ n_hijos_share[n] = 0
  BY <1>1, <1>3, <1>4 DEF ConvergenceFacts, ExchangeInv, CountInv, CountsAwaited
<1>6. AwaitsNobody(n)
  BY <1>1, <1>4, <1>5, ZeroAwaitsNobody DEF ConvergenceFacts, ExchangeInv
<1> QED
  BY <1>3, <1>4, <1>6 DEF Done

LEMMA AllAreDone ==
  ASSUME ConvergenceFacts, has_converged
  PROVE  \A n \in Nodes : n \in InRound /\ Done(n)
<1>1. Settings /\ HeadsOfPast
  BY DEF ConvergenceFacts, Ideal, Settings, RoundInv
<1>2. MembersFacts
  BY <1>1, MembersKnown DEF ConvergenceFacts
<1>3. Done(Root)
  <2>1. Root \in Exchanging /\ n_hijos_load[Root] = 0 /\ n_hijos_share[Root] = 0
    BY DEF ConvergenceFacts, ExchangeInv, Detected
  <2>2. AwaitsNobody(Root)
    BY <2>1, ZeroAwaitsNobody, AssignmentAssumption DEF ConvergenceFacts, ExchangeInv
  <2> QED
    BY <2>1, <2>2 DEF Done
<1>4. \A n \in InRound : Done(n)
  <2> DEFINE S == {n \in InRound : ~Done(n)}
  <2>1. S \in SUBSET Nodes
    BY DEF InRound
  <2>2. S = {}
    <3> SUFFICES ASSUME S # {} PROVE FALSE
      OBVIOUS
    <3>1. PICK n \in S : Parents(n) \cap S = {}
      BY <2>1 DEF ConvergenceFacts, NoParentCycle, Ideal
    <3>2. n \in InRound /\ ~Done(n) /\ n # Root
      BY <1>3, <3>1
    <3>3. PICK p \in InRound : Parents(n) = {p}
      BY <1>2, <3>2 DEF MembersFacts
    <3>4. p \in Parents(n) /\ Done(p)
      BY <3>1, <3>3
    <3> QED
      BY <1>2, <3>2, <3>4, ChildIsDone
  <2> QED
    BY <2>2
<1>5. InRound = Nodes
  <2>1. InRound \in SUBSET Nodes /\ Root \in InRound
    BY <1>3 DEF InRound, Done, Exchanging
  <2>2. \A n \in InRound : Nbr[n] \subseteq InRound
    BY <1>4 DEF Done, ConvergenceFacts, ExchangeInv, Settled, SettledNode
  <2> QED
    BY <2>1, <2>2 DEF ConvergenceFacts, Ideal, Connected
<1> QED
  BY <1>4, <1>5

LEMMA NothingOnItsWay ==
  ASSUME ConvergenceFacts, has_converged, NEW s \in Nodes, NEW n \in Nodes
  PROVE  unicast[s][n] = << >>
<1> SUFFICES ASSUME unicast[s][n] # << >> PROVE FALSE
  OBVIOUS
<1>1. Settings /\ HeadsOfPast
  BY DEF ConvergenceFacts, Ideal, Settings, RoundInv
<1>2. MembersFacts
  BY <1>1, MembersKnown DEF ConvergenceFacts
<1> DEFINE m == Head(unicast[s][n])
<1>3. s \in Children(n) /\ m \in Message /\ m.kind \in Kinds(unicast[s][n])
  BY <1>2, MessageFrom DEF ConvergenceFacts, ExchangeInv, ExchangeShape
<1>4. m.kind \in {"LOAD", "SHARE"}
  BY <1>3 DEF Message
<1>5. AwaitsNobody(n)
  BY AllAreDone DEF Done
<1> QED
  BY <1>3, <1>4, <1>5 DEF AwaitsNobody, Awaited

\* What the root takes for the end of the exchange is the end.
LEMMA ConvergedIsComplete ==
  ASSUME ConvergenceFacts
  PROVE  ExchangeComplete
<1> SUFFICES ASSUME has_converged PROVE ExchangeComplete
  BY DEF ExchangeComplete
<1>1. \A n, m \in Nodes : unicast[n][m] = << >>
  BY NothingOnItsWay
<1>2. ASSUME NEW n \in Nodes \ {Root}
      PROVE  hlmac_table[n] # << >> /\ last_timestamp[n] = timestamp /\ sent_share[n]
  <2>1. n \in InRound /\ Done(n)
    BY AllAreDone
  <2>2. hlmac_table[n] # << >> /\ HeadEntry(n).timestamp = timestamp
    BY <2>1 DEF InRound
  <2>3. LastTimestampIsHeads
    BY DEF ConvergenceFacts, TreeKnown, TreeInv, Ideal
  <2>4. last_timestamp[n] = HeadEntry(n).timestamp
    BY <2>2, <2>3 DEF LastTimestampIsHeads
  <2> QED
    BY <2>1, <2>2, <2>4 DEF Done
<1> QED
  BY <1>1, <1>2 DEF ExchangeComplete, CommonNodes

\* Nothing is on its way and every common node holds 100, so the root holds
\* the rest of what was drawn.
LEMMA ConvergedIsSurplus ==
  ASSUME ConvergenceFacts, Balance
  PROVE  SurplusAtRoot
<1> SUFFICES ASSUME has_converged PROVE SurplusAtRoot
  BY DEF SurplusAtRoot
<1>1. \A n \in CommonNodes : load[n] = 100
  BY AllAreDone DEF CommonNodes, Done, ConvergenceFacts, ExchangeInv, LeftWith100
<1>2. Travelling(unicast) = 0
  BY NothingOnItsWay, NothingTravels
<1>3. load \in [Nodes -> Int] /\ ledger \in Int
  BY DEF ConvergenceFacts, ExchangeShape, LoadShape
<1>4. IsFiniteSet(Nodes) /\ Root \in Nodes /\ IsFiniteSet(CommonNodes)
  BY AssignmentAssumption, FS_Subset DEF CommonNodes
<1>5. SumFunctionOnSet(load, Nodes) = load[Root] + SumFunctionOnSet(load, CommonNodes)
  BY <1>3, <1>4, SumByElement DEF CommonNodes
<1>6. SumFunctionOnSet(load, CommonNodes) = 100 * Cardinality(CommonNodes)
  BY <1>1, <1>4, SumConstant
<1>7. SumFunction(load) = SumFunctionOnSet(load, Nodes)
  BY <1>3 DEF SumFunction
<1>8. SumFunction(load) + Travelling(unicast) = ledger
  BY DEF Balance
<1>9. load[Root] \in Int /\ Cardinality(CommonNodes) \in Nat
  BY <1>3, <1>4, FS_CardinalityType
<1>10. load[Root] = ledger - 100 * Cardinality(CommonNodes)
  <2> DEFINE x == SumFunction(load)
             y == SumFunctionOnSet(load, CommonNodes)
             z == 100 * Cardinality(CommonNodes)
             w == load[Root]
             v == Travelling(unicast)
  <2>1. x = w + y /\ y = z /\ x + v = ledger /\ v = 0
    BY <1>2, <1>5, <1>6, <1>7, <1>8
  <2>2. w \in Int /\ z \in Int
    BY <1>9
  <2> HIDE DEF x, y, z, w, v
  <2>3. w = ledger - z
    BY <1>3, <2>1, <2>2
  <2> QED
    BY <2>3 DEF w, z
<1> QED
  BY <1>1, <1>10 DEF SurplusAtRoot

-----------------------------------------------------------------------------
\* The inductive invariant of the exchange under ideal conditions.
IdealInv == Ideal => RoundInv /\ ExchangeInv

LEMMA InitIdeal == Init => IdealInv
BY InitRound, InitExchangeInv DEF IdealInv

LEMMA NextIdeal ==
  /\ IdealInv /\ ExchangeShape /\ ExchangeShape' /\ TreeKnown /\ TreeKnown'
  /\ [Next]_vars
  => IdealInv'
<1> SUFFICES ASSUME IdealInv, ExchangeShape, ExchangeShape', TreeKnown, TreeKnown',
                    [Next]_vars, Ideal'
             PROVE  RoundInv' /\ ExchangeInv'
  BY DEF IdealInv
<1>1. Ideal
  BY DEF Ideal, MutualNeighbours, Connected, EveryNeighbourFits, number_of_neighbours,
         EntriesThatFit
<1>2. RoundInv /\ ExchangeInv
  BY <1>1 DEF IdealInv
<1>3. Settings /\ Timely /\ ~Lossy
  BY <1>1 DEF Ideal, Settings
<1>4. RoundInv'
  BY <1>2, <1>3, NextRound
<1>5. ExchangeInv'
  BY <1>1, <1>2, NextExchangeInv
<1> QED
  BY <1>4, <1>5

LEMMA SpecIdeal == Spec => [](ExchangeShape /\ TreeKnown /\ NoParentCycle /\ IdealInv)
<1>1. Spec => []TreeKnown
  BY ImplementsAssignment, SpecUnheard, PTL DEF TreeKnown
<1>2. ExchangeShape /\ TreeKnown /\ [Next]_vars => ExchangeShape'
  BY NextExchange DEF TreeKnown, ShapeInv
<1>3. Spec => []ExchangeShape
  BY <1>1, <1>2, InitExchange, PTL DEF Spec
<1>4. Spec => []IdealInv
  BY <1>1, <1>3, InitIdeal, NextIdeal, PTL DEF Spec
<1> QED
  BY <1>1, <1>3, <1>4, ExchangeHasNoParentCycle, PTL

\* Under ideal conditions, and in every network, the root converges only when
\* all nodes have joined its round, have shared and nothing is on its way: what
\* the CONVERGE of iotorii_handle_incoming_sethlmac_or_load claims.
THEOREM ExchangeIsComplete == Spec => [](Ideal => ExchangeComplete)
<1>1. ExchangeShape /\ TreeKnown /\ NoParentCycle /\ IdealInv => (Ideal => ExchangeComplete)
  BY ConvergedIsComplete DEF ConvergenceFacts, IdealInv
<1> QED
  BY <1>1, SpecIdeal, PTL

\* ... and then every common node is left with 100, and the root has what the
\* others had more, or lacked.
THEOREM SurplusReachesRoot == Spec => [](Ideal => SurplusAtRoot)
<1>1. ExchangeShape /\ TreeKnown /\ NoParentCycle /\ IdealInv /\ LoadConserved
      => (Ideal => SurplusAtRoot)
  <2> SUFFICES ASSUME ExchangeShape, TreeKnown, NoParentCycle, IdealInv, LoadConserved,
                      Ideal
               PROVE  SurplusAtRoot
    OBVIOUS
  <2>1. Balance
    BY BalanceIsConservation DEF Ideal
  <2>2. ConvergenceFacts
    BY DEF ConvergenceFacts, IdealInv
  <2> QED
    BY <2>1, <2>2, ConvergedIsSurplus
<1> QED
  BY <1>1, SpecIdeal, LoadIsConserved, PTL
-----------------------------------------------------------------------------
-----------------------------------------------------------------------------
(***************************************************************************)
(* The flows that parent and child record in the first round.              *)
(***************************************************************************)
\* What the SHAREs of a queue carry.
Carried(q) == {q[i].extra : i \in {j \in 1 .. Len(q) : q[j].kind = "SHARE"}}

\* A child that has shared has recorded what its SHARE carries as an outflow;
\* the parent records the inflow when it takes the SHARE.
PairFlow(sent, q, out, in) ==
  /\ ~sent => out = 0 /\ in = 0
  /\ sent => \/ Carried(q) = {0 - out} /\ in = 0
             \/ Carried(q) = {} /\ out = 0 - in

FlowOf(n, p) == PairFlow(sent_share[n], unicast[n][p], in_out[n][p], in_out[p][n])

FlowsInv ==
  timestamp <= 0 =>
    /\ \A k \in Nodes \ InRound : \A m \in Nodes : in_out[k][m] = 0 /\ in_out[m][k] = 0
    /\ \A n \in InRound : \A p \in Parents(n) : FlowOf(n, p)

LEMMA CarriedKinds ==
  ASSUME NEW q, "SHARE" \notin Kinds(q)
  PROVE  Carried(q) = {}
BY DEF Carried, Kinds

LEMMA CarriedAppended ==
  ASSUME NEW q \in Seq(Message), NEW m \in Message
  PROVE  Carried(q \o <<m>>) =
           IF m.kind = "SHARE" THEN Carried(q) \cup {m.extra} ELSE Carried(q)
<1> DEFINE r == q \o <<m>>
<1>1. /\ Len(q) \in Nat /\ Len(r) = Len(q) + 1 /\ r[Len(q) + 1] = m
      /\ \A i \in 1 .. Len(q) : r[i] = q[i]
  OBVIOUS
<1> HIDE DEF r
<1>2. \A i \in 1 .. Len(r) : i \in 1 .. Len(q) \/ i = Len(q) + 1
  BY <1>1
<1>3. Len(q) + 1 \in 1 .. Len(r) /\ \A i \in 1 .. Len(q) : i \in 1 .. Len(r)
  BY <1>1
<1>4. \A x : x \in Carried(r) <=>
               x \in Carried(q) \/ (m.kind = "SHARE" /\ x = m.extra)
  BY <1>1, <1>2, <1>3 DEF Carried
<1> QED
  BY <1>4 DEF r

LEMMA CarriedPopped ==
  ASSUME NEW q \in Seq(Message), q # << >>
  PROVE  /\ Head(q).kind = "LOAD" => Carried(Tail(q)) = Carried(q)
         /\ Head(q).kind = "SHARE" /\ OneOfEach(q)
              => Carried(q) = {Head(q).extra} /\ Carried(Tail(q)) = {}
<1> DEFINE r == Tail(q)
<1>1. /\ Len(q) \in Nat /\ Len(q) # 0 /\ Head(q) = q[1]
      /\ Len(r) = Len(q) - 1 /\ \A i \in 1 .. Len(r) : r[i] = q[i + 1]
  OBVIOUS
<1> HIDE DEF r
<1>2. /\ 1 \in 1 .. Len(q)
      /\ \A i \in 1 .. Len(r) : i + 1 \in 1 .. Len(q) /\ i + 1 # 1
      /\ \A i \in 1 .. Len(q) : i = 1 \/ \E j \in 1 .. Len(r) : i = j + 1
  <2>1. \A i \in 1 .. Len(q) : i # 1 => i - 1 \in 1 .. Len(r) /\ i = (i - 1) + 1
    BY <1>1
  <2> QED
    BY <1>1, <2>1
<1>3. ASSUME q[1].kind = "LOAD" PROVE Carried(r) = Carried(q)
  <2>1. ASSUME NEW x \in Carried(q) PROVE x \in Carried(r)
    <3>1. PICK i \in 1 .. Len(q) : q[i].kind = "SHARE" /\ q[i].extra = x
      BY DEF Carried
    <3>2. PICK j \in 1 .. Len(r) : i = j + 1
      BY <1>2, <1>3, <3>1
    <3> QED
      BY <1>1, <3>1, <3>2 DEF Carried
  <2>2. \A x : x \in Carried(r) => x \in Carried(q)
    BY <1>1, <1>2 DEF Carried
  <2> QED
    BY <2>1, <2>2
<1>4. ASSUME q[1].kind = "SHARE", OneOfEach(q)
      PROVE  Carried(q) = {q[1].extra} /\ Carried(r) = {}
  <2>1. \A i \in 1 .. Len(q) : q[i].kind = "SHARE" <=> i = 1
    BY <1>2, <1>4 DEF OneOfEach
  <2>2. \A i \in 1 .. Len(r) : r[i].kind # "SHARE"
    BY <1>1, <1>2, <2>1
  <2> QED
    BY <1>2, <2>1, <2>2 DEF Carried
<1> QED
  BY <1>1, <1>3, <1>4 DEF r

LEMMA CarriedBoth ==
  ASSUME NEW held \in Int
  PROVE  Carried(<<Load, Share(held)>>) = {held - 100}
<1> DEFINE r == <<Load, Share(held)>>
<1>1. Len(r) = 2 /\ r[1].kind = "LOAD" /\ r[2].kind = "SHARE" /\ r[2].extra = held - 100
  BY DEF Load, Share
<1> HIDE DEF r
<1>2. \A i \in 1 .. Len(r) : i = 1 \/ i = 2
  BY <1>1
<1>3. 2 \in 1 .. Len(r)
  BY <1>1
<1>4. \A x : x \in Carried(r) <=> x = held - 100
  BY <1>1, <1>2, <1>3 DEF Carried
<1> QED
  BY <1>4 DEF r

-----------------------------------------------------------------------------
\* What a step leaves alone when it has no part in the flows.
KeepsFlows ==
  /\ timestamp' = timestamp /\ InRound' = InRound
  /\ in_out' = in_out /\ unicast' = unicast
  /\ \A n \in InRound : Parents(n)' = Parents(n) /\ sent_share'[n] = sent_share[n]

LEMMA FlowsKept ==
  ASSUME FlowsInv, KeepsFlows
  PROVE  FlowsInv'
<1>1. \A n \in InRound : \A p \in Parents(n) : FlowOf(n, p)' <=> FlowOf(n, p)
  BY DEF KeepsFlows, FlowOf
<1> QED
  BY <1>1 DEF FlowsInv, KeepsFlows

LEMMA FlowsBegun ==
  ASSUME TreeKnown, MembersFacts, FlowsInv, BeginRound, Begun
  PROVE  FlowsInv'
<1> SUFFICES ASSUME timestamp' <= 0 PROVE FlowsInv'
  BY DEF FlowsInv
<1>1. /\ timestamp \in -1 .. MaxRound /\ timestamp' = timestamp + 1
      /\ InRound' = {Root} /\ in_out' = in_out
  BY DEF TreeKnown, ShapeInv, AssignmentTypeOK, Begun, BeginRound
<1>2. timestamp <= 0
  BY <1>1, AssignmentAssumption
<1>3. InRound = {}
  <2> SUFFICES ASSUME NEW n \in InRound PROVE FALSE
    OBVIOUS
  <2>1. n \in Nodes /\ hlmac_table[n] # << >> /\ HeadEntry(n).timestamp = timestamp
    BY DEF InRound
  <2>2. HeadEntry(n).timestamp \in 0 .. MaxRound
    BY <2>1, HeadType DEF TreeKnown, ShapeInv
  <2> QED
    BY <1>1, <2>1, <2>2, AssignmentAssumption
<1>4. \A k, m \in Nodes : in_out[k][m] = 0
  BY <1>2, <1>3 DEF FlowsInv
<1>5. Parents(Root)' = {}
  BY DEF Begun, Parents
<1> QED
  BY <1>1, <1>4, <1>5, AssignmentAssumption DEF FlowsInv

LEMMA FlowsTaken ==
  ASSUME Settings, TreeKnown, TrafficFacts, MembersFacts, RoundInv, ExchangeShape,
         FlowsInv, NEW o \in offers, TakeAddress(o), Taken(o)
  PROVE  FlowsInv'
<1> DEFINE n == o.to
<1>1. n \in Nodes /\ n \notin InRound /\ o.from \in InRound /\ o.from \in Nodes
  BY DEF TrafficFacts, Taken, MembersFacts
<1>2. NewRound(o)
  BY <1>1, TakenIsNew
<1>3. /\ ~sent_share'[n] /\ \A k \in Nodes \ {n} : sent_share'[k] = sent_share[k]
      /\ in_out' = in_out /\ unicast' = unicast /\ timestamp' = timestamp
  BY <1>1, <1>2 DEF TakeAddress, ExchangeShape, FlagShape, Taken
<1>4. /\ InRound' = InRound \cup {n} /\ Parents(n)' = {o.from}
      /\ \A k \in Nodes \ {n} : Parents(k)' = Parents(k)
  BY <1>1, TakenKeeps
<1> SUFFICES ASSUME timestamp <= 0 PROVE FlowsInv'
  BY <1>3 DEF FlowsInv
<1>5. FlowOf(n, o.from)'
  BY <1>1, <1>3 DEF FlowsInv, FlowOf, PairFlow
<1>6. ASSUME NEW k \in InRound, NEW p \in Parents(k) PROVE FlowOf(k, p)'
  <2>1. FlowOf(k, p) /\ k \in Nodes \ {n}
    BY <1>1 DEF FlowsInv, InRound
  <2> QED
    BY <1>3, <2>1 DEF FlowOf
<1>7. \A k \in InRound : k \in Nodes \ {n}
  BY <1>1 DEF InRound
<1> QED
  BY <1>3, <1>4, <1>5, <1>6, <1>7 DEF FlowsInv

LEMMA FlowsSent ==
  ASSUME FlowsInv, NEW n \in Nodes, Sent(n), UNCHANGED loadVars
  PROVE  FlowsInv'
<1>1. KeepsFlows
  BY DEF Sent, loadVars, KeepsFlows, InRound, HeadEntry, Parents
<1> QED
  BY <1>1, FlowsKept

LEMMA FlowsLeft ==
  ASSUME MembersFacts, FlowsInv, NEW o \in offers, LeaveAddress(o), Left(o)
  PROVE  FlowsInv'
<1>1. /\ InRound' = InRound /\ timestamp' = timestamp
      /\ in_out' = in_out /\ unicast' = unicast /\ sent_share' = sent_share
      /\ \A k \in Nodes : Parents(k)' = Parents(k)
  BY LeftKeeps DEF LeaveAddress, Left
<1>2. KeepsFlows
  BY <1>1 DEF KeepsFlows, MembersFacts
<1> QED
  BY <1>2, FlowsKept

-----------------------------------------------------------------------------
\* A parent of n is not a child of it.
LEMMA ParentIsNoChild ==
  ASSUME MembersFacts, RoundInv, NEW n \in InRound, NEW k \in InRound, n \in Parents(k)
  PROVE  k \notin Parents(n)
BY DEF RoundInv, ChildrenUnheard, Parents

LEMMA LoadFlows ==
  ASSUME MembersFacts, RoundInv, ExchangeShape, ExchangeInv, FlowsInv,
         NEW s \in Nodes, NEW n \in Nodes, ReceiveLoad(s, n)
  PROVE  FlowsInv'
<1> DEFINE left  == n_hijos_load[n] - (IF Counts(s, n, n_hijos_load) THEN 1 ELSE 0)
           sends == /\ n # Root /\ s \in Nbr[n]
                    /\ ~edge[n] /\ ~sent_load[n] /\ left = 0
<1>1. LoadShape /\ ParentsFirst /\ EdgeChildless /\ MessagesInv
  BY DEF ExchangeShape, ExchangeInv
<1>2. /\ unicast[s][n] # << >> /\ Head(unicast[s][n]).kind = "LOAD"
      /\ unicast' = [Popped(s, n) EXCEPT ![n] =
           IF sends THEN SentToParents(n, <<Load>>) ELSE Popped(s, n)[n]]
      /\ UNCHANGED assignmentVars /\ UNCHANGED statistic_timer
      /\ sent_share' = sent_share /\ in_out' = in_out
  BY DEF ReceiveLoad
<1>3. s # n
  BY <1>1, <1>2, MessageFrom
<1>4. /\ timestamp' = timestamp /\ InRound' = InRound
      /\ \A k : Parents(k)' = Parents(k)
  BY <1>2, RoundStays DEF assignmentVars
<1> HIDE DEF sends
<1>5. \E b \in BOOLEAN : PassedOn(s, n, b, Load)
  <2>1. Load \in Message
    BY MessagesMade
  <2>2. Popped(s, n) \in [Nodes -> [Nodes -> Seq(Message)]]
    BY <1>1, <1>2, HeadTyped
  <2>3. CASE sends
    <3>1. unicast' = [Popped(s, n) EXCEPT ![n] = SentToParents(n, <<Load>>)]
      BY <1>2, <2>3
    <3>2. PassedOn(s, n, TRUE, Load)
      BY <1>1, <1>3, <2>1, <3>1, QueuesPassedOn
    <3> QED
      BY <3>2
  <2>4. CASE ~sends
    <3>1. unicast' = [Popped(s, n) EXCEPT ![n] = Popped(s, n)[n]]
      BY <1>2, <2>4
    <3>2. unicast' = Popped(s, n)
      BY <2>2, <3>1
    <3>3. PassedOn(s, n, FALSE, Load)
      BY <1>1, <1>3, <2>1, <3>2, QueuesPassedOn
    <3> QED
      BY <3>3
  <2> QED
    BY <2>3, <2>4
<1>6. ASSUME NEW k \in Nodes, NEW m \in Nodes
      PROVE  Carried(unicast'[k][m]) = Carried(unicast[k][m])
  <2>1. unicast[k][m] \in Seq(Message) /\ unicast[s][n] \in Seq(Message)
    BY <1>1 DEF LoadShape
  <2>2. \/ unicast'[k][m] = unicast[k][m]
        \/ unicast'[k][m] = unicast[k][m] \o <<Load>>
        \/ k = s /\ m = n /\ unicast'[k][m] = Tail(unicast[s][n])
    BY <1>5 DEF PassedOn
  <2>3. CASE unicast'[k][m] = unicast[k][m] \o <<Load>>
    <3>1. Load \in Message /\ Load.kind # "SHARE"
      BY MessagesMade DEF Load
    <3> QED
      BY <2>1, <2>3, <3>1, CarriedAppended
  <2>4. CASE k = s /\ m = n /\ unicast'[k][m] = Tail(unicast[s][n])
    BY <1>2, <2>1, <2>4, CarriedPopped
  <2> QED
    BY <2>2, <2>3, <2>4
<1> SUFFICES ASSUME timestamp <= 0 PROVE FlowsInv'
  BY <1>4 DEF FlowsInv
<1>7. ASSUME NEW k \in InRound, NEW p \in Parents(k) PROVE FlowOf(k, p)'
  <2>1. FlowOf(k, p) /\ k \in Nodes /\ p \in Nodes
    BY DEF FlowsInv, MembersFacts
  <2>2. Carried(unicast'[k][p]) = Carried(unicast[k][p])
    BY <1>6, <2>1
  <2> QED
    BY <1>2, <2>1, <2>2 DEF FlowOf, PairFlow
<1> QED
  BY <1>2, <1>4, <1>7 DEF FlowsInv

LEMMA TimerFlows ==
  ASSUME Timely, TreeKnown, MembersFacts, RoundInv, ExchangeShape, ExchangeInv,
         FlowsInv, NEW n \in Nodes, HandleStatisticTimer(n)
  PROVE  FlowsInv'
<1> DEFINE isEdge == n # Root /\ number_of_neighbours_flag[n] = 0
<1>1. LoadShape /\ FlagShape /\ UnsentBefore /\ MessagesInv
  BY DEF ExchangeShape, ExchangeInv
<1>2. /\ n \in InRound /\ n \notin Exchanging
  BY FiredSettled
<1>3. /\ statistic_timer[n] /\ UNCHANGED assignmentVars
      /\ sent_share' = [sent_share EXCEPT ![n] = sent_share[n] \/ isEdge]
      /\ \/ isEdge /\ in_out' = [in_out EXCEPT ![n] = FlowsAfterShare(n, load[n], in_out[n])]
         \/ ~isEdge /\ in_out' = in_out
  BY DEF HandleStatisticTimer
<1>4. \A m \in Nodes : unicast[n][m] = << >>
  BY <1>1, <1>2 DEF MessagesInv, MessagesOf
<1>5. FirstWords(n, isEdge)
  BY <1>1, <1>4, TimerSends
<1>6. /\ timestamp' = timestamp /\ InRound' = InRound
      /\ \A k : Parents(k)' = Parents(k)
  <2>1. /\ timestamp' = timestamp /\ hlmac_table' = hlmac_table /\ flag' = flag
    BY <1>3 DEF assignmentVars
  <2> QED
    BY <2>1 DEF InRound, HeadEntry, Parents
<1> HIDE DEF isEdge
<1>7. /\ \A k \in Nodes \ {n} : sent_share'[k] = sent_share[k]
      /\ sent_share'[n] <=> sent_share[n] \/ isEdge
  BY <1>1, <1>3 DEF FlagShape
<1>8. \A k, m \in Nodes :
        in_out'[k][m] = IF isEdge /\ k = n /\ m \in Parents(n) THEN 100 - load[n]
                        ELSE in_out[k][m]
  <2> DEFINE f == FlowsAfterShare(n, load[n], in_out[n])
  <2>1. \A m \in Nodes :
          f[m] = IF m \in Parents(n) THEN 100 - load[n] ELSE in_out[n][m]
    BY DEF FlowsAfterShare
  <2>2. DOMAIN in_out = Nodes
    BY <1>1 DEF LoadShape
  <2> HIDE DEF f
  <2>3. CASE isEdge /\ in_out' = [in_out EXCEPT ![n] = f]
    <3>1. in_out'[n] = f /\ \A k \in Nodes \ {n} : in_out'[k] = in_out[k]
      BY <2>2, <2>3
    <3> QED
      BY <2>1, <2>3, <3>1
  <2>4. CASE ~isEdge /\ in_out' = in_out
    BY <2>4
  <2> QED
    BY <1>3, <2>3, <2>4 DEF f
<1> SUFFICES ASSUME timestamp <= 0 PROVE FlowsInv'
  BY <1>6 DEF FlowsInv
<1>9. ASSUME NEW k \in Nodes \ InRound, NEW m \in Nodes
      PROVE  in_out'[k][m] = 0 /\ in_out'[m][k] = 0
  <2>1. k # n /\ k \notin Parents(n)
    BY <1>2 DEF MembersFacts
  <2> QED
    BY <1>8, <2>1 DEF FlowsInv
<1>10. ASSUME NEW k \in InRound, NEW p \in Parents(k) PROVE FlowOf(k, p)'
  <2>1. FlowOf(k, p) /\ k \in Nodes /\ p \in Nodes /\ k # Root /\ k # p /\ p \in InRound
    BY DEF FlowsInv, MembersFacts
  <2>2. in_out'[p][k] = in_out[p][k]
    <3>1. p = n => k \notin Parents(n)
      BY <2>1, ParentIsNoChild
    <3> QED
      BY <1>8, <2>1, <3>1
  <2>3. CASE k = n /\ isEdge
    <3>1. ~sent_share[n]
      BY <1>1, <1>2, <1>3, <2>1, <2>3 DEF UnsentBefore
    <3>2. in_out[p][n] = 0
      BY <2>1, <2>3, <3>1 DEF FlowOf, PairFlow
    <3>3. in_out'[n][p] = 100 - load[n] /\ sent_share'[n]
      BY <1>7, <1>8, <2>1, <2>3
    <3>4. unicast'[n][p] = <<Load, Share(load[n])>>
      BY <1>5, <2>1, <2>3 DEF FirstWords
    <3>5. load[n] \in Int
      BY <1>1 DEF LoadShape
    <3>6. Carried(unicast'[n][p]) = {load[n] - 100}
      BY <3>4, <3>5, CarriedBoth
    <3>7. load[n] - 100 = 0 - (100 - load[n])
      BY <3>5
    <3> QED
      BY <2>2, <2>3, <3>2, <3>3, <3>6, <3>7 DEF FlowOf, PairFlow
  <2>4. CASE ~ (k = n /\ isEdge)
    <3>1. unicast'[k][p] = unicast[k][p] /\ in_out'[k][p] = in_out[k][p]
      BY <1>5, <1>8, <2>1, <2>4 DEF FirstWords
    <3>2. sent_share'[k] <=> sent_share[k]
      BY <1>7, <2>1, <2>4
    <3> QED
      BY <2>1, <2>2, <3>1, <3>2 DEF FlowOf, PairFlow
  <2> QED
    BY <2>3, <2>4
<1> QED
  BY <1>6, <1>9, <1>10 DEF FlowsInv


\* What n holds in in_out when it has taken the SHARE of s and perhaps shared
\* in its turn.
FlowsTold(s, n, sends, extra, held) ==
  \A k, m \in Nodes :
    in_out'[k][m] = IF k = n /\ sends /\ m \in Parents(n) THEN 100 - held
                    ELSE IF k = n /\ m = s THEN extra
                    ELSE in_out[k][m]

LEMMA FlowsOfShare ==
  ASSUME LoadShape, NEW s \in Nodes, NEW n \in Nodes, s \in Nbr[n], in_out[n][s] = 0,
         NEW extra, NEW held, NEW sends \in BOOLEAN,
         \/ sends /\ in_out' = [in_out EXCEPT ![n] =
                                  FlowsAfterShare(n, held, FlowsAfterReceipt(s, n, extra))]
         \/ ~sends /\ in_out' = [in_out EXCEPT ![n] = FlowsAfterReceipt(s, n, extra)]
  PROVE  FlowsTold(s, n, sends, extra, held)
<1> DEFINE f == FlowsAfterReceipt(s, n, extra)
           g == FlowsAfterShare(n, held, f)
<1>1. DOMAIN in_out = Nodes
  BY DEF LoadShape
<1>2. \A m \in Nodes : f[m] = IF m = s THEN extra ELSE in_out[n][m]
  BY DEF FlowsAfterReceipt
<1> HIDE DEF f
<1>3. \A m \in Nodes : g[m] = IF m \in Parents(n) THEN 100 - held ELSE f[m]
  BY DEF FlowsAfterShare
<1> HIDE DEF g
<1>4. CASE sends /\ in_out' = [in_out EXCEPT ![n] = g]
  <2>1. in_out'[n] = g /\ \A k \in Nodes \ {n} : in_out'[k] = in_out[k]
    BY <1>1, <1>4
  <2> QED
    BY <1>2, <1>3, <1>4, <2>1 DEF FlowsTold
<1>5. CASE ~sends /\ in_out' = [in_out EXCEPT ![n] = f]
  <2>1. in_out'[n] = f /\ \A k \in Nodes \ {n} : in_out'[k] = in_out[k]
    BY <1>1, <1>5
  <2> QED
    BY <1>2, <1>5, <2>1 DEF FlowsTold
<1> QED
  BY <1>4, <1>5 DEF f, g

LEMMA ShareFlows ==
  ASSUME MembersFacts, RoundInv, ExchangeShape, ExchangeInv, FlowsInv,
         NEW s \in Nodes, NEW n \in Nodes, ReceiveShare(s, n)
  PROVE  FlowsInv'
<1> DEFINE extra == Head(unicast[s][n]).extra
           held  == load[n] + extra
           sends == n # Root /\ n_hijos_share[n] = 1 /\ ~sent_share[n]
           msg   == Share(held)
<1>1. /\ LoadShape /\ FlagShape /\ ParentsFirst /\ EdgeChildless /\ MessagesInv
      /\ CountsAwaited("SHARE", n_hijos_share, sent_share, unicast)
  BY DEF ExchangeShape, ExchangeInv, CountInv
<1>2. /\ unicast[s][n] # << >> /\ Head(unicast[s][n]).kind = "SHARE"
      /\ ShareCounts(s, n, extra) \/ ShareIgnored(s, n, extra)
      /\ UNCHANGED assignmentVars /\ UNCHANGED statistic_timer
  BY DEF ReceiveShare
<1>3. /\ s \in InRound /\ n \in InRound /\ s # n /\ s # Root
      /\ n \in Parents(s) /\ s \in Nbr[n] /\ s \in Children(n) /\ ~edge[n]
      /\ "SHARE" \in Kinds(unicast[s][n])
  BY <1>1, <1>2, MessageFrom DEF Exchanging
<1>4. sent_share[s] /\ OneOfEach(unicast[s][n])
  BY <1>1, <1>3 DEF MessagesInv, MessagesOf
<1>5. n_hijos_share[n] # 0
  <2>1. s \in Awaited(n, "SHARE", sent_share, unicast)
    BY <1>3 DEF Awaited
  <2>2. Cardinality(Awaited(n, "SHARE", sent_share, unicast)) # 0
    BY <2>1, AwaitedCount, FS_EmptySet
  <2>3. n \in Exchanging
    BY <1>1, <1>2, MessageFrom
  <2> QED
    BY <1>1, <2>2, <2>3 DEF CountsAwaited
<1>6. ShareCounts(s, n, extra)
  BY <1>2, <1>3, <1>5 DEF ShareIgnored, Counts
<1>7. /\ sent_share' = [sent_share EXCEPT ![n] = sent_share[n] \/ sends]
      /\ \/ sends /\ unicast' = [Popped(s, n) EXCEPT ![n] = SentToParents(n, <<msg>>)]
         \/ ~sends /\ unicast' = Popped(s, n)
      /\ \/ sends /\ in_out' = [in_out EXCEPT ![n] =
                                  FlowsAfterShare(n, held, FlowsAfterReceipt(s, n, extra))]
         \/ ~sends /\ in_out' = [in_out EXCEPT ![n] = FlowsAfterReceipt(s, n, extra)]
  BY <1>6 DEF ShareCounts
<1>8. /\ timestamp' = timestamp /\ InRound' = InRound
      /\ \A k : Parents(k)' = Parents(k)
  BY <1>2, RoundStays DEF assignmentVars
<1>9. held \in Int /\ msg \in Message /\ msg.kind = "SHARE" /\ msg.extra = held - 100
  <2>1. load[n] \in Int /\ extra \in Int
    BY <1>1, <1>2, HeadTyped DEF LoadShape
  <2> HIDE DEF extra
  <2>2. held \in Int
    BY <2>1
  <2> HIDE DEF held
  <2> QED
    BY <2>2, MessagesMade DEF Share
<1>10. sends \in BOOLEAN /\ (sends => ~sent_share[n])
  OBVIOUS
<1> HIDE DEF sends, msg, held
<1>11. PassedOn(s, n, sends, msg)
  BY <1>1, <1>3, <1>7, <1>9, <1>10, QueuesPassedOn
<1>12. /\ \A k \in Nodes \ {n} : sent_share'[k] = sent_share[k]
       /\ sent_share'[n] <=> sent_share[n] \/ sends
  BY <1>1, <1>7 DEF FlagShape
<1> SUFFICES ASSUME timestamp <= 0 PROVE FlowsInv'
  BY <1>8 DEF FlowsInv
<1>13. unicast[s][n] \in Seq(Message) /\ Carried(unicast[s][n]) = {extra}
       /\ Carried(Tail(unicast[s][n])) = {}
  <2>1. unicast[s][n] \in Seq(Message)
    BY <1>1 DEF LoadShape
  <2> QED
    BY <1>2, <1>4, <2>1, CarriedPopped
<1>14. FlowOf(s, n)
  BY <1>3 DEF FlowsInv
<1> HIDE DEF extra
<1>15. extra = 0 - in_out[s][n] /\ in_out[n][s] = 0 /\ in_out[s][n] \in Int
  BY <1>1, <1>4, <1>13, <1>14 DEF FlowOf, PairFlow, LoadShape
<1>16. FlowsTold(s, n, sends, extra, held)
  BY <1>1, <1>3, <1>7, <1>10, <1>15, FlowsOfShare DEF extra
<1>17. s \notin Parents(n)
  BY <1>3, ParentIsNoChild
<1>18. ASSUME NEW k \in Nodes \ InRound, NEW m \in Nodes
       PROVE  in_out'[k][m] = 0 /\ in_out'[m][k] = 0
  <2>1. k # n /\ k # s /\ k \notin Parents(n)
    BY <1>3 DEF MembersFacts
  <2> QED
    BY <1>16, <2>1 DEF FlowsInv, FlowsTold
<1>19. ASSUME NEW k \in InRound, NEW p \in Parents(k) PROVE FlowOf(k, p)'
  <2>1. FlowOf(k, p) /\ k \in Nodes /\ p \in Nodes /\ k # p /\ p \in InRound
    BY DEF FlowsInv, MembersFacts
  <2>2. CASE k = s
    <3>1. p = n
      BY <1>3, <2>2 DEF MembersFacts
    <3>2. sent_share'[s] /\ unicast'[s][n] = Tail(unicast[s][n])
      BY <1>3, <1>4, <1>11, <1>12 DEF PassedOn
    <3>3. in_out'[s][n] = in_out[s][n] /\ in_out'[n][s] = extra
      BY <1>3, <1>16, <1>17 DEF FlowsTold
    <3>4. in_out[s][n] = 0 - extra
      BY <1>15
    <3> QED
      BY <1>13, <2>2, <3>1, <3>2, <3>3, <3>4 DEF FlowOf, PairFlow
  <2>3. CASE k = n
    <3>1. p # s /\ in_out'[p][n] = in_out[p][n]
      BY <1>16, <1>17, <2>1, <2>3 DEF FlowsTold
    <3>2. CASE sends
      <4>1. ~sent_share[n] /\ sent_share'[n]
        BY <1>10, <1>12, <3>2
      <4>2. in_out[p][n] = 0
        BY <2>1, <2>3, <4>1 DEF FlowOf, PairFlow
      <4>3. Carried(unicast[n][p]) = {} /\ unicast[n][p] \in Seq(Message)
        BY <1>1, <2>1, <4>1, CarriedKinds DEF MessagesInv, MessagesOf, LoadShape
      <4>4. unicast'[n][p] = unicast[n][p] \o <<msg>>
        BY <1>11, <2>1, <2>3, <3>2 DEF PassedOn
      <4>5. Carried(unicast'[n][p]) = {held - 100}
        <5>1. Carried(unicast[n][p] \o <<msg>>) = Carried(unicast[n][p]) \cup {msg.extra}
          BY <1>9, <4>3, CarriedAppended
        <5> QED
          BY <1>9, <4>3, <4>4, <5>1
      <4>6. in_out'[n][p] = 100 - held
        BY <1>16, <2>1, <2>3, <3>2 DEF FlowsTold
      <4>7. held - 100 = 0 - (100 - held)
        BY <1>9
      <4> QED
        BY <2>3, <3>1, <4>1, <4>2, <4>5, <4>6, <4>7 DEF FlowOf, PairFlow
    <3>3. CASE ~sends
      <4>1. unicast'[n][p] = unicast[n][p] /\ in_out'[n][p] = in_out[n][p]
        BY <1>3, <1>11, <1>16, <2>1, <3>1, <3>3 DEF PassedOn, FlowsTold
      <4>2. sent_share'[n] <=> sent_share[n]
        BY <1>12, <3>3
      <4> QED
        BY <2>1, <2>3, <3>1, <4>1, <4>2 DEF FlowOf, PairFlow
    <3> QED
      BY <3>2, <3>3
  <2>4. CASE k # s /\ k # n
    <3>1. p = n => k \notin Parents(n)
      BY <2>1, ParentIsNoChild
    <3>2. in_out'[k][p] = in_out[k][p] /\ in_out'[p][k] = in_out[p][k]
      BY <1>16, <2>1, <2>4, <3>1 DEF FlowsTold
    <3>3. unicast'[k][p] = unicast[k][p] /\ sent_share'[k] = sent_share[k]
      BY <1>11, <1>12, <2>1, <2>4 DEF PassedOn
    <3> QED
      BY <2>1, <3>2, <3>3 DEF FlowOf, PairFlow
  <2> QED
    BY <2>2, <2>3, <2>4
<1> QED
  BY <1>8, <1>18, <1>19 DEF FlowsInv


LEMMA NextFlows ==
  ASSUME Ideal, TreeKnown, TreeKnown', RoundInv, ExchangeShape, ExchangeInv, FlowsInv,
         [Next]_vars
  PROVE  FlowsInv'
<1>1. Settings /\ Timely /\ ~Lossy /\ ShapeInv'
  BY DEF Ideal, Settings, TreeKnown
<1>2. MembersFacts /\ TrafficFacts /\ HeadsOfPast
  BY <1>1, MembersKnown, TrafficKnown DEF RoundInv
<1>3. CASE BeginRound
  <2>1. Begun
    BY <1>1, <1>2, <1>3, RootBegins
  <2> QED
    BY <1>2, <1>3, <2>1, FlowsBegun
<1>4. ASSUME NEW n \in Nodes, BroadcastSetHlmac(n) PROVE FlowsInv'
  <2>1. Sent(n)
    BY <1>1, <1>4, SetHlmacSent
  <2>2. UNCHANGED loadVars
    BY <1>4 DEF BroadcastSetHlmac
  <2> QED
    BY <2>1, <2>2, FlowsSent
<1>5. ASSUME NEW o \in offers, TakeAddress(o) PROVE FlowsInv'
  <2>1. AcceptOffer(o)
    BY <1>5 DEF TakeAddress
  <2>2. Taken(o)
    BY <1>1, <2>1, AddressTaken
  <2> QED
    BY <1>1, <1>2, <1>5, <2>2, FlowsTaken
<1>6. ASSUME NEW o \in offers, LeaveAddress(o) PROVE FlowsInv'
  <2>1. RefuseOffer(o) \/ DisregardOffer(o)
    BY <1>6 DEF LeaveAddress
  <2>2. Left(o)
    BY <1>1, <2>1, OfferLeft
  <2> QED
    BY <1>2, <1>6, <2>2, FlowsLeft
<1>7. ASSUME NEW o \in offers, LoseFrame(o) PROVE FALSE
  BY <1>1, <1>7 DEF LoseFrame
<1>8. ASSUME NEW n \in Nodes, HandleStatisticTimer(n) PROVE FlowsInv'
  BY <1>1, <1>2, <1>8, TimerFlows
<1>9. ASSUME NEW s \in Nodes, NEW n \in Nodes, ReceiveLoad(s, n) \/ ReceiveShare(s, n)
      PROVE  FlowsInv'
  BY <1>2, <1>9, LoadFlows, ShareFlows
<1>10. ASSUME NEW s \in Nodes, NEW n \in Nodes, LoseMessage(s, n) \/ RepeatMessage(s, n)
       PROVE  FALSE
  BY <1>1, <1>10 DEF LoseMessage, RepeatMessage
<1>11. CASE UNCHANGED vars
  <2>1. KeepsFlows
    BY <1>11 DEF vars, loadVars, assignmentVars, KeepsFlows, InRound, HeadEntry, Parents
  <2> QED
    BY <2>1, FlowsKept
<1> QED
  BY <1>3, <1>4, <1>5, <1>6, <1>7, <1>8, <1>9, <1>10, <1>11 DEF Next, HandleOffer, HandleMessage

LEMMA ConvergedFlowsMatch ==
  ASSUME ConvergenceFacts, FlowsInv
  PROVE  FirstFlowsMatch
<1> SUFFICES ASSUME timestamp = 0, has_converged, NEW n \in CommonNodes, NEW p \in Parents(n)
             PROVE  in_out[n][p] = -in_out[p][n]
  BY DEF FirstFlowsMatch, FlowsMatch
<1>1. n \in Nodes /\ p \in Nodes
  BY DEF CommonNodes, Parents
<1>2. n \in InRound /\ Done(n) /\ n # Root
  BY <1>1, AllAreDone DEF CommonNodes
<1>3. unicast[n][p] = << >>
  BY <1>1, NothingOnItsWay
<1>4. Carried(unicast[n][p]) = {}
  BY <1>3, KindsEmpty, CarriedKinds
<1>5. FlowOf(n, p) /\ sent_share[n]
  BY <1>2 DEF FlowsInv, Done
<1>6. in_out[n][p] = 0 - in_out[p][n] /\ in_out[p][n] \in Int
  BY <1>1, <1>4, <1>5 DEF FlowOf, PairFlow, ConvergenceFacts, ExchangeShape, LoadShape
<1> QED
  BY <1>6

\* Under ideal conditions, when the first round converges, every node and its
\* parent have recorded the same flow between them.
THEOREM FirstFlowsAgree == Spec => [](Ideal => FirstFlowsMatch)
<1>1. Init => FlowsInv
  BY DEF Init, AssignmentInit, FlowsInv, InRound
<1>2. /\ ExchangeShape /\ TreeKnown /\ NoParentCycle /\ IdealInv /\ (Ideal => FlowsInv)
      /\ TreeKnown' /\ [Next]_vars
      => (Ideal => FlowsInv)'
  <2> SUFFICES ASSUME ExchangeShape, TreeKnown, TreeKnown', IdealInv, Ideal => FlowsInv, [Next]_vars,
                      Ideal'
               PROVE  FlowsInv'
    OBVIOUS
  <2>1. Ideal
    BY DEF Ideal, MutualNeighbours, Connected, EveryNeighbourFits, number_of_neighbours,
           EntriesThatFit
  <2> QED
    BY <2>1, NextFlows DEF IdealInv
<1>3. /\ ExchangeShape /\ TreeKnown /\ NoParentCycle /\ IdealInv /\ (Ideal => FlowsInv)
      => (Ideal => FirstFlowsMatch)
  BY ConvergedFlowsMatch DEF ConvergenceFacts, IdealInv
<1>4. Spec => [](Ideal => FlowsInv)
  BY <1>1, <1>2, SpecIdeal, PTL DEF Spec
<1> QED
  BY <1>3, <1>4, SpecIdeal, PTL
=============================================================================
