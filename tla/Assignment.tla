----------------------------- MODULE Assignment -----------------------------
(***************************************************************************)
(* HLMAC assignment in a network of IoTorii nodes (iotorii-csma.c,         *)
(* broadcast build): the root starts a round, every node that takes an     *)
(* address out of a SetHLMAC offers an extension of it to its neighbours.  *)
(*                                                                         *)
(* The neighbour tables are the ones discovery has built (Neighbours); they*)
(* do not change during a run.  A broadcast is one message for each        *)
(* neighbour it lists: a node that is not listed ignores it.  Messages of  *)
(* this module may be lost, delayed and overtaken without bound.           *)
(***************************************************************************)
EXTENDS HlmacAddr, FiniteSets

CONSTANTS
  Nodes, Root,
  Nbr,             \* Nbr[n]: the neighbours in the table of n
  number_id,       \* number_id[n][m]: the id in that table of m \in Nbr[n]
  MacPayloads,     \* what max_payl() may return, bytes: it measures the
                   \* header for whatever packet the packetbuf holds
  AddrSize,        \* ADDR_SIZE, bytes
  MaxRound,        \* bound: the last timestamp the root uses
  FreedIntact      \* TRUE: the freed buffers the HLMAC table still points to
                   \* keep their bytes; FALSE: they may hold anything

ASSUME AssignmentAssumption ==
  /\ IsFiniteSet(Nodes) /\ Root \in Nodes
  /\ Nbr \in [Nodes -> SUBSET Nodes]
  /\ \A n \in Nodes : n \notin Nbr[n]
  /\ number_id \in [Nodes -> [Nodes -> Nat]]
  /\ MacPayloads \subseteq Nat /\ AddrSize \in Nat
  /\ MaxRound \in Nat
  /\ FreedIntact \in BOOLEAN

VARIABLES
  timestamp,                  \* the root's round counter, -1 before the first
  last_timestamp,             \* [n]: round of the last accepted address
  hlmac_table,                \* [n]: the HLMAC table
  flag,                       \* [n][m]: 1 m is parent, -1 m offered an address
                              \* that was refused, 0 nothing came from m
  number_of_neighbours_flag,  \* [n]: neighbours no HLMAC was received from
  payload_entry_list,         \* [n]: SetHLMAC payloads waiting for the timer
  send_sethlmac_timer,        \* [n]: TRUE iff that ctimer is armed
  offers,                     \* SetHLMAC messages on their way
  assigned                    \* history: every address ever accepted

assignmentVars ==
  <<timestamp, last_timestamp, hlmac_table, flag, number_of_neighbours_flag,
    payload_entry_list, send_sethlmac_timer, offers, assigned>>

number_of_neighbours(n) == Cardinality(Nbr[n])

\* The neighbours n takes for its parents.
Parents(n) == {p \in Nodes : flag[n][p] = 1}

AssignmentInit ==
  /\ timestamp = -1
  /\ last_timestamp = [n \in Nodes |-> 0]
  /\ hlmac_table = [n \in Nodes |-> << >>]
  /\ flag = [n \in Nodes |-> [m \in Nodes |-> 0]]
  /\ number_of_neighbours_flag = [n \in Nodes |-> 0]
  /\ payload_entry_list = [n \in Nodes |-> << >>]
  /\ send_sethlmac_timer = [n \in Nodes |-> FALSE]
  /\ offers = {}
  /\ assigned = {}

-----------------------------------------------------------------------------
EntriesWithoutTimestamp(len, mac) ==   \* mutant: the loop forgets it as well
  LET room == (mac - (1 + len)) \div (AddrSize + 1)
  IN  IF mac < len + 2 + AddrSize THEN 0 ELSE IF room < 1 THEN 1 ELSE room

\* Entries of one SetHLMAC in a buffer of mac bytes: the first one is written
\* if it passes a test that forgets the timestamp, more as long as they fit (a
\* do-while).
EntriesThatFit(len, mac) ==
  LET room == (mac - (5 + len)) \div (AddrSize + 1)
  IN  IF mac < len + 2 + AddrSize THEN 0 ELSE IF room < 1 THEN 1 ELSE room

\* The neighbours that get an entry: all but the sender, or, when they do not
\* all fit, any of them (the order is random).
RecipientChoices(n, addr, sender, mac) ==
  LET others == Nbr[n] \ {sender}
      fit    == EntriesThatFit(Len(addr), mac)
  IN  {R \in SUBSET others :
         Cardinality(R) = IF Cardinality(others) < fit
                          THEN Cardinality(others) ELSE fit}

\* The part of iotorii_send_sethlmac that queues the payload: no payload
\* without recipients; the timer is armed when the queue was empty.
QueueSetHlmac(n, addr, sender, ts) ==
  \E mac \in MacPayloads : \E R \in RecipientChoices(n, addr, sender, mac) :
    \/ /\ R = {}
       /\ UNCHANGED <<payload_entry_list, send_sethlmac_timer>>
    \/ /\ R # {}
       /\ payload_entry_list' = [payload_entry_list EXCEPT ![n] =
            Append(@, [timestamp |-> ts, prefix |-> addr, to |-> R, size |-> mac])]
       /\ send_sethlmac_timer' = [send_sethlmac_timer EXCEPT ![n] =
            @ \/ payload_entry_list[n] = << >>]

-----------------------------------------------------------------------------
(***************************************************************************)
(* iotorii_handle_sethlmac_timer of the root: a new round.  The root does  *)
(* not record the round in last_timestamp.                                 *)
(***************************************************************************)
StartRound ==
  LET addr == hlmac_create_root_addr(1) IN
  /\ timestamp < MaxRound
  /\ timestamp' = timestamp + 1
  /\ hlmac_table' = [hlmac_table EXCEPT ![Root] =
       hlmactable_add(@, addr, timestamp + 1)]
  /\ QueueSetHlmac(Root, addr, Root, timestamp + 1)
  /\ flag' = [flag EXCEPT ![Root] = [m \in Nodes |-> 0]]
  /\ number_of_neighbours_flag' =
       [number_of_neighbours_flag EXCEPT ![Root] = number_of_neighbours(Root)]
  /\ assigned' = assigned \cup
       {[node |-> Root, timestamp |-> timestamp + 1, address |-> addr]}
  /\ UNCHANGED <<last_timestamp, offers>>

FrameOfNextRound(n, payload) ==   \* mutant: the timestamp grows on the way
  {[from |-> n, to |-> m, timestamp |-> payload.timestamp + 1,
    address |-> hlmac_add_new_id(payload.prefix, number_id[n][m])] :
     m \in payload.to}

FrameWithOwnId(n, payload) ==   \* mutant: the id m gives to n
  {[from |-> n, to |-> m, timestamp |-> payload.timestamp,
    address |-> hlmac_add_new_id(payload.prefix, number_id[m][n])] :
     m \in payload.to}

\* A SetHLMAC on the air: what each neighbour it lists extracts from it.
Frame(n, payload) ==
  {[from |-> n, to |-> m, timestamp |-> payload.timestamp,
    address |-> hlmac_add_new_id(payload.prefix, number_id[n][m])] :
     m \in payload.to}

MoreBeforePop(n) == Len(payload_entry_list[n]) > 0   \* mutant: the old length

\* Does the list of n hold a payload behind its head?
MoreQueued(n) == Len(payload_entry_list[n]) > 1

(***************************************************************************)
(* iotorii_handle_send_message_timer: the head of the queue is broadcast,  *)
(* with no test that there is one.  Receivers extract their address.       *)
(***************************************************************************)
SendMessage(n) ==
  LET payload == Head(payload_entry_list[n]) IN
  /\ send_sethlmac_timer[n]
  /\ payload_entry_list' = [payload_entry_list EXCEPT ![n] = Tail(@)]
  /\ send_sethlmac_timer' =
       [send_sethlmac_timer EXCEPT ![n] = MoreQueued(n)]
  /\ offers' = offers \cup Frame(n, payload)
  /\ UNCHANGED <<timestamp, last_timestamp, hlmac_table, flag,
                 number_of_neighbours_flag, assigned>>

-----------------------------------------------------------------------------
\* What hlmactable_has_loop may answer: the table keeps pointers to address
\* buffers its callers free, so with any entry the answer depends on what the
\* allocator has left in them.
HasLoopOutcomes(n, addr) ==
  IF FreedIntact \/ hlmac_table[n] = << >>
  THEN {hlmactable_has_loop(hlmac_table[n], addr)}
  ELSE BOOLEAN

\* The condition under which a SetHLMAC is considered at all.
Considered(o, loop) ==
  \/ o.timestamp > last_timestamp[o.to]
  \/ ~loop /\ o.timestamp = last_timestamp[o.to]

Added(o) == IsAdded(hlmac_table[o.to], o.timestamp)

NewRoundAfterFirst(o) == last_timestamp[o.to] < o.timestamp   \* mutant

\* An accepted address of a new round, or any accepted one during round 0.
NewRound(o) ==
  last_timestamp[o.to] < o.timestamp \/ last_timestamp[o.to] = 0

FlagsKept(o) == flag[o.to]   \* mutant: no reset

\* The flags after an accepted address, before the sender's one is set.
ResetFlags(o) ==
  IF NewRound(o) THEN [m \in Nodes |-> 0] ELSE flag[o.to]

MarkSenderParent(o, flags, mark) ==   \* mutant: always as a parent
  [m \in Nodes |-> IF m = o.from /\ m \in Nbr[o.to] THEN 1 ELSE flags[m]]

MarkSender(o, flags, mark) ==
  [m \in Nodes |-> IF m = o.from /\ m \in Nbr[o.to] THEN mark ELSE flags[m]]

MayBeConsidered(o) ==
  \E loop \in HasLoopOutcomes(o.to, o.address) : Considered(o, loop)

MayBeDisregarded(o) ==
  \E loop \in HasLoopOutcomes(o.to, o.address) : ~Considered(o, loop)

(***************************************************************************)
(* The branches of iotorii_handle_incoming_sethlmac_or_load for a SetHLMAC *)
(* that lists this node.  AcceptOffer: the address is taken and offered on.*)
(***************************************************************************)
AcceptOffer(o) ==
  /\ MayBeConsidered(o) /\ Added(o)
  /\ offers' = offers \ {o}
  /\ hlmac_table' = [hlmac_table EXCEPT ![o.to] =
       hlmactable_add(@, o.address, o.timestamp)]
  /\ last_timestamp' = [last_timestamp EXCEPT ![o.to] =
       IF NewRound(o) THEN o.timestamp ELSE @]
  /\ flag' = [flag EXCEPT ![o.to] = MarkSender(o, ResetFlags(o), 1)]
  /\ number_of_neighbours_flag' = [number_of_neighbours_flag EXCEPT ![o.to] =
       (IF NewRound(o) THEN number_of_neighbours(o.to) ELSE @) - 1]
  /\ QueueSetHlmac(o.to, o.address, o.from, o.timestamp)
  /\ assigned' = assigned \cup
       {[node |-> o.to, timestamp |-> o.timestamp, address |-> o.address]}
  /\ UNCHANGED timestamp

\* The table has no room for it.
RefuseOffer(o) ==
  /\ MayBeConsidered(o) /\ ~Added(o)
  /\ offers' = offers \ {o}
  /\ hlmac_table' = [hlmac_table EXCEPT ![o.to] =
       hlmactable_add(@, o.address, o.timestamp)]
  /\ flag' = [flag EXCEPT ![o.to] = MarkSender(o, flag[o.to], -1)]
  /\ number_of_neighbours_flag' =
       [number_of_neighbours_flag EXCEPT ![o.to] = @ - 1]
  /\ UNCHANGED <<timestamp, last_timestamp, payload_entry_list,
                 send_sethlmac_timer, assigned>>

\* It is of an earlier round, or makes a loop.
DisregardOffer(o) ==
  /\ MayBeDisregarded(o)
  /\ offers' = offers \ {o}
  /\ UNCHANGED <<timestamp, last_timestamp, hlmac_table, flag,
                 number_of_neighbours_flag, payload_entry_list,
                 send_sethlmac_timer, assigned>>

\* A broadcast is not acknowledged: any receiver may miss it.
LoseOffer(o) ==
  /\ offers' = offers \ {o}
  /\ UNCHANGED <<timestamp, last_timestamp, hlmac_table, flag,
                 number_of_neighbours_flag, payload_entry_list,
                 send_sethlmac_timer, assigned>>

AssignmentNext ==
  \/ StartRound
  \/ \E n \in Nodes : SendMessage(n)
  \/ \E o \in offers :
       AcceptOffer(o) \/ RefuseOffer(o) \/ DisregardOffer(o) \/ LoseOffer(o)

AssignmentSpec == AssignmentInit /\ [][AssignmentNext]_assignmentVars

-----------------------------------------------------------------------------
HeadEntry(n) == hlmac_table[n][1]

Address == Seq(Nat)
Entry == [address : Address, timestamp : 0 .. MaxRound]
Payload ==
  [timestamp : 0 .. MaxRound, prefix : Address, to : SUBSET Nodes, size : MacPayloads]
Offer == [from : Nodes, to : Nodes, timestamp : 0 .. MaxRound, address : Address]

\* Shape of the state.
AssignmentTypeOK ==
  /\ timestamp \in -1 .. MaxRound
  /\ last_timestamp \in [Nodes -> 0 .. MaxRound]
  /\ hlmac_table \in [Nodes -> Seq(Entry)]
  /\ flag \in [Nodes -> [Nodes -> {-1, 0, 1}]]
  /\ number_of_neighbours_flag \in [Nodes -> Int]
  /\ payload_entry_list \in [Nodes -> Seq(Payload)]
  /\ send_sethlmac_timer \in [Nodes -> BOOLEAN]
  /\ offers \subseteq Offer
  /\ assigned \subseteq
       [node : Nodes, timestamp : 0 .. MaxRound, address : Address]

\* The send timer is armed exactly while a payload waits.  Its handler pops
\* the list and uses what it gets without a test: armed on an empty list it
\* would dereference NULL, unarmed on a non-empty one the payload would never
\* leave (QueueSetHlmac arms the timer only when the list was empty).
TimerMatchesQueue ==
  \A n \in Nodes : send_sethlmac_timer[n] <=> payload_entry_list[n] # << >>

\* Timestamp, length of the prefix, prefix, and an id and a link address for
\* each recipient.
PayloadLength(payload) ==
  5 + Len(payload.prefix) + Cardinality(payload.to) * (AddrSize + 1)

\* The buffer of a payload is allocated with the size max_payl() gives, and the
\* loop that adds entries counts everything that is written: a payload with
\* several entries never runs past its buffer, whatever header was measured.
SeveralEntriesFit ==
  \A n \in Nodes : \A i \in 1 .. Len(payload_entry_list[n]) :
    LET payload == payload_entry_list[n][i] IN
    Cardinality(payload.to) > 1 => PayloadLength(payload) <= payload.size

\* "If the payload is smaller than the largest one": so says the comment above
\* the test before the first entry, of every payload.  The test forgets the
\* four bytes of the timestamp.
PayloadBelowMaximum ==
  \A n \in Nodes : \A i \in 1 .. Len(payload_entry_list[n]) :
    PayloadLength(payload_entry_list[n][i]) <= payload_entry_list[n][i].size

\* With one address per node (HLMAC_MAX_HLMAC = 1): a node has at most one
\* parent, the root none, and the parent of a node is in a later round or
\* holds the address the node's one extends, in spite of messages of several
\* rounds being on their way together.
TreeOrder ==
  MaxHlmac = 1 => \A n \in Nodes :
    /\ \A p, q \in Parents(n) : p = q
    /\ \A p \in Parents(n) :
         /\ n # Root
         /\ hlmac_table[n] # << >> /\ hlmac_table[p] # << >>
         /\ \/ HeadEntry(p).timestamp > HeadEntry(n).timestamp
            \/ /\ HeadEntry(p).timestamp = HeadEntry(n).timestamp
               /\ HeadEntry(n).address
                    = hlmac_add_new_id(HeadEntry(p).address, number_id[p][n])

\* Whom a node believes to be its parent never leads round in a circle: every
\* set of nodes has one with no parent in the set.  LOAD and SHARE messages
\* follow these flags.
NoParentCycle ==
  MaxHlmac = 1 => \A S \in (SUBSET Nodes) \ {{}} :
    \E n \in S : Parents(n) \cap S = {}

\* No node gives two of its neighbours the same id.
DistinctIds ==
  \A n \in Nodes : \A m, k \in Nbr[n] :
    number_id[n][m] = number_id[n][k] => m = k

\* Then no two nodes accept the same address in the same round, whichever
\* offers of whichever round reach them first.
AddressesDistinct ==
  DistinctIds => \A a, b \in assigned :
    a.timestamp = b.timestamp /\ a.address = b.address => a.node = b.node

\* Discovery is complete: whom a node knows knows it.
MutualNeighbours == \A n \in Nodes : \A m \in Nbr[n] : n \in Nbr[m]

\* "Decrement the number of neighbours no HLMAC was received from": in the
\* round a common node is in, its count is the number of neighbours whose flag
\* is still 0.  It is what the statistic timer takes for "is an edge node".
\* It takes tables that know each other, and one SetHLMAC of a node in a round:
\* a second one, or one of a stranger, is counted all the same.
CountsUnheard ==
  MaxHlmac = 1 /\ MutualNeighbours =>
    \A n \in Nodes \ {Root} :
      hlmac_table[n] # << >> =>
        number_of_neighbours_flag[n] = Cardinality({m \in Nbr[n] : flag[n][m] = 0})

\* "If there is no loop": with several addresses per node, no node holds an
\* address that descends from another address of its own of the same round.
NoLoopAccepted ==
  \A n \in Nodes : \A i, j \in DOMAIN hlmac_table[n] :
    hlmac_table[n][i].timestamp = hlmac_table[n][j].timestamp =>
      ~ \E k \in 1 .. Len(hlmac_table[n][j].address) - 1 :
          hlmac_table[n][i].address = SubSeq(hlmac_table[n][j].address, 1, k)
=============================================================================
