----------------------------- MODULE Neighbours -----------------------------
(***************************************************************************)
(* Neighbour discovery of one IoTorii node (examples/den2ne-def,           *)
(* iotorii-csma.c): the Hello timer, the reception of a Hello, and the     *)
(* table neighbour_table_entry_list that both maintain.                    *)
(*                                                                         *)
(* The other nodes are the environment: the Hello of any peer may reach    *)
(* this node at any time, and any of them may be lost.  Only what discovery*)
(* reads is kept of a table entry; flag and in_out belong to the modules   *)
(* Assignment and Den2ne.                                                  *)
(***************************************************************************)
EXTENDS Integers, Sequences, FiniteSets

CONSTANTS
  Peers,         \* link addresses a Hello can come from
  MaxHelloDiff,  \* IOTORII_MAX_HELLO_DIFF, 2 in the code
  HelloLimit,    \* the last count that re-arms the timer, 500 in the code
  TableLimit,    \* number_of_neighbours at which the table is full, 256
  IdRange        \* number of values of the uint8_t number_id, 256

ASSUME NeighboursAssumption ==
  /\ IsFiniteSet(Peers)
  /\ MaxHelloDiff \in Nat
  /\ HelloLimit \in Nat
  /\ TableLimit \in Nat
  /\ IdRange \in Nat \ {0}
  /\ TableLimit <= IdRange

VARIABLES
  number_of_hello_messages,    \* Hellos sent by this node
  neighbour_table_entry_list,  \* the table, in list order
  number_of_neighbours,        \* the code's own count of the table
  hello_timer,                 \* TRUE iff the ctimer is armed
  heard,                       \* history: the value of number_of_hello_messages
                               \* when the last Hello of a peer arrived, or -1
  missed,                      \* history: peers whose last Hello met a full table
  expired                      \* history: TRUE iff an entry was ever removed

vars == <<number_of_hello_messages, neighbour_table_entry_list,
          number_of_neighbours, hello_timer, heard, missed, expired>>

Entry == [addr : Peers, last_hello : Nat, number_id : Nat]

Init ==
  /\ number_of_hello_messages = 0
  /\ neighbour_table_entry_list = << >>
  /\ number_of_neighbours = 0
  /\ hello_timer = TRUE
  /\ heard = [p \in Peers |-> -1]
  /\ missed = {}
  /\ expired = FALSE

(***************************************************************************)
(* The test of iotorii_check_neighbours_hello on entry i, when hellos      *)
(* Hellos have been sent.                                                  *)
(***************************************************************************)
StaleOnce(i, hellos) ==   \* mutant: = for >
  hellos - neighbour_table_entry_list[i].last_hello = MaxHelloDiff + 1

StaleEarly(i, hellos) ==  \* mutant: >= for >
  hellos - neighbour_table_entry_list[i].last_hello >= MaxHelloDiff

Stale(i, hellos) ==
  hellos - neighbour_table_entry_list[i].last_hello > MaxHelloDiff

StaleIndices(hellos) ==
  {i \in DOMAIN neighbour_table_entry_list : Stale(i, hellos)}

Without(s, k) ==
  [i \in 1 .. Len(s) - 1 |-> IF i < k THEN s[i] ELSE s[i + 1]]

(***************************************************************************)
(* iotorii_check_neighbours_hello.  list_remove clears the next pointer of *)
(* the entry it unlinks, and the loop then continues from that pointer: it *)
(* ends after the first entry it removes.                                  *)
(***************************************************************************)
CheckNeighboursHello(hellos) ==
  \/ /\ StaleIndices(hellos) = {}
     /\ UNCHANGED <<neighbour_table_entry_list, number_of_neighbours, expired>>
  \/ \E k \in StaleIndices(hellos) :
       /\ \A j \in StaleIndices(hellos) : k <= j
       /\ neighbour_table_entry_list' = Without(neighbour_table_entry_list, k)
       /\ number_of_neighbours' = number_of_neighbours - 1
       /\ expired' = TRUE

RearmsLate(hellos) == hellos - 1 <= HelloLimit   \* mutant: the old count

\* After the Hello with this number, is the timer set again?
Rearms(hellos) == hellos <= HelloLimit

(***************************************************************************)
(* iotorii_handle_hello_timer: the Hello leaves (or is lost), the count    *)
(* grows, the timer is re-armed until the limit, the table is checked.     *)
(***************************************************************************)
HandleHelloTimer ==
  /\ hello_timer
  /\ number_of_hello_messages' = number_of_hello_messages + 1
  /\ hello_timer' = Rearms(number_of_hello_messages + 1)
  /\ CheckNeighboursHello(number_of_hello_messages + 1)
  /\ UNCHANGED <<heard, missed>>

KnownBehindHead(p) ==   \* mutant: the loop starts at the second entry
  \E i \in DOMAIN neighbour_table_entry_list :
    i > 1 /\ neighbour_table_entry_list[i].addr = p

Known(p) ==
  \E i \in DOMAIN neighbour_table_entry_list :
    neighbour_table_entry_list[i].addr = p

NewEntrySameId(p) ==   \* mutant: the id is not that of the newcomer
  [addr |-> p, last_hello |-> number_of_hello_messages, number_id |-> 1 % IdRange]

NewEntry(p) ==
  [addr |-> p, last_hello |-> number_of_hello_messages,
   number_id |-> (number_of_neighbours + 1) % IdRange]

(***************************************************************************)
(* iotorii_handle_incoming_hello: a known sender is refreshed, an unknown  *)
(* one appended, and neither happens when the table is full.               *)
(***************************************************************************)
RefreshNeighbour(p) ==
  /\ Known(p)
  /\ neighbour_table_entry_list' =
       [i \in DOMAIN neighbour_table_entry_list |->
          IF neighbour_table_entry_list[i].addr = p
          THEN [neighbour_table_entry_list[i] EXCEPT
                  !.last_hello = number_of_hello_messages]
          ELSE neighbour_table_entry_list[i]]
  /\ missed' = missed \ {p}
  /\ UNCHANGED number_of_neighbours

AddNeighbour(p) ==
  /\ ~Known(p)
  /\ neighbour_table_entry_list' =
       Append(neighbour_table_entry_list, NewEntry(p))
  /\ number_of_neighbours' = number_of_neighbours + 1
  /\ missed' = missed \ {p}

TableFull(p) ==
  /\ number_of_neighbours >= TableLimit
  /\ missed' = missed \cup {p}
  /\ UNCHANGED <<neighbour_table_entry_list, number_of_neighbours>>

HandleIncomingHello(p) ==
  /\ \/ TableFull(p)
     \/ /\ number_of_neighbours < TableLimit
        /\ RefreshNeighbour(p) \/ AddNeighbour(p)
  /\ heard' = [heard EXCEPT ![p] = number_of_hello_messages]
  /\ UNCHANGED <<number_of_hello_messages, hello_timer, expired>>

Next == HandleHelloTimer \/ \E p \in Peers : HandleIncomingHello(p)

Spec == Init /\ [][Next]_vars

-----------------------------------------------------------------------------
Addresses == {neighbour_table_entry_list[i].addr :
                i \in DOMAIN neighbour_table_entry_list}

\* Shape of the state.  The uint16_t count cannot wrap while HelloLimit is
\* below 2^16 - 1: the timer that increments it is not re-armed past it.
TypeOK ==
  /\ number_of_hello_messages \in 0 .. HelloLimit + 1
  /\ neighbour_table_entry_list \in Seq(Entry)
  /\ number_of_neighbours \in Nat
  /\ hello_timer \in BOOLEAN
  /\ heard \in [Peers -> Int]
  /\ missed \subseteq Peers
  /\ expired \in BOOLEAN

\* The hand-kept count equals the length of the list, and no address occurs
\* twice.  iotorii_send_sethlmac allocates an array of that many slots (less
\* the sender's one) and draws random slots until it finds a free one for each
\* entry: one entry more than slots and that loop never ends.
CountMatchesList ==
  /\ number_of_neighbours = Len(neighbour_table_entry_list)
  /\ \A i, j \in DOMAIN neighbour_table_entry_list :
       neighbour_table_entry_list[i].addr = neighbour_table_entry_list[j].addr
         => i = j

\* Although a Hello timer expires at most one entry, no entry is ever older
\* than MaxHelloDiff plus one Hello for each other peer: an entry that is stale
\* moves one place towards the head of the list with every expiry before it.
ExpiryLagBounded ==
  \A i \in DOMAIN neighbour_table_entry_list :
    number_of_hello_messages - neighbour_table_entry_list[i].last_hello
      <= MaxHelloDiff + Cardinality(Peers) - i

\* What the comment on iotorii_check_neighbours_hello promises: it removes the
\* neighbours no Hello was received from during the last Hellos sent.  After a
\* Hello timer no stale entry is left.
NoStaleNeighbourLeft ==
  [][number_of_hello_messages' # number_of_hello_messages =>
       \A i \in DOMAIN neighbour_table_entry_list' :
         number_of_hello_messages' - neighbour_table_entry_list'[i].last_hello
           <= MaxHelloDiff]_vars

\* The other direction of the same comment: a neighbour is removed only when
\* none of its Hellos arrived during the last MaxHelloDiff Hellos sent, or when
\* the table was full as the last one arrived: iotorii_handle_incoming_hello
\* then refreshes nobody, not even the neighbours it already knows.
OnlySilentRemoved ==
  [][\A p \in Peers :
       (Known(p) /\ ~Known(p)') =>
         \/ number_of_hello_messages' - heard[p] > MaxHelloDiff
         \/ p \in missed]_vars

\* The ids handed to the neighbours differ until an entry has expired: an id is
\* the count at the time of the addition, so the first expiry makes the next
\* newcomer share the id of the last entry, and with it its HLMAC address.
IdsDistinctUntilExpiry ==
  ~expired =>
    \A i, j \in DOMAIN neighbour_table_entry_list :
      neighbour_table_entry_list[i].number_id
        = neighbour_table_entry_list[j].number_id => i = j
=============================================================================
