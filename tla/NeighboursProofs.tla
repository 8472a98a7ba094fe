-------------------------- MODULE NeighboursProofs --------------------------
(***************************************************************************)
(* Proofs about neighbour discovery, for any finite set of peers and any   *)
(* value of the limits.                                                    *)
(***************************************************************************)
EXTENDS Neighbours, FiniteSetTheorems, SequenceTheorems, TLAPS

table == neighbour_table_entry_list
hellos == number_of_hello_messages

\* The timer stops with the count just past the limit, and no entry is from
\* the future.
TimerAndAges ==
  /\ hello_timer => hellos <= HelloLimit
  /\ \A i \in 1 .. Len(table) : table[i].last_hello <= hellos

IInv == TypeOK /\ TimerAndAges /\ CountMatchesList /\ ExpiryLagBounded

-----------------------------------------------------------------------------
\* Ageing by one Hello is made up for by moving up one place.
LEMMA OneLater ==
  ASSUME NEW h \in Int, NEW l \in Int, NEW m \in Int, NEW c \in Int,
         NEW i \in Int, h - l <= m + c - (i + 1)
  PROVE  (h + 1) - l <= m + c - i
OBVIOUS

\* Removing position k of a sequence keeps the other elements, in order.
LEMMA WithoutProperties ==
  ASSUME NEW S, NEW s \in Seq(S), NEW k \in 1 .. Len(s)
  PROVE  /\ Without(s, k) \in Seq(S)
         /\ Len(Without(s, k)) = Len(s) - 1
         /\ DOMAIN Without(s, k) = 1 .. Len(s) - 1
         /\ \A i \in 1 .. Len(s) - 1 :
              Without(s, k)[i] = IF i < k THEN s[i] ELSE s[i + 1]
<1>1. Len(s) \in Nat /\ Len(s) - 1 \in Nat
  BY LenProperties
<1>2. \A i \in 1 .. Len(s) - 1 : (IF i < k THEN s[i] ELSE s[i + 1]) \in S
  BY <1>1, ElementOfSeq
<1>3. Without(s, k) \in [1 .. Len(s) - 1 -> S]
  BY <1>2 DEF Without
<1>4. Without(s, k) \in Seq(S)
  BY <1>1, <1>3
<1>5. DOMAIN Without(s, k) = 1 .. Len(s) - 1
  BY DEF Without
<1>6. Len(Without(s, k)) = Len(s) - 1
  BY <1>1, <1>4, <1>5, LenProperties
<1>7. \A i \in 1 .. Len(s) - 1 :
        Without(s, k)[i] = IF i < k THEN s[i] ELSE s[i + 1]
  BY DEF Without
<1> QED
  BY <1>4, <1>5, <1>6, <1>7

\* The shape of the table, entry by entry.
LEMMA TableFacts ==
  ASSUME TypeOK
  PROVE  /\ Len(table) \in Nat /\ table \in Seq(Entry)
         /\ DOMAIN table = 1 .. Len(table)
         /\ \A i \in 1 .. Len(table) :
              /\ table[i] \in Entry
              /\ table[i].addr \in Peers
              /\ table[i].last_hello \in Nat
<1>1. /\ Len(table) \in Nat /\ table \in Seq(Entry)
      /\ DOMAIN table = 1 .. Len(table)
  BY LenProperties DEF TypeOK, table
<1>2. \A i \in 1 .. Len(table) : table[i] \in Entry
  BY <1>1, ElementOfSeq
<1> QED
  BY <1>1, <1>2 DEF Entry

\* With distinct addresses, a table has at most one entry per peer.
LEMMA DistinctFits ==
  ASSUME NEW t \in Seq(Entry),
         \A i, j \in 1 .. Len(t) : t[i].addr = t[j].addr => i = j
  PROVE  Len(t) <= Cardinality(Peers) /\ Cardinality(Peers) \in Nat
<1> DEFINE addrOf == [i \in 1 .. Len(t) |-> t[i].addr]
<1>1. Cardinality(Peers) \in Nat /\ IsFiniteSet(Peers)
  BY NeighboursAssumption, FS_CardinalityType
<1>2. Len(t) \in Nat
  BY LenProperties
<1>3. IsFiniteSet(1 .. Len(t)) /\ Cardinality(1 .. Len(t)) = Len(t)
  <2>1. 1 \in Int /\ Len(t) \in Int
    BY <1>2
  <2>2. /\ IsFiniteSet(1 .. Len(t))
        /\ Cardinality(1 .. Len(t)) = IF 1 > Len(t) THEN 0 ELSE Len(t) - 1 + 1
    BY <2>1, FS_Interval
  <2> QED
    BY <1>2, <2>2
<1>4. \A i \in 1 .. Len(t) : t[i] \in Entry
  BY ElementOfSeq
<1>5. addrOf \in [1 .. Len(t) -> Peers]
  BY <1>4 DEF Entry
<1>6. \A i, j \in 1 .. Len(t) : addrOf[i] = addrOf[j] => i = j
  OBVIOUS
<1> HIDE DEF addrOf
<1>7. ASSUME Cardinality(Peers) < Len(t) PROVE FALSE
  <2>1. Cardinality(Peers) < Cardinality(1 .. Len(t))
    BY <1>3, <1>7
  <2>2. \E x, y \in 1 .. Len(t) : x # y /\ addrOf[x] = addrOf[y]
    BY <1>1, <1>3, <1>5, <2>1, FS_PigeonHole
  <2> QED
    BY <1>6, <2>2
<1> QED
  BY <1>1, <1>2, <1>7

LEMMA TableFitsPeers ==
  ASSUME TypeOK, CountMatchesList
  PROVE  Len(table) <= Cardinality(Peers) /\ Cardinality(Peers) \in Nat
BY TableFacts, DistinctFits DEF CountMatchesList, table

-----------------------------------------------------------------------------
LEMMA InitIInv == Init => IInv
<1> SUFFICES ASSUME Init PROVE IInv
  OBVIOUS
<1>1. table = << >> /\ Len(table) = 0 /\ table \in Seq(Entry) /\ DOMAIN table = {}
  BY EmptySeq DEF Init, table
<1>2. TypeOK
  <2>1. heard \in [Peers -> Int]
    BY DEF Init
  <2>2. number_of_hello_messages \in 0 .. HelloLimit + 1
    BY NeighboursAssumption DEF Init
  <2> QED
    BY <1>1, <2>1, <2>2 DEF Init, TypeOK, table
<1> QED
  BY <1>1, <1>2, NeighboursAssumption
  DEF Init, IInv, TimerAndAges, CountMatchesList, ExpiryLagBounded, table,
      hellos

\* The Hello timer that finds no stale entry: every age grows by one and still
\* is at most MaxHelloDiff.
LEMMA HelloTimerKeeps ==
  ASSUME IInv, HandleHelloTimer, StaleIndices(hellos + 1) = {},
         UNCHANGED <<neighbour_table_entry_list, number_of_neighbours, expired>>
  PROVE  IInv'
<1>1. Len(table) \in Nat /\ table \in Seq(Entry) /\ DOMAIN table = 1 .. Len(table)
  BY TableFacts DEF IInv
<1>2. \A i \in 1 .. Len(table) : table[i].last_hello \in Nat
  BY TableFacts DEF IInv
<1>3. TypeOK' /\ TimerAndAges'
  <2>1. hellos \in Nat /\ hellos' = hellos + 1 /\ hellos <= HelloLimit
    BY NeighboursAssumption
    DEF IInv, TypeOK, TimerAndAges, HandleHelloTimer, Rearms, hellos
  <2>2. TypeOK'
    BY <2>1, NeighboursAssumption DEF IInv, TypeOK, HandleHelloTimer, Rearms, hellos
  <2>3. TimerAndAges'
    <3>1. hello_timer' => hellos' <= HelloLimit
      BY <2>1 DEF HandleHelloTimer, Rearms, hellos
    <3>2. \A i \in 1 .. Len(table) : table[i].last_hello <= hellos + 1
      BY <1>1, <1>2, <2>1 DEF IInv, TimerAndAges
    <3>3. table' = table
      BY DEF table
    <3> QED
      BY <2>1, <3>1, <3>2, <3>3 DEF TimerAndAges
  <2> QED
    BY <2>2, <2>3
<1>4. CountMatchesList'
  BY DEF IInv, CountMatchesList
<1>5. \A i \in 1 .. Len(table) :
        (hellos + 1) - table[i].last_hello <= MaxHelloDiff
  BY <1>1, <1>2, NeighboursAssumption
  DEF StaleIndices, Stale, table, hellos, IInv, TypeOK
<1>6. ExpiryLagBounded'
  <2>1. Len(table) <= Cardinality(Peers) /\ Cardinality(Peers) \in Nat
    BY TableFitsPeers DEF IInv
  <2>2. SUFFICES ASSUME NEW i \in 1 .. Len(table)
                 PROVE  (hellos + 1) - table[i].last_hello
                          <= MaxHelloDiff + Cardinality(Peers) - i
    BY <1>1 DEF ExpiryLagBounded, HandleHelloTimer, table, hellos
  <2> QED
    BY <1>1, <1>2, <1>5, <2>1, NeighboursAssumption DEF IInv, TypeOK, hellos
<1> QED
  BY <1>3, <1>4, <1>6 DEF IInv

\* The Hello timer that expires entry k, the first stale one: the entries
\* before it are fresh, the entries after it move up by one as they age by one.
LEMMA HelloTimerExpires ==
  ASSUME IInv, HandleHelloTimer, NEW k \in StaleIndices(hellos + 1),
         \A j \in StaleIndices(hellos + 1) : k <= j,
         neighbour_table_entry_list' = Without(neighbour_table_entry_list, k),
         number_of_neighbours' = number_of_neighbours - 1,
         expired' = TRUE
  PROVE  IInv'
<1>1. Len(table) \in Nat /\ table \in Seq(Entry) /\ DOMAIN table = 1 .. Len(table)
  BY TableFacts DEF IInv
<1>2. k \in 1 .. Len(table)
  BY <1>1 DEF StaleIndices, table
<1>3. /\ table' \in Seq(Entry)
      /\ Len(table') = Len(table) - 1
      /\ DOMAIN table' = 1 .. Len(table) - 1
      /\ \A i \in 1 .. Len(table) - 1 :
           table'[i] = IF i < k THEN table[i] ELSE table[i + 1]
  BY <1>1, <1>2, WithoutProperties DEF table
<1>4. /\ \A i \in 1 .. Len(table) : table[i].last_hello \in Nat
      /\ hellos \in Nat /\ hellos' = hellos + 1 /\ MaxHelloDiff \in Nat
  BY TableFacts, NeighboursAssumption
  DEF IInv, TypeOK, HandleHelloTimer, Rearms, hellos
<1>5. TypeOK'
  <2>1. hellos <= HelloLimit
    BY DEF IInv, TimerAndAges, HandleHelloTimer, Rearms
  <2>2. number_of_neighbours' \in Nat
    BY <1>1, <1>2 DEF IInv, CountMatchesList, table
  <2> QED
    BY <1>3, <1>4, <2>1, <2>2, NeighboursAssumption
    DEF IInv, TypeOK, HandleHelloTimer, Rearms, table, hellos
<1>6. TimerAndAges'
  <2>1. \A i \in 1 .. Len(table) : table[i].last_hello <= hellos
    BY DEF IInv, TimerAndAges
  <2>2. \A i \in 1 .. Len(table) - 1 : table'[i].last_hello <= hellos + 1
    <3>1. SUFFICES ASSUME NEW i \in 1 .. Len(table) - 1
                   PROVE  table'[i].last_hello <= hellos + 1
      OBVIOUS
    <3>2. /\ i \in 1 .. Len(table)
          /\ i + 1 \in 1 .. Len(table)
      BY <1>1, <3>1
    <3>3. table[i].last_hello <= hellos + 1
      BY <1>4, <2>1, <3>2
    <3>4. table[i + 1].last_hello <= hellos + 1
      BY <1>4, <2>1, <3>2
    <3>5. table'[i] = IF i < k THEN table[i] ELSE table[i + 1]
      BY <1>3, <3>1
    <3> QED
      BY <3>3, <3>4, <3>5
  <2> QED
    BY <1>3, <1>4, <2>2 DEF TimerAndAges, HandleHelloTimer, Rearms, hellos
<1>7. CountMatchesList'
  <2>1. \A i, j \in 1 .. Len(table) : table[i].addr = table[j].addr => i = j
    BY <1>1 DEF IInv, CountMatchesList, table
  <2>2. \A i, j \in 1 .. Len(table) - 1 :
          table'[i].addr = table'[j].addr => i = j
    BY <1>1, <1>2, <1>3, <2>1
  <2>3. number_of_neighbours' = Len(table')
    BY <1>1, <1>3 DEF IInv, CountMatchesList, table
  <2> QED
    BY <1>3, <2>2, <2>3 DEF CountMatchesList, table
<1>8. ExpiryLagBounded'
  <2>1. Len(table) <= Cardinality(Peers) /\ Cardinality(Peers) \in Nat
    BY TableFitsPeers DEF IInv
  <2>2. \A i \in 1 .. Len(table) :
          hellos - table[i].last_hello <= MaxHelloDiff + Cardinality(Peers) - i
    BY <1>1 DEF IInv, ExpiryLagBounded, table, hellos
  <2>3. \A i \in 1 .. Len(table) :
          i < k => (hellos + 1) - table[i].last_hello <= MaxHelloDiff
    <3>1. SUFFICES ASSUME NEW i \in 1 .. Len(table), i < k
                   PROVE  (hellos + 1) - table[i].last_hello <= MaxHelloDiff
      OBVIOUS
    <3>2. i \notin StaleIndices(hellos + 1)
      BY <1>1, <1>2, <3>1
    <3> QED
      BY <1>1, <1>4, <3>1, <3>2 DEF StaleIndices, Stale, table
  <2>4. SUFFICES ASSUME NEW i \in 1 .. Len(table) - 1
                 PROVE  (hellos + 1) - table'[i].last_hello
                          <= MaxHelloDiff + Cardinality(Peers) - i
    BY <1>3, <1>4 DEF ExpiryLagBounded, table, hellos
  <2>5. CASE i < k
    BY <1>1, <1>3, <1>4, <2>1, <2>3, <2>4, <2>5
  <2>6. CASE ~(i < k)
    <3>1. table'[i] = table[i + 1] /\ i + 1 \in 1 .. Len(table)
      BY <1>1, <1>3, <2>4, <2>6
    <3>2. hellos - table[i + 1].last_hello
            <= MaxHelloDiff + Cardinality(Peers) - (i + 1)
      BY <2>2, <3>1
    <3>3. table[i + 1].last_hello \in Nat /\ hellos \in Nat /\ i \in Int
      BY <1>1, <1>4, <2>4, <3>1, NeighboursAssumption
    <3>4. table'[i].last_hello = table[i + 1].last_hello
      BY <3>1
    <3>5. MaxHelloDiff \in Int /\ Cardinality(Peers) \in Int
      BY <1>4, <2>1
    <3>6. hellos \in Int /\ table[i + 1].last_hello \in Int
      BY <3>3
    <3>7. (hellos + 1) - table[i + 1].last_hello
            <= MaxHelloDiff + Cardinality(Peers) - i
      BY OneLater, <3>2, <3>3, <3>5, <3>6
    <3> QED
      BY <3>4, <3>7
  <2> QED
    BY <2>5, <2>6
<1> QED
  BY <1>5, <1>6, <1>7, <1>8 DEF IInv

LEMMA RefreshIInv ==
  ASSUME IInv, NEW p \in Peers, RefreshNeighbour(p),
         heard' = [heard EXCEPT ![p] = number_of_hello_messages],
         UNCHANGED <<number_of_hello_messages, hello_timer, expired>>
  PROVE  IInv'
<1>1. Len(table) \in Nat /\ table \in Seq(Entry) /\ DOMAIN table = 1 .. Len(table)
  BY TableFacts DEF IInv
<1>2. /\ \A i \in 1 .. Len(table) : table[i] \in Entry
      /\ hellos \in Nat /\ hellos' = hellos /\ MaxHelloDiff \in Nat
  BY TableFacts, NeighboursAssumption DEF IInv, TypeOK, hellos
<1>3. table' = [i \in 1 .. Len(table) |->
                  IF table[i].addr = p
                  THEN [table[i] EXCEPT !.last_hello = hellos]
                  ELSE table[i]]
  BY <1>1 DEF RefreshNeighbour, table, hellos
<1>4. table' \in [1 .. Len(table) -> Entry]
  BY <1>2, <1>3 DEF Entry
<1>5. table' \in Seq(Entry) /\ Len(table') = Len(table)
      /\ DOMAIN table' = 1 .. Len(table)
  BY <1>1, <1>4, LenProperties
<1>6. \A i \in 1 .. Len(table) :
        /\ table'[i].addr = table[i].addr
        /\ table'[i].last_hello = table[i].last_hello
             \/ table'[i].last_hello = hellos
  BY <1>2, <1>3 DEF Entry
<1>7. TypeOK'
  BY <1>5 DEF IInv, TypeOK, RefreshNeighbour, table
<1>8. TimerAndAges'
  BY <1>2, <1>5, <1>6 DEF IInv, TimerAndAges, TypeOK, hellos
<1>9. CountMatchesList'
  BY <1>1, <1>5, <1>6
  DEF IInv, CountMatchesList, RefreshNeighbour, table
<1>10. ExpiryLagBounded'
  <2>1. Len(table) <= Cardinality(Peers) /\ Cardinality(Peers) \in Nat
    BY TableFitsPeers DEF IInv
  <2>2. SUFFICES ASSUME NEW i \in 1 .. Len(table)
                 PROVE  hellos - table'[i].last_hello
                          <= MaxHelloDiff + Cardinality(Peers) - i
    BY <1>2, <1>5 DEF ExpiryLagBounded, table, hellos
  <2>3. hellos - table[i].last_hello <= MaxHelloDiff + Cardinality(Peers) - i
    BY <1>1, <2>2 DEF IInv, ExpiryLagBounded, table, hellos
  <2> QED
    BY <1>1, <1>2, <1>6, <2>1, <2>2, <2>3
<1> QED
  BY <1>7, <1>8, <1>9, <1>10 DEF IInv

LEMMA AddIInv ==
  ASSUME IInv, NEW p \in Peers, AddNeighbour(p),
         heard' = [heard EXCEPT ![p] = number_of_hello_messages],
         UNCHANGED <<number_of_hello_messages, hello_timer, expired>>
  PROVE  IInv'
<1>1. Len(table) \in Nat /\ table \in Seq(Entry) /\ DOMAIN table = 1 .. Len(table)
  BY TableFacts DEF IInv
<1>2. /\ hellos \in Nat /\ hellos' = hellos /\ MaxHelloDiff \in Nat
      /\ number_of_neighbours = Len(table)
      /\ \A i \in 1 .. Len(table) : table[i].last_hello \in Nat
  BY TableFacts, NeighboursAssumption
  DEF IInv, TypeOK, CountMatchesList, hellos, table
<1>3. /\ NewEntry(p) \in Entry
      /\ NewEntry(p).addr = p /\ NewEntry(p).last_hello = hellos
  <2>1. (number_of_neighbours + 1) % IdRange \in Nat
    BY <1>1, <1>2, NeighboursAssumption
  <2> QED
    BY <1>2, <2>1 DEF NewEntry, Entry, hellos
<1>4. table' = Append(table, NewEntry(p))
  BY DEF AddNeighbour, table
<1>5. /\ table' \in Seq(Entry) /\ Len(table') = Len(table) + 1
      /\ DOMAIN table' = 1 .. Len(table) + 1
      /\ \A i \in 1 .. Len(table) : table'[i] = table[i]
      /\ table'[Len(table) + 1] = NewEntry(p)
  BY <1>1, <1>3, <1>4
<1>6. TypeOK'
  BY <1>1, <1>2, <1>5 DEF IInv, TypeOK, AddNeighbour, table
<1>7. TimerAndAges'
  BY <1>1, <1>2, <1>3, <1>5 DEF IInv, TimerAndAges, hellos
<1>8. CountMatchesList'
  <2>1. \A i \in 1 .. Len(table) : table[i].addr # p
    BY <1>1 DEF AddNeighbour, Known, table
  <2>2. \A i, j \in 1 .. Len(table) : table[i].addr = table[j].addr => i = j
    BY <1>1 DEF IInv, CountMatchesList, table
  <2>3. \A i, j \in 1 .. Len(table) + 1 :
          table'[i].addr = table'[j].addr => i = j
    BY <1>1, <1>3, <1>5, <2>1, <2>2
  <2> QED
    BY <1>1, <1>2, <1>5, <2>3 DEF CountMatchesList, AddNeighbour, table
<1>9. ExpiryLagBounded'
  <2>1. Len(table') <= Cardinality(Peers) /\ Cardinality(Peers) \in Nat
    BY <1>5, <1>8, DistinctFits DEF CountMatchesList, table
  <2> QED
    BY <1>1, <1>2, <1>3, <1>5, <2>1 DEF IInv, ExpiryLagBounded, table, hellos
<1> QED
  BY <1>6, <1>7, <1>8, <1>9 DEF IInv

LEMMA NextIInv == IInv /\ [Next]_vars => IInv'
<1> SUFFICES ASSUME IInv, [Next]_vars PROVE IInv'
  OBVIOUS
<1>1. CASE HandleHelloTimer
  BY <1>1, HelloTimerKeeps, HelloTimerExpires
  DEF HandleHelloTimer, CheckNeighboursHello, hellos
<1>2. ASSUME NEW p \in Peers, HandleIncomingHello(p) PROVE IInv'
  <2>1. CASE TableFull(p)
    BY <1>2, <2>1
    DEF HandleIncomingHello, TableFull, IInv, TypeOK, TimerAndAges,
        CountMatchesList, ExpiryLagBounded, table, hellos
  <2>2. CASE RefreshNeighbour(p)
    BY <1>2, <2>2, RefreshIInv DEF HandleIncomingHello
  <2>3. CASE AddNeighbour(p)
    BY <1>2, <2>3, AddIInv DEF HandleIncomingHello
  <2> QED
    BY <1>2, <2>1, <2>2, <2>3 DEF HandleIncomingHello
<1>3. CASE UNCHANGED vars
  BY <1>3
  DEF vars, IInv, TypeOK, TimerAndAges, CountMatchesList, ExpiryLagBounded,
      table, hellos
<1> QED
  BY <1>1, <1>2, <1>3 DEF Next

LEMMA SpecIInv == Spec => []IInv
BY InitIInv, NextIInv, PTL DEF Spec

\* Every reachable state has the shape TypeOK describes: in particular the
\* uint16_t count of Hellos never passes HelloLimit + 1.
THEOREM TypeCorrect == Spec => []TypeOK
BY SpecIInv, PTL DEF IInv

\* The hand-kept count of neighbours is the length of the table and no address
\* is in it twice, whatever Hellos arrive and expire in whatever order.
THEOREM CountCorrect == Spec => []CountMatchesList
BY SpecIInv, PTL DEF IInv

\* Although a Hello timer removes at most one stale entry, no entry outlives
\* its last Hello by more than MaxHelloDiff + (number of peers) - 1 timers.
THEOREM LagBounded == Spec => []ExpiryLagBounded
BY SpecIInv, PTL DEF IInv

-----------------------------------------------------------------------------
(***************************************************************************)
(* Ids, and what removes a neighbour.                                      *)
(***************************************************************************)

\* Until the first expiry an id is a place in the table, modulo IdRange.
IdsArePlaces ==
  ~expired =>
    /\ Len(table) <= TableLimit
    /\ \A i \in 1 .. Len(table) : table[i].number_id = i % IdRange

\* An entry carries the time of the last Hello of its peer, unless that Hello
\* met a full table.
HeardIsRecorded ==
  \A i \in 1 .. Len(table) :
    table[i].addr \in missed \/ table[i].last_hello = heard[table[i].addr]

LEMMA PlacesDiffer ==
  ASSUME NEW i \in Nat, NEW j \in Nat, 1 <= i, 1 <= j, i <= IdRange,
         j <= IdRange, i % IdRange = j % IdRange
  PROVE  i = j
<1>1. IdRange \in Nat \ {0}
  BY NeighboursAssumption
<1>2. \A x \in Nat : x < IdRange => x % IdRange = x
  BY <1>1
<1>3. IdRange % IdRange = 0
  BY <1>1
<1> QED
  BY <1>1, <1>2, <1>3

LEMMA TimerKeepsIds ==
  ASSUME IInv, IdsArePlaces, HeardIsRecorded, HandleHelloTimer
  PROVE  IdsArePlaces' /\ HeardIsRecorded'
<1>1. Len(table) \in Nat /\ table \in Seq(Entry) /\ DOMAIN table = 1 .. Len(table)
  BY TableFacts DEF IInv
<1>2. heard' = heard /\ missed' = missed
  BY DEF HandleHelloTimer
<1>3. CASE UNCHANGED <<neighbour_table_entry_list, number_of_neighbours, expired>>
  BY <1>2, <1>3 DEF IdsArePlaces, HeardIsRecorded, table
<1>4. ASSUME NEW k \in StaleIndices(hellos + 1),
             neighbour_table_entry_list' = Without(neighbour_table_entry_list, k),
             expired' = TRUE
      PROVE  IdsArePlaces' /\ HeardIsRecorded'
  <2>1. k \in 1 .. Len(table)
    BY <1>1 DEF StaleIndices, table
  <2>2. /\ Len(table') = Len(table) - 1
        /\ \A i \in 1 .. Len(table) - 1 :
             table'[i] = IF i < k THEN table[i] ELSE table[i + 1]
    BY <1>1, <1>4, <2>1, WithoutProperties DEF table
  <2>3. ASSUME NEW i \in 1 .. Len(table')
        PROVE  table'[i].addr \in missed \/ table'[i].last_hello = heard[table'[i].addr]
    <3>1. PICK j \in 1 .. Len(table) : table'[i] = table[j]
      <4>1. i \in 1 .. Len(table) /\ i + 1 \in 1 .. Len(table)
        BY <1>1, <2>2
      <4> QED
        BY <2>2, <4>1
    <3> QED
      BY <3>1 DEF HeardIsRecorded
  <2> QED
    BY <1>2, <1>4, <2>3 DEF IdsArePlaces, HeardIsRecorded
<1> QED
  BY <1>3, <1>4 DEF HandleHelloTimer, CheckNeighboursHello, hellos

LEMMA RefreshKeepsIds ==
  ASSUME IInv, IdsArePlaces, HeardIsRecorded, NEW p \in Peers, RefreshNeighbour(p),
         heard' = [heard EXCEPT ![p] = number_of_hello_messages], expired' = expired
  PROVE  IdsArePlaces' /\ HeardIsRecorded'
<1>1. Len(table) \in Nat /\ DOMAIN table = 1 .. Len(table)
      /\ \A i \in 1 .. Len(table) : table[i] \in Entry
  BY TableFacts DEF IInv
<1>2. table' = [i \in 1 .. Len(table) |->
                  IF table[i].addr = p
                  THEN [table[i] EXCEPT !.last_hello = hellos]
                  ELSE table[i]]
  BY <1>1 DEF RefreshNeighbour, table, hellos
<1>3. Len(table') = Len(table)
  BY <1>1, <1>2
<1>4. \A i \in 1 .. Len(table) :
        /\ table'[i].addr = table[i].addr
        /\ table'[i].number_id = table[i].number_id
        /\ table[i].addr = p => table'[i].last_hello = hellos
        /\ table[i].addr # p => table'[i].last_hello = table[i].last_hello
  BY <1>1, <1>2 DEF Entry
<1>5. IdsArePlaces'
  BY <1>3, <1>4 DEF IdsArePlaces
<1>6. ASSUME NEW i \in 1 .. Len(table')
      PROVE  \/ table'[i].addr \in missed'
             \/ table'[i].last_hello = heard'[table'[i].addr]
  <2>1. heard \in [Peers -> Int] /\ missed' = missed \ {p} /\ table[i].addr \in Peers
    BY <1>1, <1>3 DEF IInv, TypeOK, RefreshNeighbour, Entry
  <2>2. CASE table[i].addr = p
    BY <1>3, <1>4, <2>1, <2>2 DEF hellos
  <2>3. CASE table[i].addr # p
    <3>1. heard'[table[i].addr] = heard[table[i].addr]
      BY <2>1, <2>3
    <3>2. table[i].addr \in missed \/ table[i].last_hello = heard[table[i].addr]
      BY <1>3 DEF HeardIsRecorded
    <3> QED
      BY <1>3, <1>4, <2>1, <2>3, <3>1, <3>2
  <2> QED
    BY <2>2, <2>3
<1> QED
  BY <1>5, <1>6 DEF HeardIsRecorded

LEMMA AddKeepsIds ==
  ASSUME IInv, IdsArePlaces, HeardIsRecorded, NEW p \in Peers, AddNeighbour(p),
         number_of_neighbours < TableLimit,
         heard' = [heard EXCEPT ![p] = number_of_hello_messages], expired' = expired
  PROVE  IdsArePlaces' /\ HeardIsRecorded'
<1>1. /\ Len(table) \in Nat /\ DOMAIN table = 1 .. Len(table)
      /\ table \in Seq(Entry)
      /\ \A i \in 1 .. Len(table) : table[i] \in Entry
      /\ number_of_neighbours = Len(table) /\ TableLimit \in Nat
  BY TableFacts, NeighboursAssumption DEF IInv, CountMatchesList, table
<1>2. /\ NewEntry(p).addr = p /\ NewEntry(p).last_hello = hellos
      /\ NewEntry(p).number_id = (Len(table) + 1) % IdRange
  BY <1>1 DEF NewEntry, hellos
<1>3. table' = Append(table, NewEntry(p))
  BY DEF AddNeighbour, table
<1>4. /\ Len(table') = Len(table) + 1
      /\ \A i \in 1 .. Len(table) : table'[i] = table[i]
      /\ table'[Len(table) + 1] = NewEntry(p)
  BY <1>1, <1>3
<1>5. \A i \in 1 .. Len(table) : table[i].addr # p
  BY <1>1 DEF AddNeighbour, Known, table
<1>6. heard \in [Peers -> Int] /\ missed' = missed \ {p}
  BY DEF IInv, TypeOK, AddNeighbour
<1>7. ASSUME NEW i \in 1 .. Len(table')
      PROVE  /\ ~expired => table'[i].number_id = i % IdRange
             /\ \/ table'[i].addr \in missed'
                \/ table'[i].last_hello = heard'[table'[i].addr]
  <2>1. CASE i \in 1 .. Len(table)
    <3>1. table[i].addr \in Peers /\ table[i].addr # p /\ table'[i] = table[i]
      BY <1>1, <1>4, <1>5, <2>1 DEF Entry
    <3>2. heard'[table[i].addr] = heard[table[i].addr]
      BY <1>6, <3>1
    <3> QED
      BY <1>6, <2>1, <3>1, <3>2 DEF IdsArePlaces, HeardIsRecorded
  <2>2. CASE i = Len(table) + 1
    BY <1>2, <1>4, <1>6, <2>2 DEF hellos
  <2> QED
    BY <1>1, <1>4, <1>7, <2>1, <2>2
<1>8. ~expired => Len(table') <= TableLimit
  BY <1>1, <1>4
<1> QED
  BY <1>7, <1>8 DEF IdsArePlaces, HeardIsRecorded

LEMMA NextIds ==
  IInv /\ IdsArePlaces /\ HeardIsRecorded /\ [Next]_vars
    => (IdsArePlaces /\ HeardIsRecorded)'
<1> SUFFICES ASSUME IInv, IdsArePlaces, HeardIsRecorded, [Next]_vars
             PROVE  IdsArePlaces' /\ HeardIsRecorded'
  OBVIOUS
<1>1. CASE HandleHelloTimer
  BY <1>1, TimerKeepsIds
<1>2. ASSUME NEW p \in Peers, HandleIncomingHello(p)
      PROVE  IdsArePlaces' /\ HeardIsRecorded'
  <2>1. CASE TableFull(p)
    <3>1. /\ table' = table /\ missed' = missed \cup {p} /\ expired' = expired
          /\ heard' = [heard EXCEPT ![p] = number_of_hello_messages]
          /\ heard \in [Peers -> Int]
          /\ \A i \in 1 .. Len(table) : table[i].addr \in Peers
      BY <1>2, <2>1, TableFacts
      DEF TableFull, HandleIncomingHello, IInv, TypeOK, table
    <3> QED
      BY <3>1 DEF IdsArePlaces, HeardIsRecorded
  <2>2. CASE RefreshNeighbour(p)
    BY <1>2, <2>2, RefreshKeepsIds DEF HandleIncomingHello
  <2>3. CASE AddNeighbour(p) /\ number_of_neighbours < TableLimit
    BY <1>2, <2>3, AddKeepsIds DEF HandleIncomingHello
  <2> QED
    BY <1>2, <2>1, <2>2, <2>3 DEF HandleIncomingHello
<1>3. CASE UNCHANGED vars
  BY <1>3 DEF vars, IdsArePlaces, HeardIsRecorded, table
<1> QED
  BY <1>1, <1>2, <1>3 DEF Next

LEMMA SpecIds == Spec => [](IInv /\ IdsArePlaces /\ HeardIsRecorded)
<1>1. Init => IdsArePlaces /\ HeardIsRecorded
  <2>1. Len(<< >>) = 0
    OBVIOUS
  <2> QED
    BY <2>1, NeighboursAssumption DEF Init, IdsArePlaces, HeardIsRecorded, table
<1> QED
  BY <1>1, InitIInv, NextIInv, NextIds, PTL DEF Spec

\* Until an entry has expired no two neighbours have the same id, also when the
\* table holds as many as the byte the id is kept in can tell apart.
THEOREM IdsDistinct == Spec => []IdsDistinctUntilExpiry
<1>1. IInv /\ IdsArePlaces => IdsDistinctUntilExpiry
  <2>1. SUFFICES ASSUME IInv, IdsArePlaces, ~expired,
                        NEW i \in DOMAIN table, NEW j \in DOMAIN table,
                        table[i].number_id = table[j].number_id
                 PROVE  i = j
    BY DEF IdsDistinctUntilExpiry, table
  <2>2. Len(table) \in Nat /\ DOMAIN table = 1 .. Len(table)
    BY <2>1, TableFacts DEF IInv
  <2>3. i \in 1 .. Len(table) /\ j \in 1 .. Len(table)
    BY <2>1, <2>2
  <2>4. /\ Len(table) <= IdRange
        /\ i % IdRange = j % IdRange
    BY <2>1, <2>2, <2>3, NeighboursAssumption DEF IdsArePlaces
  <2>5. i \in Nat /\ j \in Nat /\ 1 <= i /\ 1 <= j /\ i <= IdRange /\ j <= IdRange
    BY <2>2, <2>3, <2>4, NeighboursAssumption
  <2> QED
    BY <2>4, <2>5, PlacesDiffer
<1> QED
  BY <1>1, SpecIds, PTL

\* A neighbour is removed only when its last Hello is more than MaxHelloDiff
\* Hellos ago, or met a full table.
THEOREM OnlySilentAreRemoved == Spec => OnlySilentRemoved
<1> DEFINE Silent ==
      \A p \in Peers :
        (Known(p) /\ ~Known(p)') =>
          \/ number_of_hello_messages' - heard[p] > MaxHelloDiff
          \/ p \in missed
<1>1. IInv /\ HeardIsRecorded /\ [Next]_vars => [Silent]_vars
  <2>1. SUFFICES ASSUME IInv, HeardIsRecorded, Next, NEW p \in Peers,
                        Known(p), ~Known(p)'
                 PROVE  \/ number_of_hello_messages' - heard[p] > MaxHelloDiff
                        \/ p \in missed
    BY DEF Silent
  <2>2. /\ Len(table) \in Nat /\ DOMAIN table = 1 .. Len(table)
        /\ table \in Seq(Entry)
    BY <2>1, TableFacts DEF IInv
  <2>3. PICK i \in 1 .. Len(table) : table[i].addr = p
    BY <2>1, <2>2 DEF Known, table
  <2>4. CASE HandleHelloTimer
    <3>1. PICK k \in StaleIndices(hellos + 1) :
            neighbour_table_entry_list' = Without(neighbour_table_entry_list, k)
      BY <2>1, <2>4 DEF HandleHelloTimer, CheckNeighboursHello, Known, hellos
    <3>2. k \in 1 .. Len(table)
      BY <2>2, <3>1 DEF StaleIndices, table
    <3>3. /\ DOMAIN table' = 1 .. Len(table) - 1
          /\ \A j \in 1 .. Len(table) - 1 :
               table'[j] = IF j < k THEN table[j] ELSE table[j + 1]
      BY <2>2, <3>1, <3>2, WithoutProperties DEF table
    <3>4. i = k
      <4>1. ~(i < k)
        BY <2>1, <2>2, <2>3, <3>2, <3>3 DEF Known, table
      <4>2. ~(i > k)
        <5>1. SUFFICES ASSUME i > k PROVE FALSE
          OBVIOUS
        <5>2. i - 1 \in 1 .. Len(table) - 1 /\ ~(i - 1 < k) /\ (i - 1) + 1 = i
          BY <2>2, <3>2, <5>1
        <5>3. table'[i - 1] = table[i]
          BY <3>3, <5>2
        <5> QED
          BY <2>1, <2>3, <3>3, <5>2, <5>3 DEF Known, table
      <4> QED
        BY <2>2, <3>2, <4>1, <4>2
    <3>5. (hellos + 1) - table[i].last_hello > MaxHelloDiff
      BY <3>1, <3>4 DEF StaleIndices, Stale, table
    <3>6. p \in missed \/ table[i].last_hello = heard[p]
      BY <2>1, <2>3 DEF HeardIsRecorded
    <3> QED
      BY <2>4, <3>5, <3>6 DEF HandleHelloTimer, hellos
  <2>5. ASSUME NEW q \in Peers, HandleIncomingHello(q) PROVE FALSE
    <3>1. \A j \in 1 .. Len(table) :
            j \in DOMAIN table' /\ table'[j].addr = table[j].addr
      <4>1. CASE TableFull(q)
        BY <2>2, <4>1 DEF TableFull, table
      <4>2. CASE RefreshNeighbour(q)
        BY <2>2, <4>2, ElementOfSeq DEF RefreshNeighbour, table, Entry
      <4>3. CASE AddNeighbour(q)
        <5>1. table' = Append(table, NewEntry(q))
          BY <4>3 DEF AddNeighbour, table
        <5>2. NewEntry(q) \in {NewEntry(q)} \cup Entry /\ Entry \subseteq {NewEntry(q)} \cup Entry
          OBVIOUS
        <5>3. table \in Seq({NewEntry(q)} \cup Entry)
          BY <2>2, <5>2
        <5> QED
          BY <2>2, <5>1, <5>2, <5>3, AppendProperties
      <4> QED
        BY <2>5, <4>1, <4>2, <4>3 DEF HandleIncomingHello
    <3> QED
      BY <2>1, <2>3, <3>1 DEF Known, table
  <2> QED
    BY <2>1, <2>4, <2>5 DEF Next
<1>2. Spec => [][Silent]_vars
  BY <1>1, SpecIds, PTL DEF Spec
<1> QED
  BY <1>2 DEF OnlySilentRemoved
=============================================================================
