----------------------------- MODULE Den2neProofs -----------------------------
(***************************************************************************)
(* Proofs about the load exchange: it leaves the assignment as it is, its  *)
(* counts stay within their bounds, and it neither makes nor destroys load,*)
(* for every network.                                                      *)
(***************************************************************************)
EXTENDS Den2ne, AssignmentProofs

-----------------------------------------------------------------------------
(***************************************************************************)
(* Every step of the exchange is one of the assignment, or none: each      *)
(* handler that deals with both conjoins its two halves.                   *)
(***************************************************************************)
LEMMA AssignmentStep == [Next]_vars => [AssignmentNext]_assignmentVars
<1> SUFFICES ASSUME [Next]_vars PROVE [AssignmentNext]_assignmentVars
  OBVIOUS
<1>1. CASE BeginRound
  BY <1>1 DEF BeginRound, AssignmentNext
<1>2. ASSUME NEW n \in Nodes, BroadcastSetHlmac(n) \/ HandleStatisticTimer(n)
      PROVE  [AssignmentNext]_assignmentVars
  BY <1>2 DEF BroadcastSetHlmac, HandleStatisticTimer, AssignmentNext
<1>3. ASSUME NEW o \in offers, HandleOffer(o) \/ LoseFrame(o)
      PROVE  [AssignmentNext]_assignmentVars
  BY <1>3 DEF HandleOffer, TakeAddress, LeaveAddress, LoseFrame, AssignmentNext
<1>4. ASSUME NEW s \in Nodes, NEW n \in Nodes,
             HandleMessage(s, n) \/ LoseMessage(s, n) \/ RepeatMessage(s, n)
      PROVE  UNCHANGED assignmentVars
  BY <1>4
  DEF HandleMessage, ReceiveLoad, ReceiveShare, LoseMessage, RepeatMessage
<1>5. CASE UNCHANGED vars
  BY <1>5 DEF vars
<1> QED
  BY <1>1, <1>2, <1>3, <1>4, <1>5 DEF Next

\* The load exchange implements the assignment: what is proved of addresses
\* and parents holds while loads are exchanged.
THEOREM ImplementsAssignment == Spec => AssignmentSpec
<1>1. Init => AssignmentInit
  BY DEF Init
<1> QED
  BY <1>1, AssignmentStep, PTL DEF Spec, AssignmentSpec

\* LOAD and SHARE messages follow flags that never form a circle.
THEOREM ExchangeHasNoParentCycle == Spec => []NoParentCycle
BY ImplementsAssignment, NoParentCycleHolds, PTL

-----------------------------------------------------------------------------
(***************************************************************************)
(* The shape of the load exchange, counts included.                        *)
(***************************************************************************)
\* A LOAD has no extra.
Message == [kind : {"LOAD"}, extra : {0}] \cup [kind : {"SHARE"}, extra : Int]

LoadShape ==
  /\ load \in [Nodes -> Int] /\ ledger \in Int
  /\ in_out \in [Nodes -> [Nodes -> Int]]
  /\ unicast \in [Nodes -> [Nodes -> Seq(Message)]]

\* A node awaits as many children as its table has neighbours at most, and
\* never less than none: the counts are bytes without a sign.
CountShape ==
  /\ n_hijos_load \in [Nodes -> Nat] /\ n_hijos_share \in [Nodes -> Nat]
  /\ \A n \in Nodes : /\ n_hijos_load[n] <= number_of_neighbours(n)
                      /\ n_hijos_share[n] <= number_of_neighbours(n)

FlagShape ==
  /\ edge \in [Nodes -> BOOLEAN] /\ statistic_timer \in [Nodes -> BOOLEAN]
  /\ sent_load \in [Nodes -> BOOLEAN] /\ sent_share \in [Nodes -> BOOLEAN]
  /\ has_converged \in BOOLEAN

ExchangeShape == LoadShape /\ CountShape /\ FlagShape

LEMMA ChildrenCounted ==
  ASSUME NEW n \in Nodes
  PROVE  /\ Cardinality(Children(n)) \in Nat
         /\ Cardinality(Children(n)) <= number_of_neighbours(n)
         /\ number_of_neighbours(n) \in Nat
<1>1. Children(n) \subseteq Nbr[n]
  BY DEF Children
<1>2. IsFiniteSet(Nbr[n])
  BY AssignmentAssumption, FS_Subset
<1> QED
  BY <1>1, <1>2, FS_Subset, FS_CardinalityType DEF number_of_neighbours

LEMMA InitExchange == Init => ExchangeShape
<1> SUFFICES ASSUME Init PROVE ExchangeShape
  OBVIOUS
<1>1. << >> \in Seq(Message)
  BY EmptySeq
<1>2. \A n \in Nodes : number_of_neighbours(n) \in Nat
  BY ChildrenCounted
<1>3. CountShape
  BY <1>2 DEF Init, CountShape
<1>4. LoadShape
  BY <1>1 DEF Init, LoadShape
<1>5. FlagShape
  BY DEF Init, FlagShape
<1> QED
  BY <1>3, <1>4, <1>5 DEF ExchangeShape

LEMMA MessagesMade ==
  ASSUME NEW held \in Int
  PROVE  Load \in Message /\ Share(held) \in Message
BY DEF Load, Share, Message

LEMMA SentShape ==
  ASSUME LoadShape, NEW n \in Nodes, NEW msgs \in Seq(Message)
  PROVE  SentToParents(n, msgs) \in [Nodes -> Seq(Message)]
<1>1. \A m \in Nodes : unicast[n][m] \in Seq(Message)
  BY DEF LoadShape
<1>2. \A m \in Nodes : unicast[n][m] \o msgs \in Seq(Message)
  BY <1>1, ConcatProperties
<1> QED
  BY <1>1, <1>2 DEF SentToParents

LEMMA DrawnShape ==
  ASSUME LoadShape, NEW n \in Nodes, NEW isHead, DrawLoad(n, isHead)
  PROVE  load' \in [Nodes -> Int] /\ ledger' \in Int
<1>1. ASSUME NEW l \in Loads, load' = [load EXCEPT ![n] = l],
             ledger' = ledger + l - load[n]
      PROVE  load' \in [Nodes -> Int] /\ ledger' \in Int
  <2>1. l \in Int /\ load[n] \in Int /\ load \in [Nodes -> Int] /\ ledger \in Int
    BY Den2neAssumption DEF LoadShape
  <2> QED
    BY <1>1, <2>1
<1> QED
  BY <1>1 DEF DrawLoad, LoadShape

LEMMA ConvergenceShape ==
  ASSUME FlagShape, NEW n \in Nodes, CheckConvergence(n)
  PROVE  has_converged' \in BOOLEAN
BY DEF CheckConvergence, FlagShape

-----------------------------------------------------------------------------
LEMMA BeginRoundShape == ASSUME ExchangeShape, BeginRound PROVE ExchangeShape'
<1>1. load' \in [Nodes -> Int] /\ ledger' \in Int
  BY DrawnShape, AssignmentAssumption DEF BeginRound, ExchangeShape
<1> QED
  BY <1>1, AssignmentAssumption
  DEF BeginRound, ExchangeShape, LoadShape, CountShape, FlagShape,
      number_of_neighbours

LEMMA TakeAddressShape ==
  ASSUME ExchangeShape, NEW o \in offers, o.to \in Nodes, TakeAddress(o)
  PROVE  ExchangeShape'
<1>1. load' \in [Nodes -> Int] /\ ledger' \in Int
  BY DrawnShape DEF TakeAddress, ExchangeShape
<1>2. has_converged' \in BOOLEAN
  BY ConvergenceShape DEF TakeAddress, ExchangeShape
<1>3. FlagShape'
  BY <1>2 DEF TakeAddress, ExchangeShape, FlagShape
<1> QED
  BY <1>1, <1>3
  DEF TakeAddress, ExchangeShape, LoadShape, CountShape, number_of_neighbours

LEMMA LeaveAddressShape ==
  ASSUME ExchangeShape, NEW o \in offers, o.to \in Nodes, LeaveAddress(o)
  PROVE  ExchangeShape'
<1>1. has_converged' \in BOOLEAN
  BY ConvergenceShape DEF LeaveAddress, ExchangeShape
<1> QED
  BY <1>1
  DEF LeaveAddress, ExchangeShape, LoadShape, CountShape, FlagShape,
      number_of_neighbours

LEMMA StatisticTimerShape ==
  ASSUME ExchangeShape, NEW n \in Nodes, HandleStatisticTimer(n)
  PROVE  ExchangeShape'
<1> DEFINE hijos == Cardinality(Children(n))
           msgs == <<Load, Share(load[n])>>
<1>1. /\ hijos \in Nat /\ hijos <= number_of_neighbours(n)
      /\ n_hijos_load' = [n_hijos_load EXCEPT ![n] = hijos]
      /\ n_hijos_share' = [n_hijos_share EXCEPT ![n] = hijos]
  BY ChildrenCounted DEF HandleStatisticTimer
<1>2. CountShape'
  BY <1>1 DEF ExchangeShape, CountShape, number_of_neighbours
<1>3. FlagShape'
  BY DEF HandleStatisticTimer, ExchangeShape, FlagShape
<1>4. load[n] \in Int /\ msgs \in Seq(Message)
  <2>1. load[n] \in Int
    BY DEF ExchangeShape, LoadShape
  <2> QED
    BY <2>1, MessagesMade
<1>5. SentToParents(n, msgs) \in [Nodes -> Seq(Message)]
  BY <1>4, SentShape DEF ExchangeShape
<1>6. FlowsAfterShare(n, load[n], in_out[n]) \in [Nodes -> Int]
  BY <1>4 DEF FlowsAfterShare, ExchangeShape, LoadShape
<1>7. LoadShape'
  <2>1. CASE UNCHANGED <<load, in_out, unicast>>
    BY <2>1 DEF HandleStatisticTimer, ExchangeShape, LoadShape
  <2>2. CASE /\ load' = [load EXCEPT ![n] = 100]
             /\ in_out' = [in_out EXCEPT ![n] = FlowsAfterShare(n, load[n], in_out[n])]
             /\ unicast' = [unicast EXCEPT ![n] = SentToParents(n, msgs)]
    <3>1. ledger' = ledger
      BY DEF HandleStatisticTimer
    <3>2. /\ load \in [Nodes -> Int] /\ ledger \in Int
          /\ in_out \in [Nodes -> [Nodes -> Int]]
          /\ unicast \in [Nodes -> [Nodes -> Seq(Message)]]
      BY DEF ExchangeShape, LoadShape
    <3>3. load' \in [Nodes -> Int]
      BY <2>2, <3>2
    <3>4. in_out' \in [Nodes -> [Nodes -> Int]]
      BY <1>6, <2>2, <3>2
    <3>5. unicast' \in [Nodes -> [Nodes -> Seq(Message)]]
      BY <1>5, <2>2, <3>2
    <3> QED
      BY <3>1, <3>2, <3>3, <3>4, <3>5 DEF LoadShape
  <2> QED
    BY <2>1, <2>2 DEF HandleStatisticTimer
<1> QED
  BY <1>2, <1>3, <1>7 DEF ExchangeShape

LEMMA HeadTyped ==
  ASSUME LoadShape, NEW s \in Nodes, NEW n \in Nodes, unicast[s][n] # << >>
  PROVE  /\ Head(unicast[s][n]).extra \in Int
         /\ Popped(s, n) \in [Nodes -> [Nodes -> Seq(Message)]]
<1>1. unicast[s][n] \in Seq(Message)
  BY DEF LoadShape
<1>2. Head(unicast[s][n]) \in Message /\ Tail(unicast[s][n]) \in Seq(Message)
  BY <1>1, HeadTailProperties
<1>3. Popped(s, n) = [unicast EXCEPT ![s][n] = Tail(unicast[s][n])]
  BY DEF Popped
<1> QED
  BY <1>2, <1>3 DEF LoadShape, Message

\* What is left to wait for stays between none and the neighbours.
LEMMA CountedDown ==
  ASSUME CountShape, NEW s \in Nodes, NEW n \in Nodes
  PROVE  /\ LET left == n_hijos_load[n] - (IF Counts(s, n, n_hijos_load) THEN 1 ELSE 0)
            IN  left \in Nat /\ left <= number_of_neighbours(n)
         /\ Counts(s, n, n_hijos_share) =>
              /\ n_hijos_share[n] - 1 \in Nat
              /\ n_hijos_share[n] - 1 <= number_of_neighbours(n)
<1>1. /\ n_hijos_load[n] \in Nat /\ n_hijos_share[n] \in Nat
      /\ n_hijos_load[n] <= number_of_neighbours(n)
      /\ n_hijos_share[n] <= number_of_neighbours(n)
      /\ number_of_neighbours(n) \in Nat
  BY ChildrenCounted DEF CountShape
<1>2. Counts(s, n, n_hijos_load) => n_hijos_load[n] # 0
  BY DEF Counts
<1>3. Counts(s, n, n_hijos_share) => n_hijos_share[n] # 0
  BY DEF Counts
<1> QED
  BY <1>1, <1>2, <1>3

LEMMA ReceiveLoadShape ==
  ASSUME ExchangeShape, NEW s \in Nodes, NEW n \in Nodes, ReceiveLoad(s, n)
  PROVE  ExchangeShape'
<1> DEFINE left  == n_hijos_load[n] - (IF Counts(s, n, n_hijos_load) THEN 1 ELSE 0)
           sends == /\ n # Root /\ s \in Nbr[n]
                    /\ ~edge[n] /\ ~sent_load[n] /\ left = 0
<1>1. /\ unicast[s][n] # << >>
      /\ n_hijos_load' = [n_hijos_load EXCEPT ![n] = left]
      /\ sent_load' = [sent_load EXCEPT ![n] = sent_load[n] \/ sends]
      /\ unicast' = [Popped(s, n) EXCEPT ![n] =
           IF sends THEN SentToParents(n, <<Load>>) ELSE Popped(s, n)[n]]
      /\ UNCHANGED <<load, edge, sent_share, n_hijos_share, statistic_timer,
                     in_out, ledger>>
      /\ CheckConvergence(n) \/ UNCHANGED has_converged
  BY DEF ReceiveLoad
<1>2. left \in Nat /\ left <= number_of_neighbours(n)
  BY CountedDown DEF ExchangeShape
<1> HIDE DEF left
<1>3. CountShape'
  BY <1>1, <1>2 DEF ExchangeShape, CountShape, number_of_neighbours
<1>4. has_converged' \in BOOLEAN
  BY <1>1, ConvergenceShape DEF ExchangeShape, FlagShape
<1>5. FlagShape'
  <2>1. sent_load \in [Nodes -> BOOLEAN] /\ sends \in BOOLEAN
    BY DEF ExchangeShape, FlagShape
  <2> HIDE DEF sends
  <2>2. (sent_load[n] \/ sends) \in BOOLEAN
    BY <2>1
  <2> QED
    BY <1>1, <1>4, <2>1, <2>2 DEF ExchangeShape, FlagShape
<1>6. unicast' \in [Nodes -> [Nodes -> Seq(Message)]]
  <2>1. Popped(s, n) \in [Nodes -> [Nodes -> Seq(Message)]]
    BY <1>1, HeadTyped DEF ExchangeShape
  <2>2. <<Load>> \in Seq(Message)
    BY MessagesMade
  <2>3. SentToParents(n, <<Load>>) \in [Nodes -> Seq(Message)]
    BY <2>2, SentShape DEF ExchangeShape
  <2> HIDE DEF sends
  <2> QED
    BY <1>1, <2>1, <2>3
<1> QED
  BY <1>1, <1>3, <1>5, <1>6 DEF ExchangeShape, LoadShape

LEMMA ReceiveShareShape ==
  ASSUME ExchangeShape, NEW s \in Nodes, NEW n \in Nodes, ReceiveShare(s, n)
  PROVE  ExchangeShape'
<1> DEFINE extra == Head(unicast[s][n]).extra
           held  == load[n] + extra
           flows == FlowsAfterReceipt(s, n, extra)
<1>1. /\ unicast[s][n] # << >>
      /\ ShareCounts(s, n, extra) \/ ShareIgnored(s, n, extra)
      /\ UNCHANGED <<edge, sent_load, statistic_timer>>
  BY DEF ReceiveShare
<1>2. extra \in Int /\ Popped(s, n) \in [Nodes -> [Nodes -> Seq(Message)]]
  BY <1>1, HeadTyped DEF ExchangeShape
<1>3. held \in Int /\ load \in [Nodes -> Int] /\ ledger - extra \in Int
  <2>1. /\ extra \in Int /\ load \in [Nodes -> Int]
        /\ load[n] \in Int /\ ledger \in Int
    BY <1>2 DEF ExchangeShape, LoadShape
  <2> HIDE DEF extra
  <2> QED
    BY <2>1
<1>4. flows \in [Nodes -> Int] /\ in_out \in [Nodes -> [Nodes -> Int]]
  BY <1>2 DEF FlowsAfterReceipt, ExchangeShape, LoadShape
<1>5. FlowsAfterShare(n, held, flows) \in [Nodes -> Int]
  BY <1>3, <1>4 DEF FlowsAfterShare
<1>6. SentToParents(n, <<Share(held)>>) \in [Nodes -> Seq(Message)]
  <2>1. <<Share(held)>> \in Seq(Message)
    BY <1>3, MessagesMade
  <2> QED
    BY <2>1, SentShape DEF ExchangeShape
<1> HIDE DEF extra, held, flows
<1>7. CASE ShareIgnored(s, n, extra)
  <2>1. /\ in_out' = [in_out EXCEPT ![n] = flows]
        /\ unicast' = Popped(s, n) /\ ledger' = ledger - extra
        /\ UNCHANGED <<n_hijos_load, n_hijos_share, load, sent_share, has_converged>>
    BY <1>7 DEF ShareIgnored, flows
  <2>2. LoadShape'
    BY <1>2, <1>3, <1>4, <2>1 DEF LoadShape
  <2> QED
    BY <1>1, <2>1, <2>2
    DEF ExchangeShape, CountShape, FlagShape, number_of_neighbours
<1>8. CASE ShareCounts(s, n, extra)
  <2> DEFINE sends == n # Root /\ n_hijos_share[n] = 1 /\ ~sent_share[n]
  <2>1. /\ Counts(s, n, n_hijos_share)
        /\ n_hijos_share' = [n_hijos_share EXCEPT ![n] = n_hijos_share[n] - 1]
        /\ sent_share' = [sent_share EXCEPT ![n] = sent_share[n] \/ sends]
        /\ UNCHANGED <<n_hijos_load, ledger>>
        /\ CheckConvergence(n)
        /\ \/ /\ load' = [load EXCEPT ![n] = 100]
              /\ in_out' = [in_out EXCEPT ![n] = FlowsAfterShare(n, held, flows)]
              /\ unicast' = [Popped(s, n) EXCEPT ![n] =
                   SentToParents(n, <<Share(held)>>)]
           \/ /\ load' = [load EXCEPT ![n] = held]
              /\ in_out' = [in_out EXCEPT ![n] = flows]
              /\ unicast' = Popped(s, n)
    BY <1>8 DEF ShareCounts, held, flows
  <2>2. CountShape'
    <3>1. /\ n_hijos_share[n] - 1 \in Nat
          /\ n_hijos_share[n] - 1 <= number_of_neighbours(n)
      BY <2>1, CountedDown DEF ExchangeShape
    <3> QED
      BY <2>1, <3>1 DEF ExchangeShape, CountShape, number_of_neighbours
  <2>3. FlagShape'
    <3>1. has_converged' \in BOOLEAN
      BY <2>1, ConvergenceShape DEF ExchangeShape
    <3>2. sent_share \in [Nodes -> BOOLEAN] /\ (sent_share[n] \/ sends) \in BOOLEAN
      BY DEF ExchangeShape, FlagShape
    <3> HIDE DEF sends
    <3> QED
      BY <1>1, <2>1, <3>1, <3>2 DEF ExchangeShape, FlagShape
  <2>4. LoadShape'
    <3>1. ledger' \in Int
      BY <2>1 DEF ExchangeShape, LoadShape
    <3>2. load' \in [Nodes -> Int]
      BY <1>3, <2>1
    <3>3. in_out' \in [Nodes -> [Nodes -> Int]]
      BY <1>4, <1>5, <2>1
    <3>4. unicast' \in [Nodes -> [Nodes -> Seq(Message)]]
      BY <1>2, <1>6, <2>1
    <3> QED
      BY <3>1, <3>2, <3>3, <3>4 DEF LoadShape
  <2> QED
    BY <2>2, <2>3, <2>4 DEF ExchangeShape
<1> QED
  BY <1>1, <1>7, <1>8

\* What is lost, or taken once more, is taken from or put into one queue.
LEMMA QueuesShape ==
  ASSUME ExchangeShape, NEW s \in Nodes, NEW n \in Nodes,
         NEW queue \in Seq(Message),
         unicast' = [unicast EXCEPT ![s][n] = queue], ledger' \in Int,
         UNCHANGED <<assignmentVars, load, edge, sent_load, sent_share,
                     n_hijos_load, n_hijos_share, has_converged,
                     statistic_timer, in_out>>
  PROVE  ExchangeShape'
<1>1. LoadShape'
  BY DEF ExchangeShape, LoadShape
<1> QED
  BY <1>1 DEF ExchangeShape, CountShape, FlagShape

LEMMA LoseMessageShape ==
  ASSUME ExchangeShape, NEW s \in Nodes, NEW n \in Nodes, LoseMessage(s, n)
  PROVE  ExchangeShape'
<1> DEFINE queue == unicast[s][n]
<1>1. PICK i \in DOMAIN queue :
        /\ unicast' = [unicast EXCEPT ![s][n] = RemoveAt(queue, i)]
        /\ ledger' = ledger - queue[i].extra
  BY DEF LoseMessage
<1>2. queue \in Seq(Message) /\ ledger \in Int
  BY DEF ExchangeShape, LoadShape
<1> HIDE DEF queue
<1>3. i \in 1 .. Len(queue) /\ Len(queue) \in Nat /\ queue[i] \in Message
  BY <1>1, <1>2
<1>4. ledger' \in Int
  <2>1. queue[i].extra \in Int
    BY <1>3 DEF Message
  <2> QED
    BY <1>1, <1>2, <2>1
<1>5. RemoveAt(queue, i) \in Seq(Message)
  <2>1. i - 1 \in Int /\ i + 1 \in Int /\ Len(queue) \in Int
    BY <1>3
  <2>2. /\ \A j \in 1 .. i - 1 : queue[j] \in Message
        /\ \A j \in i + 1 .. Len(queue) : queue[j] \in Message
    BY <1>2, <1>3
  <2>3. SubSeq(queue, 1, i - 1) \in Seq(Message)
    BY <2>1, <2>2, SubSeqProperties
  <2>4. SubSeq(queue, i + 1, Len(queue)) \in Seq(Message)
    BY <2>1, <2>2, SubSeqProperties
  <2> QED
    BY <2>3, <2>4, ConcatProperties DEF RemoveAt
<1>6. UNCHANGED <<assignmentVars, load, edge, sent_load, sent_share,
                  n_hijos_load, n_hijos_share, has_converged,
                  statistic_timer, in_out>>
  BY DEF LoseMessage
<1>7. unicast' = [unicast EXCEPT ![s][n] = RemoveAt(queue, i)]
  BY <1>1
<1> QED
  BY <1>4, <1>5, <1>6, <1>7, QueuesShape

LEMMA RepeatMessageShape ==
  ASSUME ExchangeShape, NEW s \in Nodes, NEW n \in Nodes, RepeatMessage(s, n)
  PROVE  ExchangeShape'
<1> DEFINE queue == unicast[s][n]
<1>1. /\ queue # << >>
      /\ unicast' = [unicast EXCEPT ![s][n] = <<Head(queue)>> \o queue]
      /\ ledger' = ledger + Head(queue).extra
      /\ UNCHANGED <<assignmentVars, load, edge, sent_load, sent_share,
                     n_hijos_load, n_hijos_share, has_converged,
                     statistic_timer, in_out>>
  BY DEF RepeatMessage
<1>2. queue \in Seq(Message) /\ ledger \in Int
  BY DEF ExchangeShape, LoadShape
<1> HIDE DEF queue
<1>3. Head(queue) \in Message /\ Head(queue).extra \in Int
  <2>1. Head(queue) \in Message
    BY <1>1, <1>2, HeadTailProperties
  <2> QED
    BY <2>1 DEF Message
<1>4. ledger' \in Int
  BY <1>1, <1>2, <1>3
<1>5. <<Head(queue)>> \o queue \in Seq(Message)
  <2>1. <<Head(queue)>> \in Seq(Message)
    BY <1>3
  <2> QED
    BY <1>2, <2>1, ConcatProperties
<1> QED
  BY <1>1, <1>4, <1>5, QueuesShape

LEMMA NextExchange ==
  ASSUME ExchangeShape, AssignmentTypeOK, [Next]_vars
  PROVE  ExchangeShape'
<1>1. CASE BeginRound
  BY <1>1, BeginRoundShape
<1>2. ASSUME NEW n \in Nodes, BroadcastSetHlmac(n) \/ HandleStatisticTimer(n)
      PROVE  ExchangeShape'
  <2>1. CASE BroadcastSetHlmac(n)
    BY <2>1
    DEF BroadcastSetHlmac, loadVars, ExchangeShape, LoadShape, CountShape,
        FlagShape
  <2> QED
    BY <1>2, <2>1, StatisticTimerShape
<1>3. ASSUME NEW o \in offers, HandleOffer(o) \/ LoseFrame(o)
      PROVE  ExchangeShape'
  <2>1. o.to \in Nodes
    BY DEF AssignmentTypeOK, Offer
  <2>2. CASE LoseFrame(o)
    BY <2>2
    DEF LoseFrame, loadVars, ExchangeShape, LoadShape, CountShape, FlagShape
  <2> QED
    BY <1>3, <2>1, <2>2, TakeAddressShape, LeaveAddressShape DEF HandleOffer
<1>4. ASSUME NEW s \in Nodes, NEW n \in Nodes,
             HandleMessage(s, n) \/ LoseMessage(s, n) \/ RepeatMessage(s, n)
      PROVE  ExchangeShape'
  BY <1>4, ReceiveLoadShape, ReceiveShareShape, LoseMessageShape,
     RepeatMessageShape
  DEF HandleMessage
<1>5. CASE UNCHANGED vars
  BY <1>5
  DEF vars, loadVars, ExchangeShape, LoadShape, CountShape, FlagShape
<1> QED
  BY <1>1, <1>2, <1>3, <1>4, <1>5 DEF Next

\* The count of the children a node waits for never passes zero nor the
\* neighbours of the node, whatever is lost, repeated or late: a byte below
\* zero would be 255 children, and the node would wait for ever.
THEOREM Den2neTypeCorrect == Spec => []TypeOK
<1>1. Spec => []AssignmentTypeOK
  BY ImplementsAssignment, AssignmentTypeCorrect, PTL
<1>2. ExchangeShape /\ AssignmentTypeOK /\ [Next]_vars => ExchangeShape'
  BY NextExchange
<1>3. ExchangeShape /\ AssignmentTypeOK => TypeOK
  <2> SUFFICES ASSUME ExchangeShape, AssignmentTypeOK PROVE TypeOK
    OBVIOUS
  <2>1. ASSUME NEW n \in Nodes
        PROVE  {n_hijos_load[n], n_hijos_share[n]} \subseteq
                 0 .. number_of_neighbours(n)
    <3>1. /\ n_hijos_load[n] \in Nat /\ n_hijos_load[n] <= number_of_neighbours(n)
          /\ n_hijos_share[n] \in Nat /\ n_hijos_share[n] <= number_of_neighbours(n)
          /\ number_of_neighbours(n) \in Nat
      BY ChildrenCounted DEF ExchangeShape, CountShape
    <3> QED
      BY <3>1
  <2>2. ASSUME NEW n \in Nodes
        PROVE  {edge[n], sent_load[n], sent_share[n], statistic_timer[n]}
                 \subseteq BOOLEAN
    BY DEF ExchangeShape, FlagShape
  <2>3. ASSUME NEW n \in Nodes, NEW m \in Nodes, NEW i \in DOMAIN unicast[n][m]
        PROVE  unicast[n][m][i].kind \in {"LOAD", "SHARE"}
    <3>1. unicast[n][m] \in Seq(Message)
      BY DEF ExchangeShape, LoadShape
    <3>2. unicast[n][m][i] \in Message
      BY <3>1
    <3> QED
      BY <3>2 DEF Message
  <2>4. /\ load \in [Nodes -> Int] /\ in_out \in [Nodes -> [Nodes -> Int]]
        /\ ledger \in Int /\ has_converged \in BOOLEAN
    BY DEF ExchangeShape, LoadShape, FlagShape
  <2> QED
    BY <2>1, <2>2, <2>3, <2>4 DEF TypeOK
<1> QED
  BY <1>1, <1>2, <1>3, InitExchange, PTL DEF Spec

-----------------------------------------------------------------------------
(***************************************************************************)
(* Sums of loads.  Every step adds a message to a queue or takes one from  *)
(* it, and changes the load of one node at most.                           *)
(***************************************************************************)
ExtraAt(q) == [i \in DOMAIN q |-> q[i].extra]

LEMMA ExtraTyped ==
  ASSUME NEW q \in Seq(Message)
  PROVE  /\ DOMAIN q = 1 .. Len(q) /\ Len(q) \in Nat /\ IsFiniteSet(1 .. Len(q))
         /\ \A i \in 1 .. Len(q) : ExtraAt(q)[i] = q[i].extra /\ q[i].extra \in Int
         /\ ExtraOf(q) = SumFunctionOnSet(ExtraAt(q), 1 .. Len(q))
         /\ ExtraOf(q) \in Int
<1>1. DOMAIN q = 1 .. Len(q) /\ Len(q) \in Nat /\ IsFiniteSet(1 .. Len(q))
  <2>1. DOMAIN q = 1 .. Len(q) /\ Len(q) \in Nat
    OBVIOUS
  <2> QED
    BY <2>1, FS_Interval
<1>2. \A i \in 1 .. Len(q) : q[i] \in Message
  OBVIOUS
<1>3. \A i \in 1 .. Len(q) : ExtraAt(q)[i] = q[i].extra /\ q[i].extra \in Int
  BY <1>1, <1>2 DEF ExtraAt, Message
<1>4. ExtraOf(q) = SumFunctionOnSet(ExtraAt(q), 1 .. Len(q))
  BY <1>1 DEF ExtraOf, SumFunction, ExtraAt
<1>5. ExtraOf(q) \in Int
  BY <1>1, <1>3, <1>4, SumType
<1> QED
  BY <1>1, <1>3, <1>4, <1>5

\* r is q without its i-th message.
OneTaken(q, r, i) ==
  /\ i \in 1 .. Len(q) /\ Len(r) = Len(q) - 1
  /\ \A j \in 1 .. Len(r) : r[j] = q[IF j < i THEN j ELSE j + 1]

LEMMA ExtraTaken ==
  ASSUME NEW q \in Seq(Message), NEW r \in Seq(Message), NEW i, OneTaken(q, r, i)
  PROVE  ExtraOf(q) = ExtraOf(r) + q[i].extra
<1> DEFINE A == 1 .. Len(q)
           B == 1 .. Len(r)
           h == [j \in B |-> IF j < i THEN j ELSE j + 1]
<1>1. /\ IsFiniteSet(A) /\ IsFiniteSet(B)
      /\ \A j \in A : ExtraAt(q)[j] = q[j].extra /\ q[j].extra \in Int
      /\ \A j \in B : ExtraAt(r)[j] = r[j].extra /\ r[j].extra \in Int
      /\ ExtraOf(q) = SumFunctionOnSet(ExtraAt(q), A)
      /\ ExtraOf(r) = SumFunctionOnSet(ExtraAt(r), B)
      /\ Len(q) \in Nat /\ Len(r) \in Nat /\ ExtraOf(r) \in Int
  BY ExtraTyped
<1>2. i \in A /\ Len(r) = Len(q) - 1 /\ \A j \in B : r[j] = q[h[j]]
  BY DEF OneTaken
<1>3. \A j \in B : h[j] \in A
  BY <1>1, <1>2
<1>4. \A j, k \in B : h[j] = h[k] => j = k
  BY <1>1, <1>2
<1>5. {h[j] : j \in B} = A \ {i}
  <2>1. ASSUME NEW k \in A \ {i} PROVE \E j \in B : h[j] = k
    <3>1. CASE k < i
      <4>1. k \in B /\ h[k] = k
        BY <1>1, <1>2, <3>1
      <4> QED
        BY <4>1
    <3>2. CASE ~ (k < i)
      <4>1. k - 1 \in B /\ h[k - 1] = k
        BY <1>1, <1>2, <3>2
      <4> QED
        BY <4>1
    <3> QED
      BY <3>1, <3>2
  <2>2. ASSUME NEW j \in B PROVE h[j] \in A \ {i}
    BY <1>1, <1>2
  <2> HIDE DEF h
  <2> QED
    BY <2>1, <2>2
<1>6. \A j \in B : ExtraAt(r)[j] \in Int /\ ExtraAt(q)[h[j]] = ExtraAt(r)[j]
  <2> HIDE DEF h, A, B
  <2> QED
    BY <1>1, <1>2, <1>3
<1> DEFINE f == ExtraAt(q)
           g == ExtraAt(r)
<1> HIDE DEF h, A, B
<1>7. SumFunctionOnSet(g, B) = SumFunctionOnSet(f, A \ {i})
  <2>1. IsFiniteSet(B) /\ \A j \in B : g[j] \in Int /\ f[h[j]] = g[j]
    BY <1>1, <1>6
  <2> HIDE DEF f, g
  <2>2. SumFunctionOnSet(g, B) = SumFunctionOnSet(f, {h[j] : j \in B})
    BY <1>4, <2>1, SumReindexed
  <2> QED
    BY <1>5, <2>2
<1>8. SumFunctionOnSet(ExtraAt(q), A) =
        ExtraAt(q)[i] + SumFunctionOnSet(ExtraAt(q), A \ {i})
  BY <1>1, <1>2, SumByElement
<1>9. ExtraAt(q)[i] = q[i].extra /\ q[i].extra \in Int
  BY <1>1, <1>2
<1> DEFINE x == q[i].extra
           y == ExtraOf(r)
<1>10. ExtraOf(q) = x + y /\ x \in Int /\ y \in Int
  BY <1>1, <1>7, <1>8, <1>9
<1> HIDE DEF x, y
<1>11. ExtraOf(q) = y + x
  BY <1>10
<1> QED
  BY <1>11 DEF x, y

LEMMA ExtraAppended ==
  ASSUME NEW q \in Seq(Message), NEW m \in Message
  PROVE  q \o <<m>> \in Seq(Message) /\ ExtraOf(q \o <<m>>) = ExtraOf(q) + m.extra
<1> DEFINE p == q \o <<m>>
<1>1. /\ p \in Seq(Message) /\ Len(p) = Len(q) + 1 /\ p[Len(p)] = m
      /\ \A j \in 1 .. Len(q) : p[j] = q[j]
  OBVIOUS
<1> HIDE DEF p
<1>2. OneTaken(p, q, Len(p))
  BY <1>1 DEF OneTaken
<1>3. ExtraOf(p) = ExtraOf(q) + m.extra
  BY <1>1, <1>2, ExtraTaken
<1> QED
  BY <1>1, <1>3 DEF p

LEMMA ExtraOfTail ==
  ASSUME NEW q \in Seq(Message), q # << >>
  PROVE  /\ Tail(q) \in Seq(Message) /\ Head(q) \in Message /\ Head(q).extra \in Int
         /\ ExtraOf(q) = ExtraOf(Tail(q)) + Head(q).extra
<1>1. /\ Tail(q) \in Seq(Message) /\ Len(Tail(q)) = Len(q) - 1 /\ Head(q) = q[1]
      /\ \A j \in 1 .. Len(Tail(q)) : Tail(q)[j] = q[j + 1]
      /\ 1 \in 1 .. Len(q) /\ Len(q) \in Nat
  OBVIOUS
<1>2. OneTaken(q, Tail(q), 1)
  BY <1>1 DEF OneTaken
<1>3. q[1].extra \in Int /\ q[1] \in Message
  BY <1>1, ExtraTyped
<1>4. ExtraOf(q) = ExtraOf(Tail(q)) + q[1].extra
  BY <1>1, <1>2, ExtraTaken
<1> QED
  BY <1>1, <1>3, <1>4

LEMMA ExtraOfRemoved ==
  ASSUME NEW q \in Seq(Message), NEW i \in 1 .. Len(q)
  PROVE  /\ RemoveAt(q, i) \in Seq(Message)
         /\ ExtraOf(q) = ExtraOf(RemoveAt(q, i)) + q[i].extra
<1> DEFINE a == SubSeq(q, 1, i - 1)
           b == SubSeq(q, i + 1, Len(q))
<1>1. /\ Len(q) \in Nat /\ i - 1 \in Int /\ i + 1 \in Int /\ i \in Int
      /\ \A j \in 1 .. Len(q) : q[j] \in Message
  OBVIOUS
<1>2. /\ a \in Seq(Message) /\ Len(a) = i - 1
      /\ \A j \in 1 .. i - 1 : a[j] = q[j]
  OBVIOUS
<1>3. /\ b \in Seq(Message) /\ Len(b) = Len(q) - i
      /\ \A j \in 1 .. Len(q) - i : b[j] = q[i + j]
  OBVIOUS
<1>0. RemoveAt(q, i) = a \o b
  BY DEF RemoveAt
<1> HIDE DEF a, b
<1>4. /\ a \o b \in Seq(Message) /\ Len(a \o b) = Len(q) - 1
      /\ \A j \in 1 .. Len(q) - 1 : (a \o b)[j] = IF j < i THEN a[j] ELSE b[j - i + 1]
  <2>1. /\ a \o b \in Seq(Message) /\ Len(a \o b) = Len(a) + Len(b)
        /\ \A j \in 1 .. Len(a) + Len(b) :
             (a \o b)[j] = IF j <= Len(a) THEN a[j] ELSE b[j - Len(a)]
    BY <1>2, <1>3, ConcatProperties
  <2>2. Len(a) + Len(b) = Len(q) - 1
    BY <1>1, <1>2, <1>3
  <2>3. \A j \in 1 .. Len(q) - 1 :
          (j < i <=> j <= Len(a)) /\ j - Len(a) = j - i + 1
    BY <1>1, <1>2
  <2> QED
    BY <2>1, <2>2, <2>3
<1>5. \A j \in 1 .. Len(q) - 1 : (a \o b)[j] = q[IF j < i THEN j ELSE j + 1]
  <2> SUFFICES ASSUME NEW j \in 1 .. Len(q) - 1
               PROVE  (a \o b)[j] = q[IF j < i THEN j ELSE j + 1]
    OBVIOUS
  <2>1. CASE j < i
    BY <1>1, <1>2, <1>4, <2>1
  <2>2. CASE ~ (j < i)
    <3>1. j - i + 1 \in 1 .. Len(q) - i /\ i + (j - i + 1) = j + 1
      BY <1>1, <2>2
    <3>2. b[j - i + 1] = q[j + 1]
      BY <1>3, <3>1
    <3> QED
      BY <1>4, <2>2, <3>2
  <2> QED
    BY <2>1, <2>2
<1>6. OneTaken(q, a \o b, i)
  BY <1>4, <1>5 DEF OneTaken
<1>7. ExtraOf(q) = ExtraOf(a \o b) + q[i].extra
  BY <1>4, <1>6, ExtraTaken
<1> QED
  BY <1>0, <1>4, <1>7

LEMMA ExtraRepeated ==
  ASSUME NEW q \in Seq(Message), q # << >>
  PROVE  /\ <<Head(q)>> \o q \in Seq(Message)
         /\ ExtraOf(<<Head(q)>> \o q) = ExtraOf(q) + Head(q).extra
<1> DEFINE p == <<Head(q)>> \o q
<1>1. Head(q) \in Message /\ <<Head(q)>> \in Seq(Message)
  BY HeadTailProperties
<1>2. /\ p \in Seq(Message) /\ Len(p) = Len(q) + 1 /\ p[1] = Head(q)
      /\ 1 \in 1 .. Len(p) /\ \A j \in 1 .. Len(q) : p[j + 1] = q[j]
  BY <1>1
<1> HIDE DEF p
<1>3. OneTaken(p, q, 1)
  BY <1>2 DEF OneTaken
<1>4. ExtraOf(p) = ExtraOf(q) + p[1].extra
  BY <1>2, <1>3, ExtraTaken
<1>5. p[1] = Head(q) /\ p \in Seq(Message)
  BY <1>2
<1>6. ExtraOf(p) = ExtraOf(q) + Head(q).extra
  BY <1>4, <1>5
<1> QED
  BY <1>5, <1>6 DEF p

-----------------------------------------------------------------------------
Queues == [Nodes -> [Nodes -> Seq(Message)]]

\* What a node holds on its way to the others, and what all of them do.
RowExtra(row) == SumFunction([m \in Nodes |-> ExtraOf(row[m])])

Travelling(u) == SumFunction([n \in Nodes |-> RowExtra(u[n])])

LEMMA OneTermChanges ==
  ASSUME NEW f \in [Nodes -> Int], NEW g \in [Nodes -> Int], NEW n \in Nodes,
         \A m \in Nodes \ {n} : f[m] = g[m]
  PROVE  /\ SumFunction(f) \in Int
         /\ SumFunction(g) = SumFunction(f) - f[n] + g[n]
<1>1. SumFunction(f) = SumFunctionOnSet(f, Nodes) /\ SumFunction(g) = SumFunctionOnSet(g, Nodes)
  BY DEF SumFunction
<1>2. IsFiniteSet(Nodes)
  BY AssignmentAssumption
<1>3. \A x \in Nodes : f[x] \in Int /\ g[x] \in Int
  OBVIOUS
<1>4. SumFunctionOnSet(f, Nodes) \in Int
  BY <1>2, <1>3, SumType
<1>5. SumFunctionOnSet(g, Nodes) = SumFunctionOnSet(f, Nodes) - f[n] + g[n]
  BY <1>2, <1>3, SumUpdated
<1> QED
  BY <1>1, <1>4, <1>5

LEMMA RowType ==
  ASSUME NEW row \in [Nodes -> Seq(Message)]
  PROVE  RowExtra(row) \in Int /\ [m \in Nodes |-> ExtraOf(row[m])] \in [Nodes -> Int]
<1> DEFINE f == [m \in Nodes |-> ExtraOf(row[m])]
<1>1. f \in [Nodes -> Int]
  <2>1. \A m \in Nodes : ExtraOf(row[m]) \in Int
    BY ExtraTyped
  <2> QED
    BY <2>1
<1> HIDE DEF f
<1>2. SumFunction(f) \in Int
  BY <1>1, AssignmentAssumption, OneTermChanges
<1> QED
  BY <1>1, <1>2 DEF f, RowExtra

\* The queue from s to n may have changed, the others have not.
OneQueueChanges(u, v, s, n) ==
  /\ u \in Queues /\ v \in Queues
  /\ \A m \in Nodes \ {n} : v[s][m] = u[s][m]
  /\ \A k \in Nodes \ {s} : v[k] = u[k]

LEMMA QueueChanges ==
  ASSUME NEW s \in Nodes, NEW n \in Nodes, NEW u, NEW v, OneQueueChanges(u, v, s, n)
  PROVE  /\ Travelling(u) \in Int /\ ExtraOf(u[s][n]) \in Int /\ ExtraOf(v[s][n]) \in Int
         /\ Travelling(v) = Travelling(u) - ExtraOf(u[s][n]) + ExtraOf(v[s][n])
<1> DEFINE q == v[s][n]
<1>1. /\ \A m \in Nodes \ {n} : v[s][m] = u[s][m]
      /\ \A k \in Nodes \ {s} : v[k] = u[k]
      /\ u[s] \in [Nodes -> Seq(Message)] /\ v[s] \in [Nodes -> Seq(Message)]
      /\ u \in Queues /\ v \in Queues
  BY DEF Queues, OneQueueChanges
<1>2. ExtraOf(u[s][n]) \in Int /\ ExtraOf(q) \in Int
  BY <1>1, ExtraTyped
<1>3. RowExtra(v[s]) = RowExtra(u[s]) - ExtraOf(u[s][n]) + ExtraOf(q) /\ RowExtra(u[s]) \in Int
  <2> DEFINE f == [m \in Nodes |-> ExtraOf(u[s][m])]
             g == [m \in Nodes |-> ExtraOf(v[s][m])]
  <2>1. f \in [Nodes -> Int] /\ g \in [Nodes -> Int]
    BY <1>1, RowType
  <2>2. /\ \A m \in Nodes \ {n} : f[m] = g[m]
        /\ f[n] = ExtraOf(u[s][n]) /\ g[n] = ExtraOf(q)
    BY <1>1
  <2>3. RowExtra(u[s]) = SumFunction(f) /\ RowExtra(v[s]) = SumFunction(g)
    BY DEF RowExtra
  <2> HIDE DEF f, g
  <2>4. SumFunction(f) \in Int /\ SumFunction(g) = SumFunction(f) - f[n] + g[n]
    BY <2>1, <2>2, OneTermChanges
  <2> QED
    BY <2>2, <2>3, <2>4
<1>4. Travelling(v) = Travelling(u) - RowExtra(u[s]) + RowExtra(v[s]) /\ Travelling(u) \in Int
  <2> DEFINE f == [k \in Nodes |-> RowExtra(u[k])]
             g == [k \in Nodes |-> RowExtra(v[k])]
  <2>1. f \in [Nodes -> Int] /\ g \in [Nodes -> Int]
    BY <1>1, RowType DEF Queues
  <2>2. /\ \A k \in Nodes \ {s} : f[k] = g[k]
        /\ f[s] = RowExtra(u[s]) /\ g[s] = RowExtra(v[s])
    BY <1>1
  <2>3. Travelling(u) = SumFunction(f) /\ Travelling(v) = SumFunction(g)
    BY DEF Travelling
  <2> HIDE DEF f, g
  <2>4. SumFunction(f) \in Int /\ SumFunction(g) = SumFunction(f) - f[s] + g[s]
    BY <2>1, <2>2, OneTermChanges
  <2> QED
    BY <2>2, <2>3, <2>4
<1> DEFINE a == Travelling(u)
           b == RowExtra(u[s])
           c == ExtraOf(u[s][n])
           d == ExtraOf(q)
<1>5. /\ a \in Int /\ b \in Int /\ c \in Int /\ d \in Int
      /\ Travelling(v) = a - b + (b - c + d)
  BY <1>2, <1>3, <1>4
<1> HIDE DEF a, b, c, d
<1>6. Travelling(v) = a - c + d
  BY <1>5
<1> QED
  BY <1>1, <1>2, <1>4, <1>6 DEF a, c, d

\* One node's load changes.
LEMMA HeldChanges ==
  ASSUME NEW l \in [Nodes -> Int], NEW n \in Nodes, NEW x \in Int,
         NEW k, k = [l EXCEPT ![n] = x]
  PROVE  /\ SumFunction(l) \in Int /\ l[n] \in Int
         /\ SumFunction(k) = SumFunction(l) - l[n] + x
<1>1. k \in [Nodes -> Int] /\ k[n] = x /\ \A m \in Nodes \ {n} : l[m] = k[m]
  OBVIOUS
<1> QED
  BY <1>1, OneTermChanges

Balance == SumFunction(load) + Travelling(unicast) = ledger

LEMMA BalanceIsConservation ==
  LoadConserved <=> (MaxHlmac = 1 /\ MutualNeighbours => Balance)
BY DEF LoadConserved, Balance, Travelling, RowExtra, InFlight

\* A queue gives a message away, or takes one more, and the ledger says so.
LEMMA QueueBalance ==
  ASSUME LoadShape, Balance, NEW s \in Nodes, NEW n \in Nodes,
         NEW q \in Seq(Message), NEW x \in Int,
         unicast' = [unicast EXCEPT ![s][n] = q],
         ExtraOf(q) = ExtraOf(unicast[s][n]) + x,
         load' = load, ledger' = ledger + x
  PROVE  Balance'
<1> DEFINE a == SumFunction(load)
           b == Travelling(unicast)
           c == ExtraOf(unicast[s][n])
<1>1. unicast \in Queues /\ ledger \in Int
  BY DEF LoadShape, Queues
<1>2. b \in Int /\ c \in Int /\ Travelling(unicast') = b - c + ExtraOf(q)
  <2>1. OneQueueChanges(unicast, unicast', s, n) /\ unicast'[s][n] = q
    BY <1>1 DEF Queues, OneQueueChanges
  <2>2. /\ Travelling(unicast) \in Int /\ ExtraOf(unicast[s][n]) \in Int
        /\ Travelling(unicast') =
             Travelling(unicast) - ExtraOf(unicast[s][n]) + ExtraOf(unicast'[s][n])
    BY <2>1, QueueChanges
  <2> QED
    BY <2>1, <2>2
<1>3. a \in Int
  <2>1. load \in [Nodes -> Int] /\ load = [load EXCEPT ![Root] = load[Root]] /\ load[Root] \in Int
    BY AssignmentAssumption DEF LoadShape
  <2> QED
    BY <2>1, AssignmentAssumption, HeldChanges
<1>4. a + b = ledger /\ SumFunction(load') = a
  BY DEF Balance
<1> HIDE DEF a, b, c
<1>5. c + x \in Int /\ Travelling(unicast') = b - c + (c + x)
  BY <1>2 DEF c
<1>6. SumFunction(load') + Travelling(unicast') = ledger'
  BY <1>1, <1>2, <1>3, <1>4, <1>5
<1> QED
  BY <1>6 DEF Balance

-----------------------------------------------------------------------------
LEMMA PoppedChanges ==
  ASSUME LoadShape, NEW s \in Nodes, NEW n \in Nodes, unicast[s][n] # << >>
  PROVE  /\ Popped(s, n) \in Queues /\ Head(unicast[s][n]) \in Message
         /\ \A k \in Nodes \ {s} : Popped(s, n)[k] = unicast[k]
         /\ Travelling(unicast) \in Int /\ Head(unicast[s][n]).extra \in Int
         /\ Travelling(Popped(s, n)) =
              Travelling(unicast) - Head(unicast[s][n]).extra
<1> DEFINE q == unicast[s][n]
           v == Popped(s, n)
<1>1. unicast \in Queues /\ q \in Seq(Message) /\ v = [unicast EXCEPT ![s][n] = Tail(q)]
  BY DEF LoadShape, Queues, Popped
<1>2. /\ Tail(q) \in Seq(Message) /\ Head(q) \in Message /\ Head(q).extra \in Int
      /\ ExtraOf(q) = ExtraOf(Tail(q)) + Head(q).extra
  BY <1>1, ExtraOfTail
<1> DEFINE t == Tail(q)
<1> HIDE DEF v, t
<1>3. OneQueueChanges(unicast, v, s, n) /\ v[s][n] = t
  BY <1>1, <1>2 DEF Queues, OneQueueChanges, t
<1>4. /\ Travelling(unicast) \in Int /\ ExtraOf(unicast[s][n]) \in Int
      /\ ExtraOf(v[s][n]) \in Int
      /\ Travelling(v) = Travelling(unicast) - ExtraOf(unicast[s][n]) + ExtraOf(v[s][n])
  BY <1>3, QueueChanges
<1> DEFINE a == Travelling(unicast)
           b == ExtraOf(q)
           c == ExtraOf(t)
           x == Head(q).extra
<1>5. /\ a \in Int /\ b \in Int /\ c \in Int /\ x \in Int
      /\ b = c + x /\ Travelling(v) = a - b + c
  BY <1>2, <1>3, <1>4 DEF t
<1> HIDE DEF a, b, c, x
<1>6. Travelling(v) = a - x
  BY <1>5
<1> QED
  BY <1>2, <1>3, <1>4, <1>6 DEF OneQueueChanges, a, x, v

\* Behind any queue the messages carry x.
Carry(msgs, x) == \A q \in Seq(Message) : ExtraOf(q \o msgs) = ExtraOf(q) + x

\* v is u with the messages for the parents of n.
Sends(u, v, n, msgs) ==
  /\ u \in Queues /\ u[n] = unicast[n]
  /\ v = [u EXCEPT ![n] = SentToParents(n, msgs)]

\* Messages for the one parent.
LEMMA SentChanges ==
  ASSUME LoadShape, NEW n \in Nodes, NEW p \in Nodes, Parents(n) = {p},
         NEW u, NEW v, NEW msgs \in Seq(Message), Sends(u, v, n, msgs),
         NEW x \in Int, Carry(msgs, x)
  PROVE  Travelling(v) = Travelling(u) + x /\ Travelling(u) \in Int
<1> DEFINE sent == SentToParents(n, msgs)
<1>1. /\ sent \in [Nodes -> Seq(Message)]
      /\ sent[p] = u[n][p] \o msgs /\ \A m \in Nodes \ {p} : sent[m] = u[n][m]
  BY SentShape DEF Sends, SentToParents
<1>0. u \in Queues /\ v = [u EXCEPT ![n] = sent]
  BY DEF Sends
<1> HIDE DEF sent
<1>2. OneQueueChanges(u, v, n, p) /\ v[n][p] = u[n][p] \o msgs
  BY <1>0, <1>1 DEF Queues, OneQueueChanges
<1>3. /\ Travelling(u) \in Int /\ ExtraOf(u[n][p]) \in Int
      /\ Travelling(v) = Travelling(u) - ExtraOf(u[n][p]) + ExtraOf(v[n][p])
  <2>1. n \in Nodes /\ p \in Nodes /\ OneQueueChanges(u, v, n, p)
    BY <1>2
  <2> QED
    BY ONLY <2>1, QueueChanges
<1>4. ExtraOf(v[n][p]) = ExtraOf(u[n][p]) + x
  <2>1. u[n][p] \in Seq(Message)
    BY <1>0 DEF Queues
  <2> QED
    BY <1>2, <2>1 DEF Carry
<1> DEFINE a == Travelling(u)
           b == ExtraOf(u[n][p])
<1>5. a \in Int /\ b \in Int /\ Travelling(v) = a - b + (b + x)
  BY <1>3, <1>4
<1> HIDE DEF a, b
<1>6. Travelling(v) = a + x
  BY <1>5
<1> QED
  BY <1>3, <1>6 DEF a

LEMMA SentExtra ==
  ASSUME NEW held \in Int
  PROVE  /\ <<Load>> \in Seq(Message) /\ <<Share(held)>> \in Seq(Message)
         /\ <<Load, Share(held)>> \in Seq(Message)
         /\ Carry(<<Load>>, 0)
         /\ Carry(<<Share(held)>>, held - 100)
         /\ Carry(<<Load, Share(held)>>, held - 100)
<1> DEFINE l == Load
           m == Share(held)
<1>1. /\ l \in Message /\ m \in Message
      /\ l.extra = 0 /\ m.extra = held - 100
  BY MessagesMade DEF Load, Share
<1> HIDE DEF l, m
<1>2. <<l>> \in Seq(Message) /\ <<m>> \in Seq(Message) /\ <<l, m>> \in Seq(Message)
  BY <1>1
<1>3. ASSUME NEW q \in Seq(Message)
      PROVE  /\ ExtraOf(q \o <<l>>) = ExtraOf(q) + 0
             /\ ExtraOf(q \o <<m>>) = ExtraOf(q) + (held - 100)
             /\ ExtraOf(q \o <<l, m>>) = ExtraOf(q) + (held - 100)
  <2>1. /\ q \o <<l>> \in Seq(Message)
        /\ ExtraOf(q \o <<l>>) = ExtraOf(q) + l.extra
        /\ ExtraOf(q \o <<m>>) = ExtraOf(q) + m.extra
    BY <1>1, ExtraAppended
  <2>2. ExtraOf((q \o <<l>>) \o <<m>>) = ExtraOf(q \o <<l>>) + m.extra
    BY <1>1, <2>1, ExtraAppended
  <2>3. (q \o <<l>>) \o <<m>> = q \o <<l, m>>
    <3> DEFINE a == <<l>>
               b == <<m>>
    <3>1. q \in Seq(Message) /\ a \in Seq(Message) /\ b \in Seq(Message)
      BY <1>2
    <3>2. a \o b = <<l, m>>
      <4>1. /\ a \o b \in Seq(Message) /\ Len(a \o b) = 2
            /\ (a \o b)[1] = l /\ (a \o b)[2] = m
        BY <1>1
      <4>2. /\ <<l, m>> \in Seq(Message) /\ Len(<<l, m>>) = 2
            /\ <<l, m>>[1] = l /\ <<l, m>>[2] = m
        BY <1>1
      <4> DEFINE c == a \o b
                 d == <<l, m>>
      <4> HIDE DEF c, d
      <4>3. \A i \in 1 .. Len(c) : c[i] = d[i]
        BY <4>1, <4>2 DEF c, d
      <4> QED
        BY <4>1, <4>2, <4>3, SeqEqual DEF c, d
    <3> HIDE DEF a, b
    <3>3. (q \o a) \o b = q \o (a \o b)
      BY <3>1, ConcatAssociative
    <3> QED
      BY <3>2, <3>3 DEF a, b
  <2> DEFINE e == ExtraOf(q)
             f == ExtraOf(q \o <<l>>)
  <2>4. e \in Int /\ held - 100 \in Int
    BY ExtraTyped
  <2>5. f = e + 0 /\ ExtraOf(q \o <<m>>) = e + (held - 100)
        /\ ExtraOf(q \o <<l, m>>) = f + (held - 100)
    BY <1>1, <2>1, <2>2, <2>3
  <2> HIDE DEF e, f
  <2>6. ExtraOf(q \o <<l, m>>) = e + (held - 100)
    BY <2>4, <2>5
  <2> QED
    BY <2>5, <2>6 DEF e, f
<1> QED
  BY <1>2, <1>3 DEF l, m, Carry

-----------------------------------------------------------------------------
\* A common node that shares, or awaits shares, holds an address.
JoinedInv ==
  MaxHlmac = 1 /\ MutualNeighbours =>
    \A n \in Nodes \ {Root} :
      statistic_timer[n] \/ n_hijos_share[n] # 0 => hlmac_table[n] # << >>

TreeKnown == ShapeInv /\ TreeInv /\ UnheardInv /\ ParentInv

LEMMA OneParent ==
  ASSUME MaxHlmac = 1, MutualNeighbours, TreeInv, ParentInv,
         NEW n \in Nodes \ {Root}, hlmac_table[n] # << >>
  PROVE  \E p \in Nodes : Parents(n) = {p}
<1>1. \A p, q \in Parents(n) : p = q
  BY DEF TreeInv, TreeOrder
<1>2. PICK p \in Nbr[n] : flag[n][p] = 1
  BY DEF ParentInv, HasParent
<1>3. p \in Nodes /\ p \in Parents(n)
  BY <1>2, AssignmentAssumption DEF Parents
<1>4. Parents(n) = {p}
  BY <1>1, <1>3
<1> QED
  BY <1>3, <1>4

-----------------------------------------------------------------------------
\* The load of one node and what is on its way change: the sums.
LEMMA BalanceAfter ==
  ASSUME LoadShape, Balance, NEW n \in Nodes, NEW x \in Int, NEW y \in Int,
         load' = [load EXCEPT ![n] = x],
         Travelling(unicast) \in Int,
         Travelling(unicast') = Travelling(unicast) + y,
         ledger' = ledger + x - load[n] + y
  PROVE  Balance'
<1>1. load \in [Nodes -> Int] /\ ledger \in Int
  BY DEF LoadShape
<1>2. /\ SumFunction(load) \in Int /\ load[n] \in Int
      /\ SumFunction(load') = SumFunction(load) - load[n] + x
  BY <1>1, HeldChanges
<1>3. SumFunction(load) + Travelling(unicast) = ledger
  BY DEF Balance
<1> DEFINE a == SumFunction(load)
           b == Travelling(unicast)
           c == load[n]
<1>4. /\ a \in Int /\ b \in Int /\ c \in Int /\ ledger = a + b
      /\ SumFunction(load') = a - c + x /\ Travelling(unicast') = b + y
      /\ ledger' = ledger + x - c + y
  BY <1>2, <1>3
<1> HIDE DEF a, b, c
<1>5. SumFunction(load') + Travelling(unicast') = ledger'
  BY <1>4
<1> QED
  BY <1>5 DEF Balance

LEMMA TravellingType == ASSUME LoadShape PROVE Travelling(unicast) \in Int
<1>1. OneQueueChanges(unicast, unicast, Root, Root) /\ Root \in Nodes
  BY AssignmentAssumption DEF OneQueueChanges, LoadShape, Queues
<1> QED
  BY <1>1, QueueChanges

LEMMA BalanceDrawn ==
  ASSUME LoadShape, Balance, NEW n \in Nodes, NEW isHead, DrawLoad(n, isHead),
         unicast' = unicast
  PROVE  Balance'
<1>1. CASE UNCHANGED <<load, ledger>>
  BY <1>1 DEF Balance
<1>2. ASSUME NEW l \in Loads, load' = [load EXCEPT ![n] = l],
             ledger' = ledger + l - load[n]
      PROVE  Balance'
  <2>1. l \in Int /\ load[n] \in Int /\ ledger \in Int
    BY Den2neAssumption DEF LoadShape
  <2>2. ledger' = ledger + l - load[n] + 0
    BY <1>2, <2>1
  <2>3. Travelling(unicast) \in Int
    BY TravellingType
  <2>4. Travelling(unicast') = Travelling(unicast) + 0
    BY <2>3
  <2>5. 0 \in Int
    OBVIOUS
  <2> QED
    BY <1>2, <2>1, <2>2, <2>3, <2>4, <2>5, BalanceAfter, Zenon
<1> QED
  BY <1>1, <1>2 DEF DrawLoad

LEMMA BalanceStatisticTimer ==
  ASSUME MaxHlmac = 1, MutualNeighbours, TreeKnown, JoinedInv, ExchangeShape,
         Balance, NEW n \in Nodes, HandleStatisticTimer(n)
  PROVE  Balance'
<1>0. LoadShape /\ ledger' = ledger
  BY DEF ExchangeShape, HandleStatisticTimer
<1>1. CASE UNCHANGED <<load, unicast>>
  BY <1>0, <1>1 DEF Balance
<1>2. ASSUME n # Root, load' = [load EXCEPT ![n] = 100],
             unicast' = [unicast EXCEPT ![n] =
               SentToParents(n, <<Load, Share(load[n])>>)]
      PROVE  Balance'
  <2>1. hlmac_table[n] # << >>
    BY <1>2 DEF HandleStatisticTimer, JoinedInv
  <2>2. PICK p \in Nodes : Parents(n) = {p}
    BY <1>2, <2>1, OneParent DEF TreeKnown
  <2> DEFINE h == load[n]
             msgs == <<Load, Share(h)>>
  <2>3. h \in Int /\ ledger \in Int /\ unicast \in Queues
    BY <1>0 DEF LoadShape, Queues
  <2>4. unicast' = [unicast EXCEPT ![n] = SentToParents(n, msgs)]
    BY <1>2
  <2>8. Sends(unicast, unicast', n, msgs)
    BY <2>3, <2>4 DEF Sends
  <2> HIDE DEF h
  <2>9. msgs \in Seq(Message) /\ Carry(msgs, h - 100)
    BY <2>3, SentExtra, Zenon
  <2>5. msgs \in Seq(Message) /\ Carry(msgs, h - 100) /\ h - 100 \in Int
    BY <2>3, <2>9
  <2> HIDE DEF msgs
  <2>6. /\ Travelling(unicast') = Travelling(unicast) + (h - 100)
        /\ Travelling(unicast) \in Int
    BY <1>0, <2>2, <2>8, <2>5, SentChanges
  <2>7. ledger' = ledger + 100 - h + (h - 100) /\ 100 \in Int
    BY <1>0, <2>3
  <2> QED
    BY <1>0, <1>2, <2>5, <2>6, <2>7, BalanceAfter DEF h
<1> QED
  BY <1>1, <1>2 DEF HandleStatisticTimer

LEMMA SameLoad ==
  ASSUME LoadShape, NEW n \in Nodes, load' = load
  PROVE  load' = [load EXCEPT ![n] = load[n]] /\ load[n] \in Int /\ ledger \in Int
BY DEF LoadShape

\* A LOAD moves nothing, be it one that makes a node send its own.
LEMMA BalanceReceiveLoad ==
  ASSUME MaxHlmac = 1, MutualNeighbours, TreeKnown, ExchangeShape, Balance,
         NEW s \in Nodes, NEW n \in Nodes, ReceiveLoad(s, n)
  PROVE  Balance'
<1> DEFINE u == Popped(s, n)
           m == Head(unicast[s][n])
           t == Travelling(unicast)
<1>0. /\ LoadShape /\ ledger' = ledger /\ load' = load
      /\ unicast[s][n] # << >> /\ m.kind = "LOAD"
      /\ \/ unicast' = [u EXCEPT ![n] = u[n]]
         \/ s \in Nbr[n] /\ unicast' = [u EXCEPT ![n] = SentToParents(n, <<Load>>)]
  BY DEF ExchangeShape, ReceiveLoad
<1>1. /\ u \in Queues /\ m \in Message /\ \A k \in Nodes \ {s} : u[k] = unicast[k]
      /\ t \in Int /\ m.extra \in Int /\ Travelling(u) = t - m.extra
  BY <1>0, PoppedChanges
<1>2. m.extra = 0
  BY <1>0, <1>1 DEF Message
<1> HIDE DEF u, m, t
<1>3. Travelling(u) = t
  BY <1>1, <1>2
<1>4. Travelling(unicast') = t
  <2>1. CASE unicast' = [u EXCEPT ![n] = u[n]]
    <3>1. unicast' = u
      BY <1>1, <2>1 DEF Queues
    <3> QED
      BY <1>3, <3>1
  <2>2. CASE s \in Nbr[n] /\ unicast' = [u EXCEPT ![n] = SentToParents(n, <<Load>>)]
    <3>1. s # n /\ u[n] = unicast[n]
      BY <1>1, <2>2, AssignmentAssumption
    <3>2. CASE Parents(n) = {}
      <4>1. SentToParents(n, <<Load>>) = unicast[n]
        BY <1>0, <3>2 DEF SentToParents, LoadShape
      <4>2. unicast' = u
        BY <1>1, <2>2, <3>1, <4>1 DEF Queues
      <4> QED
        BY <1>3, <4>2
    <3>3. ASSUME NEW p \in Nodes, Parents(n) = {p}
          PROVE  Travelling(unicast') = t
      <4>1. <<Load>> \in Seq(Message) /\ Carry(<<Load>>, 0)
        <5>1. 0 \in Int
          OBVIOUS
        <5> QED
          BY <5>1, SentExtra, Zenon
      <4> DEFINE msgs == <<Load>>
      <4>2. /\ msgs \in Seq(Message) /\ Carry(msgs, 0) /\ 0 \in Int
            /\ Sends(u, unicast', n, msgs)
        BY <1>1, <2>2, <3>1, <4>1 DEF Sends
      <4> HIDE DEF msgs
      <4>3. Travelling(unicast') = Travelling(u) + 0
        BY <1>0, <3>3, <4>2, SentChanges
      <4> QED
        BY <1>1, <1>3, <4>3
    <3>4. \A p, q \in Parents(n) : p = q
      BY DEF TreeKnown, TreeInv, TreeOrder
    <3>5. Parents(n) # {} => \E p \in Nodes : Parents(n) = {p}
      BY <3>4 DEF Parents
    <3> QED
      BY <3>2, <3>3, <3>5
  <2> QED
    BY <1>0, <2>1, <2>2
<1>5. load' = [load EXCEPT ![n] = load[n]] /\ load[n] \in Int /\ ledger \in Int
  BY <1>0, SameLoad
<1>6. /\ Travelling(unicast') = Travelling(unicast) + 0 /\ Travelling(unicast) \in Int
      /\ ledger' = ledger + load[n] - load[n] + 0 /\ 0 \in Int
  BY <1>0, <1>1, <1>4, <1>5 DEF t
<1> QED
  BY <1>0, <1>5, <1>6, BalanceAfter

-----------------------------------------------------------------------------
\* A SHARE is taken into the load, sent on at once with what the node has, or
\* ignored, and then the ledger is told.
LEMMA BalanceReceiveShare ==
  ASSUME MaxHlmac = 1, MutualNeighbours, TreeKnown, JoinedInv, ExchangeShape,
         Balance, NEW s \in Nodes, NEW n \in Nodes, ReceiveShare(s, n)
  PROVE  Balance'
<1> DEFINE u == Popped(s, n)
           x == Head(unicast[s][n]).extra
           t == Travelling(unicast)
           h == load[n]
<1>0. /\ LoadShape /\ unicast[s][n] # << >>
      /\ ShareCounts(s, n, x) \/ ShareIgnored(s, n, x)
      /\ load \in [Nodes -> Int] /\ h \in Int /\ ledger \in Int
  BY DEF ExchangeShape, LoadShape, ReceiveShare
<1>1. /\ u \in Queues /\ \A k \in Nodes \ {s} : u[k] = unicast[k]
      /\ t \in Int /\ x \in Int /\ Travelling(u) = t - x
  BY <1>0, PoppedChanges
<1>2. CASE ShareIgnored(s, n, x)
  <2>1. load' = load /\ unicast' = u /\ ledger' = ledger - x
    BY <1>2 DEF ShareIgnored
  <2>2. load' = [load EXCEPT ![n] = h]
    BY <1>0, <2>1
  <2> HIDE DEF u, x, h, t
  <2> DEFINE y == 0 - x
  <2>3. y \in Int /\ Travelling(unicast') = t + y /\ ledger' = ledger + h - h + y
    BY <1>0, <1>1, <2>1
  <2> HIDE DEF y
  <2> QED
    BY <1>0, <1>1, <2>2, <2>3, BalanceAfter, Zenon DEF t, h
<1>3. CASE ShareCounts(s, n, x)
  <2>1. /\ s \in Nbr[n] /\ n_hijos_share[n] # 0 /\ ledger' = ledger
        /\ \/ /\ n # Root /\ load' = [load EXCEPT ![n] = 100]
              /\ unicast' = [u EXCEPT ![n] = SentToParents(n, <<Share(h + x)>>)]
           \/ load' = [load EXCEPT ![n] = h + x] /\ unicast' = u
    BY <1>3 DEF ShareCounts, Counts, Children
  <2>2. CASE load' = [load EXCEPT ![n] = h + x] /\ unicast' = u
    <3> HIDE DEF u, x, h, t
    <3> DEFINE y == 0 - x
               z == h + x
    <3>1. /\ y \in Int /\ z \in Int /\ Travelling(unicast') = t + y
          /\ ledger' = ledger + z - h + y /\ load' = [load EXCEPT ![n] = z]
      BY <1>0, <1>1, <2>1, <2>2
    <3> HIDE DEF y, z
    <3> QED
      BY <1>0, <1>1, <3>1, BalanceAfter, Zenon DEF t, h
  <2>3. CASE /\ n # Root /\ load' = [load EXCEPT ![n] = 100]
             /\ unicast' = [u EXCEPT ![n] = SentToParents(n, <<Share(h + x)>>)]
    <3>1. hlmac_table[n] # << >>
      BY <2>1, <2>3 DEF JoinedInv
    <3>2. PICK p \in Nodes : Parents(n) = {p}
      BY <2>3, <3>1, OneParent DEF TreeKnown
    <3> DEFINE z == h + x
               msgs == <<Share(z)>>
    <3>3. s # n /\ u[n] = unicast[n]
      BY <1>1, <2>1, AssignmentAssumption
    <3>4. Sends(u, unicast', n, msgs)
      BY <1>1, <2>3, <3>3 DEF Sends
    <3> HIDE DEF u, x, h, t
    <3>5. z \in Int
      BY <1>0, <1>1
    <3> HIDE DEF z
    <3>6. msgs \in Seq(Message) /\ Carry(msgs, z - 100)
      BY <3>5, SentExtra, Zenon
    <3> HIDE DEF msgs
    <3> DEFINE w == z - 100
               y == w - x
    <3>7. w \in Int /\ y \in Int
      BY <1>1, <3>5
    <3>8. Carry(msgs, w)
      BY <3>6
    <3> HIDE DEF w
    <3>9. Travelling(unicast') = Travelling(u) + w
      BY <1>0, <3>2, <3>4, <3>6, <3>7, <3>8, SentChanges
    <3>10. Travelling(unicast') = t + y
      BY <1>1, <3>7, <3>9
    <3>11. ledger' = ledger + 100 - h + y
      BY <1>0, <1>1, <2>1 DEF y, w, z
    <3>12. 100 \in Int
      OBVIOUS
    <3> HIDE DEF y
    <3> QED
      BY <1>0, <1>1, <2>3, <3>7, <3>10, <3>11, <3>12, BalanceAfter, Zenon DEF t, h
  <2> QED
    BY <2>1, <2>2, <2>3
<1> QED
  BY <1>0, <1>2, <1>3

LEMMA BalanceLoseMessage ==
  ASSUME ExchangeShape, Balance, NEW s \in Nodes, NEW n \in Nodes,
         LoseMessage(s, n)
  PROVE  Balance'
<1> DEFINE q == unicast[s][n]
<1>0. LoadShape /\ q \in Seq(Message) /\ ledger \in Int
  BY DEF ExchangeShape, LoadShape
<1>1. PICK i \in DOMAIN q :
        /\ unicast' = [unicast EXCEPT ![s][n] = RemoveAt(q, i)]
        /\ ledger' = ledger - q[i].extra /\ load' = load
  BY DEF LoseMessage
<1>2. i \in 1 .. Len(q) /\ q[i].extra \in Int
  BY <1>0, <1>1, ExtraTyped
<1>3. RemoveAt(q, i) \in Seq(Message) /\ ExtraOf(q) = ExtraOf(RemoveAt(q, i)) + q[i].extra
  BY <1>0, <1>2, ExtraOfRemoved
<1> DEFINE r == RemoveAt(q, i)
           x == 0 - q[i].extra
<1>4. ExtraOf(r) \in Int
  BY <1>3, ExtraTyped
<1>5. x \in Int /\ ledger' = ledger + x /\ ExtraOf(r) = ExtraOf(q) + x
  BY <1>0, <1>1, <1>2, <1>3, <1>4
<1>6. r \in Seq(Message) /\ unicast' = [unicast EXCEPT ![s][n] = r] /\ load' = load
  BY <1>1, <1>3
<1> HIDE DEF r, x
<1> QED
  BY <1>0, <1>5, <1>6, QueueBalance

LEMMA BalanceRepeatMessage ==
  ASSUME ExchangeShape, Balance, NEW s \in Nodes, NEW n \in Nodes,
         RepeatMessage(s, n)
  PROVE  Balance'
<1> DEFINE q == unicast[s][n]
           r == <<Head(q)>> \o q
           x == Head(q).extra
<1>1. /\ LoadShape /\ q \in Seq(Message) /\ q # << >> /\ load' = load
      /\ unicast' = [unicast EXCEPT ![s][n] = r] /\ ledger' = ledger + x
  BY DEF ExchangeShape, LoadShape, RepeatMessage
<1>2. r \in Seq(Message) /\ ExtraOf(r) = ExtraOf(q) + x /\ x \in Int
  BY <1>1, ExtraRepeated, ExtraOfTail
<1> HIDE DEF r, x
<1> QED
  BY <1>1, <1>2, QueueBalance

LEMMA NextBalance ==
  ASSUME MaxHlmac = 1, MutualNeighbours, TreeKnown, JoinedInv, ExchangeShape,
         Balance, [Next]_vars
  PROVE  Balance'
<1>1. LoadShape
  BY DEF ExchangeShape
<1>2. ASSUME UNCHANGED <<load, unicast, ledger>> PROVE Balance'
  BY <1>2 DEF Balance
<1>3. CASE BeginRound
  BY <1>1, <1>3, BalanceDrawn, AssignmentAssumption DEF BeginRound
<1>4. ASSUME NEW n \in Nodes, BroadcastSetHlmac(n) \/ HandleStatisticTimer(n)
      PROVE  Balance'
  BY <1>2, <1>4, BalanceStatisticTimer DEF BroadcastSetHlmac, loadVars
<1>5. ASSUME NEW o \in offers, HandleOffer(o) \/ LoseFrame(o) PROVE Balance'
  <2>1. o.to \in Nodes
    BY DEF TreeKnown, ShapeInv, AssignmentTypeOK, Offer
  <2>2. CASE TakeAddress(o)
    BY <1>1, <2>1, <2>2, BalanceDrawn DEF TakeAddress
  <2>3. CASE LeaveAddress(o) \/ LoseFrame(o)
    BY <1>2, <2>3 DEF LeaveAddress, LoseFrame, loadVars
  <2> QED
    BY <1>5, <2>2, <2>3 DEF HandleOffer
<1>6. ASSUME NEW s \in Nodes, NEW n \in Nodes,
             HandleMessage(s, n) \/ LoseMessage(s, n) \/ RepeatMessage(s, n)
      PROVE  Balance'
  BY <1>6, BalanceReceiveLoad, BalanceReceiveShare, BalanceLoseMessage,
     BalanceRepeatMessage
  DEF HandleMessage
<1>7. CASE UNCHANGED vars
  BY <1>2, <1>7 DEF vars, loadVars
<1> QED
  BY <1>3, <1>4, <1>5, <1>6, <1>7 DEF Next

-----------------------------------------------------------------------------
\* A node's table is never emptied.
LEMMA NextAdvances ==
  ASSUME MaxHlmac = 1, MutualNeighbours, TreeKnown, ShapeInv',
         [AssignmentNext]_assignmentVars
  PROVE  HeadsAdvance
<1>1. ShapeInv /\ TreeInv /\ UnheardInv /\ OnceInv /\ AssignmentTypeOK
  BY DEF TreeKnown, UnheardInv, ShapeInv
<1>2. ASSUME UNCHANGED hlmac_table PROVE HeadsAdvance
  BY <1>2 DEF HeadsAdvance
<1>3. CASE StartRound
  <2> DEFINE addr == hlmac_create_root_addr(1)
             ts == timestamp + 1
  <2>1. addr \in Address /\ ts \in 0 .. MaxRound
    BY <1>1, <1>3, AssignmentAssumption
    DEF hlmac_create_root_addr, Address, StartRound, AssignmentTypeOK
  <2>2. /\ Root \in Nodes /\ Len(hlmac_table[Root]) <= 1
        /\ hlmac_table' = [hlmac_table EXCEPT ![Root] =
             hlmactable_add(hlmac_table[Root], addr, ts)]
    BY <1>1, <1>3, AssignmentAssumption DEF TreeInv, StartRound
  <2> HIDE DEF addr, ts
  <2> QED
    BY <1>1, <2>1, <2>2, HeadAfterAdd
<1>4. ASSUME NEW n \in Nodes, SendMessage(n) PROVE HeadsAdvance
  BY <1>2, <1>4 DEF SendMessage
<1>5. ASSUME NEW o \in offers,
             \/ AcceptOffer(o) \/ RefuseOffer(o)
             \/ DisregardOffer(o) \/ LoseOffer(o)
      PROVE  HeadsAdvance
  BY <1>1, <1>2, <1>5, AcceptedOffer, RefusedOffer DEF DisregardOffer, LoseOffer
<1>6. CASE UNCHANGED assignmentVars
  BY <1>2, <1>6 DEF assignmentVars
<1> QED
  BY <1>3, <1>4, <1>5, <1>6 DEF AssignmentNext

LEMMA NextJoined ==
  TreeKnown /\ ShapeInv' /\ ExchangeShape /\ JoinedInv /\ [Next]_vars => JoinedInv'
<1> SUFFICES ASSUME TreeKnown, ShapeInv', ExchangeShape, JoinedInv, [Next]_vars,
                    MaxHlmac = 1, MutualNeighbours, NEW n \in Nodes \ {Root},
                    statistic_timer'[n] \/ n_hijos_share'[n] # 0
             PROVE  hlmac_table'[n] # << >>
  BY DEF JoinedInv, MutualNeighbours
<1>1. hlmac_table[n] # << >> => hlmac_table'[n] # << >>
  BY NextAdvances, AssignmentStep DEF HeadsAdvance
<1>2. statistic_timer[n] \/ n_hijos_share[n] # 0 => hlmac_table[n] # << >>
  BY DEF JoinedInv
<1>3. ASSUME statistic_timer'[n] => statistic_timer[n],
             n_hijos_share'[n] # 0 => statistic_timer[n] \/ n_hijos_share[n] # 0
      PROVE  hlmac_table'[n] # << >>
  BY <1>1, <1>2, <1>3
<1>4. ASSUME NEW o \in offers, HandleOffer(o) \/ LoseFrame(o)
      PROVE  hlmac_table'[n] # << >>
  <2>1. CASE TakeAddress(o) /\ n = o.to
    BY <2>1, AcceptedOffer DEF TakeAddress, TreeKnown, UnheardInv
  <2>2. CASE TakeAddress(o) /\ n # o.to
    BY <1>3, <2>2 DEF TakeAddress, ExchangeShape, FlagShape
  <2>3. CASE LeaveAddress(o) \/ LoseFrame(o)
    BY <1>3, <2>3 DEF LeaveAddress, LoseFrame, loadVars
  <2> QED
    BY <1>4, <2>1, <2>2, <2>3 DEF HandleOffer
<1>5. ASSUME NEW m \in Nodes, HandleStatisticTimer(m)
      PROVE  hlmac_table'[n] # << >>
  BY <1>3, <1>5 DEF HandleStatisticTimer, ExchangeShape, FlagShape, CountShape
<1>6. ASSUME NEW s \in Nodes, NEW m \in Nodes, ReceiveShare(s, m)
      PROVE  hlmac_table'[n] # << >>
  BY <1>3, <1>6
  DEF ReceiveShare, ShareCounts, ShareIgnored, Counts, ExchangeShape, CountShape
<1>7. ASSUME UNCHANGED <<statistic_timer, n_hijos_share>>
      PROVE  hlmac_table'[n] # << >>
  BY <1>3, <1>7
<1>8. CASE BeginRound
  BY <1>3, <1>8 DEF BeginRound, ExchangeShape, FlagShape
<1>9. ASSUME NEW m \in Nodes, BroadcastSetHlmac(m) PROVE hlmac_table'[n] # << >>
  BY <1>7, <1>9 DEF BroadcastSetHlmac, loadVars
<1>10. ASSUME NEW s \in Nodes, NEW m \in Nodes,
              ReceiveLoad(s, m) \/ LoseMessage(s, m) \/ RepeatMessage(s, m)
       PROVE  hlmac_table'[n] # << >>
  BY <1>7, <1>10 DEF ReceiveLoad, LoseMessage, RepeatMessage
<1>11. CASE UNCHANGED vars
  BY <1>7, <1>11 DEF vars, loadVars
<1> QED
  BY <1>4, <1>5, <1>6, <1>8, <1>9, <1>10, <1>11 DEF Next, HandleMessage

LEMMA NothingHeld ==
  ASSUME NEW f \in [Nodes -> Int], \A n \in Nodes : f[n] = 0
  PROVE  SumFunction(f) = 0
<1>1. IsFiniteSet(Nodes)
  BY AssignmentAssumption
<1>2. SumFunctionOnSet(f, Nodes) = 0 * Cardinality(Nodes) /\ Cardinality(Nodes) \in Nat
  BY <1>1, SumConstant, FS_CardinalityType
<1> QED
  BY <1>2 DEF SumFunction

LEMMA NothingTravels ==
  ASSUME \A n, m \in Nodes : unicast[n][m] = << >>
  PROVE  Travelling(unicast) = 0
<1>1. ExtraOf(<< >>) = 0
  <2>1. DOMAIN << >> = {}
    OBVIOUS
  <2> QED
    BY <2>1, SumEmpty DEF ExtraOf, SumFunction
<1>2. \A n \in Nodes : RowExtra(unicast[n]) = 0
  <2> SUFFICES ASSUME NEW n \in Nodes PROVE RowExtra(unicast[n]) = 0
    OBVIOUS
  <2> DEFINE f == [m \in Nodes |-> ExtraOf(unicast[n][m])]
  <2>1. f \in [Nodes -> Int] /\ \A m \in Nodes : f[m] = 0
    BY <1>1
  <2> HIDE DEF f
  <2>2. SumFunction(f) = 0
    BY <2>1, NothingHeld
  <2> QED
    BY <2>2 DEF RowExtra, f
<1>3. Travelling(unicast) = 0
  <2> DEFINE f == [n \in Nodes |-> RowExtra(unicast[n])]
  <2>1. f \in [Nodes -> Int] /\ \A n \in Nodes : f[n] = 0
    BY <1>2
  <2> HIDE DEF f
  <2>2. SumFunction(f) = 0
    BY <2>1, NothingHeld
  <2> QED
    BY <2>2 DEF Travelling, f
<1> QED
  BY <1>3

LEMMA InitBalance == Init => JoinedInv /\ Balance
<1> SUFFICES ASSUME Init PROVE JoinedInv /\ Balance
  OBVIOUS
<1>1. JoinedInv
  BY DEF Init, JoinedInv
<1>2. Travelling(unicast) = 0
  BY NothingTravels DEF Init
<1>3. SumFunction(load) = 0 /\ ledger = 0
  <2>1. load \in [Nodes -> Int] /\ (\A n \in Nodes : load[n] = 0) /\ ledger = 0
    BY DEF Init
  <2> QED
    BY <2>1, NothingHeld
<1> QED
  BY <1>1, <1>2, <1>3 DEF Balance

\* With one address per node and tables that know each other, what the nodes
\* hold and what is on its way adds up to what was drawn less what was dropped:
\* the handlers of LOAD, SHARE and the statistic timer neither make nor destroy
\* load, whatever is lost, repeated or late.
THEOREM LoadIsConserved == Spec => []LoadConserved
<1>1. Spec => []TreeKnown
  BY ImplementsAssignment, SpecUnheard, PTL DEF TreeKnown
<1>2. Init => ExchangeShape /\ JoinedInv /\ (MaxHlmac = 1 /\ MutualNeighbours => Balance)
  BY InitExchange, InitBalance
<1>3. /\ ExchangeShape /\ JoinedInv /\ (MaxHlmac = 1 /\ MutualNeighbours => Balance)
      /\ TreeKnown /\ TreeKnown' /\ [Next]_vars
      => (ExchangeShape /\ JoinedInv /\ (MaxHlmac = 1 /\ MutualNeighbours => Balance))'
  <2> SUFFICES ASSUME ExchangeShape, JoinedInv, TreeKnown, TreeKnown', [Next]_vars,
                      MaxHlmac = 1 /\ MutualNeighbours => Balance
               PROVE  /\ ExchangeShape' /\ JoinedInv'
                      /\ (MaxHlmac = 1 /\ MutualNeighbours)' => Balance'
    OBVIOUS
  <2>1. ExchangeShape' /\ JoinedInv'
    BY NextExchange, NextJoined DEF TreeKnown, ShapeInv
  <2>2. MutualNeighbours' <=> MutualNeighbours
    BY DEF MutualNeighbours
  <2> QED
    BY <2>1, <2>2, NextBalance
<1> QED
  BY <1>1, <1>2, <1>3, BalanceIsConservation, PTL DEF Spec
=============================================================================
